--------------------------------- MODULE Access ---------------------------------
(***************************************************************************)
(* Who may call what: logins, sessions whose refresh tokens are rotated,   *)
(* access tokens that are believed until they expire, and the guards every *)
(* request passes, which keep what they have read of a role in a cache.    *)
(*                                                                         *)
(* One user is modelled: the sessions, tokens and cache entries of another *)
(* are apart from his.  Nothing in the code changes what it reads of users *)
(* and roles (failed logins are counted, and the count is not looked at):  *)
(* their rows are changed from outside.                                    *)
(***************************************************************************)
EXTENDS Endpoints, FiniteSets

CONSTANTS
    Requests,    \* concurrent requests
    None,        \* no session, entry, call or answer
    Roles,       \* the ids of the roles
    RoleRows,    \* RoleRows[k]: the row of role k at first, its code and is_system_role
    LaterRows,   \* the rows a role may have later
    Scopes,      \* what an execution is about: "sessions", "routes"
    Asked,       \* Asked[s]: the handlers that are asked for in scope s
    AccessTTL,   \* JWT_EXPIRES_IN
    RefreshTTL,  \* REFRESH_EXPIRES_IN
    CacheTTL,    \* TTL_MS
    CallTime,    \* bound: how long a call takes
    MaxTime,     \* bound: the clock
    MaxSessions, \* bound: sessions
    MaxMinted,   \* bound: refresh tokens
    MaxChanges   \* bound: changes of the user and of roles

RoleRow == [code : Everyone, system : BOOLEAN]

ASSUME AccessConstants ==
    /\ RoleRows \in [Roles -> RoleRow] /\ LaterRows \subseteq RoleRow
    /\ Scopes \subseteq {"sessions", "routes"}
    /\ \A s \in Scopes : Asked[s] \subseteq {h \in DOMAIN Handlers : ~ Handlers[h].public}
    /\ {AccessTTL, RefreshTTL, CacheTTL, CallTime, MaxTime, MaxChanges} \subseteq Nat
    /\ {MaxSessions, MaxMinted} \subseteq Nat \ {0}
    /\ None \notin Roles \union Nat

VARIABLES
    scope,    \* what the execution is about
    now,      \* the time
    user,     \* the row of the user: is_active and status, locked_at, role_id
    roleRow,  \* the rows of the roles
    session,  \* the rows of user_sessions
    minted,   \* how many refresh tokens were made: they are numbered
    access,   \* the access tokens the client holds that have not expired
    refresh,  \* the refresh tokens the client holds
    cache,    \* cache[k]: the entry of the user with role k
    call,     \* call[r]: what request r has read and has still to do
    answer,   \* the answer RolesGuard has just given
    changed,  \* history: when the user and the roles were last changed
    ended,    \* history: ended[s]: when session s was ended first
    used,     \* history: the refresh tokens that were exchanged
    changes   \* how many changes there were

rows == <<user, roleRow, changed, changes>>
tokens == <<session, minted, access, refresh, ended, used>>
vars == <<scope, now, rows, tokens, cache, call, answer>>

-----------------------------------------------------------------------------
(* Types.                                                                  *)

Time == 0 .. MaxTime + RefreshTTL + AccessTTL + CacheTTL
Sessions == 1 .. MaxSessions
Minted == 1 .. MaxMinted

SessionRow == [status : {"ACTIVE", "REVOKED"}, hash : Minted, expires : Time, endedAt : Time \union {None}]
AccessToken == [session : Sessions, role : Roles, exp : Time]
CacheEntry == [row : RoleRow, expiresAt : Time]

Call ==   [op : {"login"}, role : Roles, begun : Time]
   \union [op : {"exchange"}, session : Sessions, token : Minted, begun : Time]
   \union [op : {"rotate"}, session : Sessions, token : Minted, role : Roles, signed : Time, begun : Time]
   \union [op : {"authenticated", "resolving"}, token : AccessToken, sent : DOMAIN Handlers, begun : Time]
   \union [op : {"resolved"}, token : AccessToken, sent : DOMAIN Handlers, row : RoleRow, begun : Time]
   \union [op : {"logout"}, session : Sessions, begun : Time]

Answer == [token : AccessToken, sent : DOMAIN Handlers, reached : DOMAIN Handlers, allowed : BOOLEAN]

ASSUME NoneIsNoRow == None \notin SessionRow \union CacheEntry \union Call

\* Rows, tokens and calls are what they are declared to be; a session has ended
\* when it is no longer active.
TypeOK ==
    /\ scope \in Scopes /\ now \in 0 .. MaxTime
    /\ user \in [active : BOOLEAN, locked : BOOLEAN, role : Roles]
    /\ roleRow \in [Roles -> RoleRow]
    /\ session \in [Sessions -> SessionRow \union {None}]
    /\ \A s \in Sessions : session[s] # None => ((session[s].status = "ACTIVE") <=> (session[s].endedAt = None))
    /\ minted \in 0 .. MaxMinted
    /\ access \subseteq AccessToken
    /\ refresh \in [Sessions -> SUBSET Minted]
    /\ cache \in [Roles -> CacheEntry \union {None}]
    /\ call \in [Requests -> Call \union {None}]
    /\ answer \in Answer \union {None}
    /\ changed \in [account : Time, role : Time, row : [Roles -> Time]]
    /\ ended \in [Sessions -> Time \union {None}]
    /\ used \subseteq Minted
    /\ changes \in 0 .. MaxChanges

-----------------------------------------------------------------------------
(* The user has not logged in yet; where handlers are asked for, he has.   *)

LoggedIn == scope = "routes"

Init ==
    /\ scope \in Scopes
    /\ now = 0
    /\ user \in [active : {TRUE}, locked : {FALSE}, role : Roles]
    /\ access = IF LoggedIn THEN {[session |-> 1, role |-> user.role, exp |-> AccessTTL]} ELSE {}
    /\ roleRow = RoleRows
    /\ session = [s \in Sessions |-> IF LoggedIn /\ s = 1
                     THEN [status |-> "ACTIVE", hash |-> 1, expires |-> RefreshTTL, endedAt |-> None] ELSE None]
    /\ minted = IF LoggedIn THEN 1 ELSE 0
    /\ refresh = [s \in Sessions |-> {}]
    /\ cache = [k \in Roles |-> None]
    /\ call = [r \in Requests |-> None]
    /\ answer = None
    /\ changed = [account |-> 0, role |-> 0, row |-> [k \in Roles |-> 0]]
    /\ ended = [s \in Sessions |-> None]
    /\ used = {}
    /\ changes = 0

At(r, op) == call[r] # None /\ call[r].op = op
Go(r, c) == call' = [call EXCEPT ![r] = c] /\ answer' = None
Finish(r) == Go(r, None)

-----------------------------------------------------------------------------
(* Login: the user is read, then the session inserted; the refresh token   *)
(* was made, and its expiry set, at some time in between.                  *)

Unlocked == user.active /\ ~ user.locked

ValidateUser(r) ==
    /\ call[r] = None
    /\ Unlocked
    /\ \E s \in Sessions : session[s] = None
    /\ Go(r, [op |-> "login", role |-> user.role, begun |-> now])
    /\ UNCHANGED <<scope, now, rows, tokens, cache>>

CreateSession(r) ==
    /\ At(r, "login")
    /\ minted < MaxMinted
    /\ \E s \in Sessions, made \in call[r].begun .. now :
          /\ session[s] = None /\ \A t \in 1 .. s - 1 : session[t] # None
          /\ session' = [session EXCEPT ![s] = [status |-> "ACTIVE", hash |-> minted + 1,
                                                expires |-> made + RefreshTTL, endedAt |-> None]]
          /\ refresh' = [refresh EXCEPT ![s] = {minted + 1}]
          /\ access' = access \union {[session |-> s, role |-> call[r].role, exp |-> now + AccessTTL]}
    /\ minted' = minted + 1
    /\ Finish(r)
    /\ UNCHANGED <<scope, now, rows, cache, ended, used>>

-----------------------------------------------------------------------------
(* Refresh: the session is read and checked, the user is read and a token  *)
(* signed, the session is written whatever it is by then.                  *)

ValidSessionWhatever(s) == now <= session[s].expires
ValidSession(s) ==
    /\ session[s].status = "ACTIVE"
    /\ session[s].endedAt = None
    /\ now <= session[s].expires

CheckRefresh(r, s, token) ==
    /\ call[r] = None
    /\ session[s] # None
    /\ ValidSession(s)
    /\ session[s].hash = token
    /\ Go(r, [op |-> "exchange", session |-> s, token |-> token, begun |-> now])
    /\ UNCHANGED <<scope, now, rows, tokens, cache>>

\* findActiveById does not look at locked_at: an account that is locked refreshes
\* its tokens, which are of no use while it is locked.
ReadUser(r) ==
    /\ At(r, "exchange")
    /\ IF user.active
         THEN Go(r, [op |-> "rotate", session |-> call[r].session, token |-> call[r].token,
                     role |-> user.role, signed |-> now, begun |-> call[r].begun])
         ELSE Finish(r)
    /\ UNCHANGED <<scope, now, rows, tokens, cache>>

\* UserSessionsRepository.update.  An access token that is signed takes effect
\* for the client, if the answer arrives, as does the refresh token.
RotateReviving(row, hash, expires) == [row EXCEPT !.hash = hash, !.expires = expires, !.status = "ACTIVE"]
Rotate(row, hash, expires) == [row EXCEPT !.hash = hash, !.expires = expires]

RefreshSession(r, arrives) ==
    /\ At(r, "rotate")
    /\ minted < MaxMinted
    /\ LET c == call[r]
           token == [session |-> c.session, role |-> c.role, exp |-> c.signed + AccessTTL]
       IN  /\ session' = [session EXCEPT ![c.session] = Rotate(@, minted + 1, c.signed + RefreshTTL)]
           /\ used' = used \union {c.token}
           /\ IF arrives
                THEN /\ refresh' = [refresh EXCEPT ![c.session] = @ \union {minted + 1}]
                     /\ access' = IF token.exp > now THEN access \union {token} ELSE access
                ELSE UNCHANGED <<refresh, access>>
    /\ minted' = minted + 1
    /\ Finish(r)
    /\ UNCHANGED <<scope, now, rows, cache, ended>>

-----------------------------------------------------------------------------
(* A request.                                                              *)

\* JwtAuthGuard and JwtStrategy: the token has not expired, the user is active
\* and not locked; the session and the role are those of the token.
Authenticate(r, token, sent) ==
    /\ call[r] = None
    /\ now < token.exp
    /\ Unlocked
    /\ Go(r, [op |-> "authenticated", token |-> token, sent |-> sent, begun |-> now])
    /\ UNCHANGED <<scope, now, rows, tokens, cache>>

\* MemoryPermissionCache.get: the entry, unless it has expired.
CachedForever(k) == cache[k]
Cached(k) == IF cache[k] # None /\ now <= cache[k].expiresAt THEN cache[k] ELSE None

\* RolesGuard, hasRole and isSystemRole.
MayCall(row, h) == IF Handlers[h].roles = Unstated THEN row.system ELSE row.code \in Handlers[h].roles

\* The guard answers; the ScreenPermissionGuard behind it lets everything pass,
\* as no handler states a screen; of the handlers only logout is of interest.
Decide(r, row) ==
    LET c == call[r]
        reached == Reached(c.sent)
        allowed == MayCall(row, reached)
    IN  /\ answer' = [token |-> c.token, sent |-> c.sent, reached |-> reached, allowed |-> allowed]
        /\ call' = [call EXCEPT ![r] =
                      IF allowed /\ Handlers[reached].name = "logout"
                        THEN [op |-> "logout", session |-> c.token.session, begun |-> c.begun]
                        ELSE None]

\* PermissionResolverService.resolve, as far as the cache.
Resolve(r) ==
    /\ At(r, "authenticated")
    /\ LET c == call[r]
           entry == Cached(c.token.role)
       IN  /\ cache' = [cache EXCEPT ![c.token.role] = entry]
           /\ IF entry # None
                THEN Decide(r, entry.row)
                ELSE Go(r, [c EXCEPT !.op = "resolving"])
    /\ UNCHANGED <<scope, now, rows, tokens>>

\* The role is read, and then what was read is cached.
ReadRole(r) ==
    /\ At(r, "resolving")
    /\ LET c == call[r]
       IN  Go(r, [op |-> "resolved", token |-> c.token, sent |-> c.sent,
                  row |-> roleRow[c.token.role], begun |-> c.begun])
    /\ UNCHANGED <<scope, now, rows, tokens, cache>>

\* MemoryPermissionCache.set.
SetCache(r) ==
    /\ At(r, "resolved")
    /\ cache' = [cache EXCEPT ![call[r].token.role] = [row |-> call[r].row, expiresAt |-> now + CacheTTL]]
    /\ Decide(r, call[r].row)
    /\ UNCHANGED <<scope, now, rows, tokens>>

\* LogoutUseCase, revokeById: also a session that has been ended already.
RevokeSession(r) ==
    /\ At(r, "logout")
    /\ LET s == call[r].session
       IN  /\ session' = [session EXCEPT ![s].status = "REVOKED", ![s].endedAt = now]
           /\ ended' = [ended EXCEPT ![s] = IF @ = None THEN now ELSE @]
    /\ Finish(r)
    /\ UNCHANGED <<scope, now, rows, minted, access, refresh, used, cache>>

-----------------------------------------------------------------------------
(* From outside.                                                           *)

Change ==
    /\ changes < MaxChanges
    /\ changes' = changes + 1
    /\ answer' = None
    /\ \/ /\ user' \in {[user EXCEPT !.active = ~ @], [user EXCEPT !.locked = ~ @]}
          /\ changed' = [changed EXCEPT !.account = now]
          /\ UNCHANGED roleRow
       \/ \E k \in Roles \ {user.role} :
          /\ user' = [user EXCEPT !.role = k]
          /\ changed' = [changed EXCEPT !.role = now]
          /\ UNCHANGED roleRow
       \/ \E k \in Roles : \E row \in LaterRows \ {roleRow[k]} :
          /\ roleRow' = [roleRow EXCEPT ![k] = row]
          /\ changed' = [changed EXCEPT !.row[k] = now]
          /\ UNCHANGED user
    /\ UNCHANGED <<scope, now, tokens, cache, call>>

\* A call is over before it has taken longer than CallTime.
Tick ==
    /\ now < MaxTime
    /\ \A r \in Requests : call[r] # None => now < call[r].begun + CallTime
    /\ now' = now + 1
    /\ access' = {t \in access : t.exp > now'}
    /\ answer' = None
    /\ UNCHANGED <<scope, rows, session, minted, refresh, ended, used, cache, call>>

\* Where all handlers are asked for, one is at a time.
Next ==
    \/ \E r \in Requests :
          \/ /\ scope = "routes" => \A q \in Requests : call[q] = None
             /\ \E t \in access, h \in Asked[scope] : Authenticate(r, t, h)
          \/ Resolve(r) \/ ReadRole(r) \/ SetCache(r)
    \/ /\ scope = "sessions"
       /\ \/ \E r \in Requests :
                \/ ValidateUser(r) \/ CreateSession(r)
                \/ \E s \in Sessions : \E token \in refresh[s] : CheckRefresh(r, s, token)
                \/ ReadUser(r) \/ \E arrives \in BOOLEAN : RefreshSession(r, arrives)
                \/ RevokeSession(r)
          \/ Change \/ Tick

Spec == Init /\ [][Next]_vars

-----------------------------------------------------------------------------
(* Properties.                                                             *)

\* A session that was ended never becomes active again, whatever refreshes were
\* under way; the tokens signed for it expire at most AccessTTL after the
\* calls that were under way are over.
EndedForGood ==
    \A s \in Sessions : ended[s] # None =>
        /\ session[s].status = "REVOKED"
        /\ \A t \in access : t.session = s => t.exp <= ended[s] + CallTime + AccessTTL
        /\ answer # None => (answer.token.session = s => now < ended[s] + AccessTTL + 2 * CallTime)

\* The refresh token a session keeps is one that has not been exchanged yet.
\* Exchanges of one token that overlap may all succeed, and the last of them
\* leaves its token; one that begins after the token has been exchanged is
\* refused, also when it repeats a request whose answer was lost.
UsedTokensReplaced == \A s \in Sessions : session[s] # None => session[s].hash \notin used

\* Sessions are ended for good, and a refresh token that has been exchanged is not
\* accepted from a request that begins afterwards.
SessionsSound == EndedForGood /\ UsedTokensReplaced

\* The guard answers a request as the rows of the user and of his role say,
\* unless these were changed while the request, or the one that filled the
\* cache, or the refresh that signed the token was under way, or since then
\* within a CacheTTL or an AccessTTL.
PermissionsFresh ==
    answer # None =>
        /\ ~ Unlocked => now - changed.account <= CallTime
        /\ LET said == answer.token.role
           IN  /\ said # user.role => now - changed.role < AccessTTL + 2 * CallTime
               /\ answer.allowed # MayCall(roleRow[said], answer.reached) =>
                     now - changed.row[said] <= CacheTTL + CallTime

\* A request for a handler reaches that handler, and not one with a parameter
\* in the place of a word of the path; and where a role is let through, every
\* role above it is.
RequestsReachTheirHandlers ==
    answer # None =>
        /\ answer.reached = answer.sent
        /\ \A i \in 1 .. Len(RoleCodes) - 1 :
              RoleCodes[i] \in Handlers[answer.reached].roles =>
                  RoleCodes[i + 1] \in Handlers[answer.reached].roles
=============================================================================
