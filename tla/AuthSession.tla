----------------------------- MODULE AuthSession -----------------------------
(***************************************************************************)
(* The session of one browser: its cookies, the requests of its tabs, the  *)
(* handlers of app/auth.py and of the /api/auth routes in main.py, and the *)
(* identity provider as they use it.  A request carries the cookies of the *)
(* moment it is sent; its answer may change them when it arrives, in any   *)
(* order with the answers of other tabs, or may never arrive.              *)
(*                                                                         *)
(* A route that raises answers with a response of its own: the cookies set *)
(* on the injected Response are lost, new tokens and deletions alike.      *)
(*                                                                         *)
(* coordinated_refresh_session (RefreshCoordinator) appears by what it     *)
(* promises: a token is rotated once, its successor is shared for a while, *)
(* and a request is refused while another is still at the provider only    *)
(* when it gave up waiting for it.                                         *)
(***************************************************************************)
EXTENDS Naturals

CONSTANTS
  MaxRequests, \* bound: requests of the browser, numbered as they are sent
  Markers,     \* bound: remember markers of the login it begins with
  None         \* no cookie, no value

VARIABLES
  jar,       \* the cookies of the browser
  request,   \* the requests and their handlers
  live,      \* provider: access tokens it accepts
  rotated,   \* provider: refresh tokens that were used
  revoked,   \* provider: logins that were signed out
  share,     \* refresh tokens whose successor is in _refresh_share_cache
  exchanged, \* provider: the flows whose code was spent
  held,      \* history: the login the user expects to be in
  failed,    \* history: a fault that costs the session
  crossed    \* history: an answer was overtaken by a change of session

provider == <<live, rotated, revoked, share, exchanged>>
sessionVars == <<jar, request, provider, held, failed, crossed>>

Requests == 1..MaxRequests

(* The login that began before the first request is number 0.  "kept" is   *)
(* the user's choice at the login: the remember marker it was given.       *)
Token == [login : 0..MaxRequests, gen : Nat, kept : {"0", "1", None}]

ASSUME SessionAssumption ==
  /\ MaxRequests \in Nat /\ Markers \subseteq {"0", "1", None}
  /\ None \notin Token \cup Nat \cup {"0", "1"}

Cookies == {"access", "refresh", "csrf", "remember", "txn"}

NoCookies == [c \in {} |-> None]

(* clear_session_cookies *)
Cleared == [c \in Cookies |-> None]

EmptyJar == [c \in Cookies |-> None]

Kinds == {"me", "read", "write", "refresh", "sign-in", "start", "callback", "sign-out"}

Opens == {"sign-in", "callback"}

(* The browser's first cookies: nobody is signed in, a remembered or a     *)
(* session-only login, or one from before the CSRF and remember cookies.   *)
FirstJar(remember) ==
  LET token == [login |-> 0, gen |-> 0, kept |-> remember]
  IN  [access |-> token, refresh |-> token, remember |-> remember, txn |-> None,
       csrf |-> IF remember = None THEN None ELSE 0]

Unsent == [kind |-> "me", pc |-> "unsent", sent |-> EmptyJar, arg |-> None, sets |-> NoCookies]

SessionInit ==
  /\ jar \in {EmptyJar} \cup {FirstJar(remember) : remember \in Markers}
  /\ request = [r \in Requests |-> Unsent]
  /\ live = {jar.access} \ {None}
  /\ rotated = {} /\ revoked = {} /\ share = {} /\ exchanged = {}
  /\ held = IF jar.refresh = None THEN None ELSE 0
  /\ failed = FALSE /\ crossed = FALSE

sent(r) == request[r].sent
kind(r) == request[r].kind
At(r, pc) == request[r].pc = pc

Goto(r, pc) == request' = [request EXCEPT ![r].pc = pc]

(* A request that is over leaves nothing behind but the flow it began.     *)
Ends(r) ==
  request' = [request EXCEPT ![r] =
    [Unsent EXCEPT !.pc = "done", !.kind = IF kind(r) = "start" THEN "start" ELSE @]]

(* An answer without cookies is of no consequence for the browser.         *)
Answer(r, sets) ==
  IF sets = NoCookies THEN Ends(r)
  ELSE request' = [request EXCEPT ![r].pc = "answered", ![r].sets = sets]

(* HTTPException: its response carries none of the cookies that were set.  *)
Raise(r) == Answer(r, NoCookies)

(* Cookies that are set replace those of the same name.                    *)
Onto(cookies, sets) ==
  [c \in DOMAIN cookies \cup DOMAIN sets |-> IF c \in DOMAIN sets THEN sets[c] ELSE cookies[c]]

Quiet == UNCHANGED <<jar, provider, held, failed, crossed>>
Handler == UNCHANGED <<jar, held, crossed>>

-----------------------------------------------------------------------------
(***************************************************************************)
(* The browser.                                                            *)
(***************************************************************************)
(* The page takes its CSRF header from the cookie when there is one        *)
(* (authHeaders), so the header is not a value of its own.                 *)
Send(r, k, arg) ==
  /\ At(r, "unsent") /\ (r > 1 => ~At(r - 1, "unsent"))
  /\ request' = [request EXCEPT ![r] =
                   [kind |-> k, pc |-> IF k \in {"me", "read", "write"} THEN "checking" ELSE "handling",
                    sent |-> jar, arg |-> arg, sets |-> NoCookies]]
  /\ Quiet

(* Flows whose PKCE transaction began; the user comes back from the        *)
(* identity provider with the code and the state of one of them.           *)
Flows == {f \in Requests : kind(f) = "start" /\ request[f].pc \in {"answered", "done"}}

SendSome(r) ==
  \/ \E k \in {"me", "read", "write", "refresh", "start", "sign-out"} : Send(r, k, None)
  \/ \E remember \in {"0", "1"} : Send(r, "sign-in", remember)
  \/ \E f \in Flows : Send(r, "callback", f)

(* An answer that belongs to another login than the browser's, or to an    *)
(* older token of it.                                                      *)
Overtaken(r) ==
  /\ kind(r) \notin Opens \cup {"sign-out"}
  /\ "refresh" \in DOMAIN request[r].sets
  /\ LET new == request[r].sets["refresh"]
     IN  IF new = None
         THEN jar.refresh # None /\ jar.refresh.login # sent(r).refresh.login
         ELSE jar.refresh = None \/ jar.refresh.login # new.login \/ new.gen < jar.refresh.gen

(* The browser applies the Set-Cookie headers of an answer.                *)
Deliver(r) ==
  /\ At(r, "answered")
  /\ jar' = Onto(jar, request[r].sets)
  /\ Ends(r)
  /\ crossed' = (crossed \/ Overtaken(r))
  /\ held' = CASE kind(r) = "sign-out" -> None
               [] kind(r) \in Opens /\ "refresh" \in DOMAIN request[r].sets -> r
               [] OTHER -> held
  /\ UNCHANGED <<provider, failed>>

(* The tab is closed, or the connection lost, before it arrives.           *)
LoseAnswer(r) == At(r, "answered") /\ Ends(r) /\ Quiet

(* The access cookie of a remembered login lives as long as its token.     *)
AccessCookieExpires ==
  /\ jar.access \notin live \cup {None}
  /\ jar.remember = "1"
  /\ jar' = [jar EXCEPT !.access = None]
  /\ UNCHANGED <<request, provider, held, failed, crossed>>

-----------------------------------------------------------------------------
(***************************************************************************)
(* get_optional_current_user                                               *)
(***************************************************************************)
SessionDefault(r, token) ==   \* mutation: remember_me keeps its default
  [access |-> token, refresh |-> token, remember |-> "1",
   csrf |-> IF sent(r).csrf = None THEN r ELSE sent(r).csrf]

(* set_session_cookies after a refresh: the CSRF token stays, and so does  *)
(* the marker; without one the two callers choose differently.             *)
Renewed(r, token) ==
  [access |-> token, refresh |-> token,
   remember |-> IF kind(r) = "refresh"
                THEN IF sent(r).remember = "0" THEN "0" ELSE "1"
                ELSE IF sent(r).remember = "1" THEN "1" ELSE "0",
   csrf |-> IF sent(r).csrf = None THEN r ELSE sent(r).csrf]

(* No user: /api/auth/me answers all the same, with the cookies set so     *)
(* far, and every other route raises.                                      *)
NoUser(r, sets) == IF kind(r) = "me" THEN Answer(r, sets) ELSE Raise(r)

(* The access token is accepted ...                                        *)
Recognised(r) ==
  /\ At(r, "checking")
  /\ sent(r).access \in live
  /\ Goto(r, "routing")
  /\ Quiet

(* ... or there is none, or 401 ...                                        *)
NotRecognised(r) ==
  /\ At(r, "checking")
  /\ sent(r).access \notin live
  /\ Goto(r, "refreshing")
  /\ Quiet

(* ... or the provider fails, before anything was set.                     *)
CheckFails(r) ==
  /\ At(r, "checking")
  /\ sent(r).access # None
  /\ NoUser(r, NoCookies)
  /\ Quiet

NoRefreshToken(r) ==
  /\ At(r, "refreshing")
  /\ sent(r).refresh = None
  /\ NoUser(r, IF sent(r).access = None THEN NoCookies ELSE Cleared)
  /\ Quiet

Successor(token) == [token EXCEPT !.gen = @ + 1]

Renew(r) ==
  request' = [request EXCEPT ![r].pc = "looking",
                             ![r].sets = Renewed(r, Successor(sent(r).refresh))]

Refreshing(r) == At(r, "refreshing") /\ sent(r).refresh # None

UseShared(r) ==
  /\ Refreshing(r)
  /\ sent(r).refresh \in share
  /\ Renew(r)
  /\ Quiet

(* The provider rotates a token once ...                                   *)
RotateToken(r) ==
  /\ Refreshing(r)
  /\ sent(r).refresh \notin rotated
  /\ sent(r).refresh.login \notin revoked
  /\ rotated' = rotated \cup {sent(r).refresh}
  /\ live' = live \cup {Successor(sent(r).refresh)}
  /\ Goto(r, "rotated")
  /\ UNCHANGED <<revoked, share, exchanged, failed>> /\ Handler

KeepToSelf(r) ==   \* mutation: the leader does not share what it got
  /\ At(r, "rotated")
  /\ Renew(r)
  /\ UNCHANGED <<provider, failed>> /\ Handler

(* ... its successor is shared ...                                         *)
Share(r) ==
  /\ At(r, "rotated")
  /\ share' = share \cup {sent(r).refresh}
  /\ Renew(r)
  /\ UNCHANGED <<live, rotated, revoked, exchanged, failed>> /\ Handler

(* ... for a while.  It ends too early for a browser that still has the    *)
(* old token, and for a request that still carries it.                     *)
ShareExpires(token) ==
  /\ token \in share
  /\ share' = share \ {token}
  /\ failed' = (failed \/ jar.refresh = token
                \/ \E r \in Requests : /\ request[r].pc \in {"checking", "handling", "refreshing"}
                                       /\ sent(r).refresh = token)
  /\ UNCHANGED <<request, live, rotated, revoked, exchanged>> /\ Handler

(* A spent or revoked token is refused.  With another request still at the *)
(* provider this one has given up waiting: the recovery finds nothing.     *)
Refused(r) ==
  /\ Refreshing(r)
  /\ sent(r).refresh \in rotated \/ sent(r).refresh.login \in revoked
  /\ sent(r).refresh \notin share
  /\ NoUser(r, Cleared)
  /\ failed' = (failed \/ \E q \in Requests : /\ At(q, "rotated")
                                              /\ sent(q).refresh = sent(r).refresh)
  /\ UNCHANGED provider /\ Handler

(* An outage, before the provider acts or after it: a rotated token whose  *)
(* answer is lost is gone.                                                 *)
RefreshFails(r) ==
  /\ Refreshing(r) \/ At(r, "rotated")
  /\ NoUser(r, Cleared)
  /\ failed' = (failed \/ At(r, "rotated") \/ kind(r) = "me")
  /\ UNCHANGED provider /\ Handler

(* get_user_from_access_token with the new token.                          *)
Found(r) ==
  /\ At(r, "looking")
  /\ request[r].sets["access"] \in live
  /\ IF kind(r) = "refresh" THEN Answer(r, request[r].sets) ELSE Goto(r, "routing")
  /\ Quiet

LookupFails(r) ==
  /\ At(r, "looking")
  /\ NoUser(r, Cleared)
  /\ failed' = (failed \/ kind(r) = "me")
  /\ UNCHANGED provider /\ Handler

CurrentUser(r) ==
  \/ Recognised(r) \/ NotRecognised(r) \/ CheckFails(r) \/ NoRefreshToken(r)
  \/ UseShared(r) \/ RotateToken(r) \/ Share(r) \/ Refused(r) \/ RefreshFails(r)
  \/ Found(r) \/ LookupFails(r)

-----------------------------------------------------------------------------
(***************************************************************************)
(* The routes.                                                             *)
(***************************************************************************)
(* ensure_csrf_token *)
WithCsrf(r) ==
  IF "csrf" \in DOMAIN request[r].sets \/ sent(r).csrf # None
  THEN request[r].sets
  ELSE [csrf |-> r]

(* get_me; a profile or a database that is unavailable changes no cookie.  *)
Me(r) ==
  /\ At(r, "routing") /\ kind(r) = "me"
  /\ Answer(r, WithCsrf(r))
  /\ Quiet

(* verify_csrf, on the cookie the request came with.                       *)
Verified(r) == sent(r).csrf # None

(* A route behind get_cloud_user_or_legacy may raise after the tokens were *)
(* rotated, for one when the CSRF token is missing ...                     *)
Cloud(r) ==
  /\ At(r, "routing") /\ kind(r) \in {"read", "write"}
  /\ \/ (kind(r) = "write" => Verified(r)) /\ Answer(r, request[r].sets)
     \/ Raise(r)
  /\ Quiet

(* ... and so may change_password, when the provider refuses it.           *)
ChangePassword(r) ==
  /\ At(r, "routing") /\ kind(r) = "write"
  /\ (Verified(r) /\ Answer(r, request[r].sets)) \/ Raise(r)
  /\ Quiet

(* refresh_auth_session *)
RefreshRoute(r) ==
  /\ At(r, "handling") /\ kind(r) = "refresh"
  /\ IF Verified(r) /\ sent(r).refresh # None THEN Goto(r, "refreshing") ELSE Raise(r)
  /\ Quiet

NewSession(r, remember) ==
  LET token == [login |-> r, gen |-> 0, kept |-> remember]
  IN  [access |-> token, refresh |-> token, remember |-> remember, csrf |-> r]

Opened(token) ==
  /\ live' = live \cup {token}
  /\ UNCHANGED <<rotated, revoked, share, failed>> /\ Handler

Entering(r) == At(r, "handling") /\ kind(r) = "sign-in"

LetIn(r, remember) ==
  /\ Answer(r, NewSession(r, remember))
  /\ Opened(NewSession(r, remember).access)
  /\ UNCHANGED exchanged

(* sign_in *)
SignIn(r) ==
  /\ Entering(r)
  /\ LetIn(r, request[r].arg) \/ (Raise(r) /\ Quiet)

(* sign_up may have to wait until the address is confirmed.                *)
SignUp(r) ==
  /\ Entering(r)
  /\ \/ LetIn(r, request[r].arg)
     \/ (Answer(r, NoCookies) \/ Raise(r)) /\ Quiet

(* exchange_auth_session, with tokens the page brings from a mail's link   *)
ExchangeSession(r) ==
  /\ Entering(r) /\ request[r].arg = "1"
  /\ LetIn(r, "1") \/ (Raise(r) /\ Quiet)

(* begin_google_oauth and clear_google_oauth_transaction                   *)
Transaction(r) == [txn |-> r]

TransactionCleared == [txn |-> None]

(* start_google_sign_in: the transaction cookie replaces the one of an     *)
(* earlier start.                                                          *)
StartGoogle(r) ==
  /\ At(r, "handling") /\ kind(r) = "start"
  /\ Answer(r, Transaction(r))
  /\ Quiet

(* consume_google_oauth: the cookie must be that of the flow the user came *)
(* back from.                                                              *)
Consumes(r) == sent(r).txn # None /\ sent(r).txn = request[r].arg

(* An error from the identity provider, a transaction that does not match  *)
(* or is too old, a code that the provider does not accept: only the       *)
(* transaction is cleared.                                                 *)
GoogleFailed(r) ==
  /\ At(r, "handling") /\ kind(r) = "callback"
  /\ Answer(r, TransactionCleared)
  /\ Quiet

(* complete_google_sign_in; a code is accepted once.                       *)
GoogleSignedIn(r) ==
  /\ At(r, "handling") /\ kind(r) = "callback"
  /\ Consumes(r)
  /\ request[r].arg \notin exchanged
  /\ exchanged' = exchanged \cup {request[r].arg}
  /\ Answer(r, Onto(TransactionCleared, NewSession(r, "1")))
  /\ Opened(NewSession(r, "1").access)

(* sign_out: the provider is asked when there is an access token, and what *)
(* it says is ignored.                                                     *)
SignOut(r) ==
  /\ At(r, "handling") /\ kind(r) = "sign-out"
  /\ \/ ~Verified(r) /\ Raise(r) /\ Quiet
     \/ Verified(r) /\ Answer(r, Cleared) /\ Quiet
     \/ /\ Verified(r) /\ Answer(r, Cleared)
        /\ sent(r).access \in live
        /\ revoked' = revoked \cup {sent(r).access.login}
        /\ live' = {t \in live : t.login # sent(r).access.login}
        /\ UNCHANGED <<rotated, share, exchanged, failed>> /\ Handler

Routes(r) ==
  \/ Me(r) \/ Cloud(r) \/ ChangePassword(r) \/ RefreshRoute(r)
  \/ SignIn(r) \/ SignUp(r) \/ ExchangeSession(r) \/ SignOut(r)
  \/ StartGoogle(r) \/ GoogleFailed(r) \/ GoogleSignedIn(r)

(* The provider's access tokens are short-lived.  It matters for those     *)
(* that somebody may still present.                                        *)
AccessExpires(token) ==
  /\ token \in {jar.access} \cup {sent(r).access : r \in Requests}
  /\ live' = live \ {token}
  /\ UNCHANGED <<request, rotated, revoked, share, exchanged, failed>> /\ Handler

SessionNext ==
  \/ \E r \in Requests :
       SendSome(r) \/ Deliver(r) \/ LoseAnswer(r) \/ CurrentUser(r) \/ Routes(r)
  \/ \E token \in live : AccessExpires(token)
  \/ \E token \in share : ShareExpires(token)
  \/ AccessCookieExpires

SessionSpec == SessionInit /\ [][SessionNext]_sessionVars

-----------------------------------------------------------------------------
(* Several tabs may renew the session at once, answers may be lost and     *)
(* routes may fail after the renewal: the browser keeps a token that is    *)
(* accepted, or that will be, for the login of its user.  Only a fault     *)
(* that costs the session, a sign-out or an overtaken answer can end that. *)
SessionKept ==
  ~failed /\ ~crossed /\ held # None /\ held \notin revoked =>
    /\ jar.refresh # None
    /\ jar.refresh.login = held
    /\ \/ jar.refresh \notin rotated
       \/ jar.refresh \in share
       \/ \E r \in Requests : At(r, "rotated") /\ sent(r).refresh = jar.refresh

(* "lets the refresh path preserve a session-only login instead of turning *)
(* it into a 30-day login": the marker is the choice of the login the      *)
(* tokens belong to, whichever tabs renewed them in whichever order.       *)
MarkerMatchesLogin ==
  jar.refresh # None /\ jar.refresh.kept # None => jar.remember = jar.refresh.kept
=============================================================================
