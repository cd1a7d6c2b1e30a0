-------------------------------- MODULE SignIn --------------------------------
(***************************************************************************)
(* Signing in: the authorization-code flow between the tabs of a browser   *)
(* (frontend/src/lib/oidc.js, lib/api.js, context/AuthContext.jsx), the    *)
(* identity provider (oidc-provider/app/main.py) and the token validation  *)
(* of the agent service (app/core/security.py) with its cache of keys.     *)
(*                                                                         *)
(* Tabs share the browser's local storage and keep a session each; the     *)
(* provider keeps codes and its key in memory only.  Sign-ins are numbered *)
(* when the browser goes to the provider: the number stands for the PKCE   *)
(* verifier, for its challenge, for the code and for who signed in.        *)
(***************************************************************************)
EXTENDS Integers, FiniteSets

CONSTANTS
  Tab,
  MaxSignIns,    \* bound: sign-ins begun
  MaxRestarts,   \* bound: restarts of the provider
  MaxReloads     \* bound: reloads of a page

ASSUME SignInAssumption ==
  MaxSignIns \in Nat /\ MaxRestarts \in Nat /\ MaxReloads \in Nat

SignInId == 1..MaxSignIns
Key == 0..MaxRestarts
Token == [sign_in : SignInId, key : Key]
NoToken == [sign_in |-> 0, key |-> 0]

\* Faulty variant: every key has the same name.
kid_constant(key) == 0

\* The name a token and the key list give a key: its fingerprint.
kid(key) == key

VARIABLES
  key, codes,         \* provider: signing key, codes not yet exchanged
  verifier, stored,   \* local storage: PKCE verifier, access token
  place,              \* of each tab: where it is, see Place
  sign_in,            \* of each tab: its sign-in on the way
  answer,             \* of each tab: what /token answered
  session,            \* of each tab: the token in AuthContext
  calls,              \* of each tab: tokens of API calls on the way
  jwks,               \* agent service: keys cached by name
  begun, reloads,     \* sign-ins begun, reloads
  expired,            \* tokens past their lifetime
  issued, disturbed,  \* history: tokens issued for a code; sign-ins that
                      \* something came between
  misjudged           \* history: a fresh token has been rejected

providerVars == <<key, codes>>
browserVars == <<verifier, stored>>
tabVars == <<place, sign_in, answer, session, calls>>
historyVars == <<issued, disturbed, misjudged>>
vars == <<providerVars, browserVars, tabVars, jwks, begun, reloads, expired, historyVars>>

\* "home" shows the application to a tab with a session and the login form
\* to one without; "exchanging" is the callback page until /token is settled.
Place == {"home", "redirecting", "provider", "callback", "exchanging", "error"}

\* "waiting" until /token answers, then a token or "refused"; the tab sent
\* the verifier it found.
NoAnswer == [state |-> "none", sent |-> 0, token |-> NoToken]
Answer == [state : {"none", "waiting", "refused", "granted"},
           sent : 0..MaxSignIns, token : Token \cup {NoToken}]

Outcome == {"accepted", "rejected", "unresolved"}

SignInTypeOK ==
  /\ key \in Key /\ codes \subseteq SignInId
  /\ verifier \in 0..MaxSignIns /\ stored \in Token \cup {NoToken}
  /\ place \in [Tab -> Place] /\ sign_in \in [Tab -> 0..MaxSignIns]
  /\ answer \in [Tab -> Answer]
  /\ session \in [Tab -> Token \cup {NoToken}]
  /\ calls \in [Tab -> SUBSET (Token \cup {NoToken})]
  /\ jwks \subseteq [kid : Key, key : Key]
  /\ begun \in 0..MaxSignIns /\ reloads \in 0..MaxReloads
  /\ expired \subseteq Token
  /\ issued \in [SignInId -> 0..(1 + MaxReloads)] /\ disturbed \subseteq SignInId
  /\ misjudged \in BOOLEAN
  /\ \A t \in Tab :
       /\ place[t] = "exchanging" <=> answer[t].state # "none"
       /\ place[t] \in {"redirecting", "provider"} => session[t] = NoToken
       /\ calls[t] # {} => place[t] \in {"home", "redirecting"}

Init ==
  /\ key = 0 /\ codes = {}
  /\ verifier = 0 /\ stored = NoToken
  /\ place = [t \in Tab |-> "home"] /\ sign_in = [t \in Tab |-> 0]
  /\ answer = [t \in Tab |-> NoAnswer]
  /\ session = [t \in Tab |-> NoToken] /\ calls = [t \in Tab |-> {}]
  /\ jwks = {} /\ begun = 0 /\ reloads = 0 /\ expired = {}
  /\ issued = [n \in SignInId |-> 0] /\ disturbed = {} /\ misjudged = FALSE

-----------------------------------------------------------------------------
(* A tab signs in *)

\* A document is loaded: calls of the one before are gone and the session
\* is what local storage has.
Load(t, where) ==
  /\ place' = [place EXCEPT ![t] = where]
  /\ session' = [session EXCEPT ![t] = stored]
  /\ calls' = [calls EXCEPT ![t] = {}]

\* Faulty variant: the login form is also shown to a tab with a session.
loginRedirect_always(t) ==
  /\ place[t] = "home"
  /\ place' = [place EXCEPT ![t] = "redirecting"]
  /\ UNCHANGED <<providerVars, browserVars, sign_in, answer, session, calls, jwks,
                 begun, reloads, expired, historyVars>>

\* The login form begins a sign-in; its challenge is computed asynchronously.
loginRedirect(t) ==
  /\ place[t] = "home" /\ session[t] = NoToken
  /\ place' = [place EXCEPT ![t] = "redirecting"]
  /\ UNCHANGED <<providerVars, browserVars, sign_in, answer, session, calls, jwks,
                 begun, reloads, expired, historyVars>>

\* The sign-ins another one can still take the verifier from.
Unsettled(t) == {sign_in[u] : u \in {u \in Tab \ {t} : place[u] \in {"provider", "callback"}}}

\* Faulty variant: the browser leaves before the verifier is stored.
leave_for_provider_unstored(t) ==
  /\ place[t] = "redirecting"
  /\ begun < MaxSignIns
  /\ begun' = begun + 1
  /\ sign_in' = [sign_in EXCEPT ![t] = begun + 1]
  /\ disturbed' = disturbed \cup Unsettled(t)
  /\ place' = [place EXCEPT ![t] = "provider"]
  /\ calls' = [calls EXCEPT ![t] = {}]
  /\ UNCHANGED <<providerVars, browserVars, answer, session, jwks, reloads, expired,
                 issued, misjudged>>

\* Once the challenge is computed the verifier is stored, over that of any
\* other tab, and the browser goes to /authorize.
leave_for_provider(t) ==
  /\ place[t] = "redirecting"
  /\ begun < MaxSignIns
  /\ begun' = begun + 1
  /\ verifier' = begun + 1
  /\ sign_in' = [sign_in EXCEPT ![t] = begun + 1]
  /\ disturbed' = disturbed \cup Unsettled(t)
  /\ place' = [place EXCEPT ![t] = "provider"]
  /\ calls' = [calls EXCEPT ![t] = {}]
  /\ UNCHANGED <<providerVars, stored, answer, session, jwks, reloads, expired,
                 issued, misjudged>>

\* authorize_post: codes past their lifetime go, the new one comes, and the
\* browser is sent to the callback page.
authorize_post(t) ==
  /\ place[t] = "provider"
  /\ \E old \in SUBSET codes :
       /\ codes' = (codes \ old) \cup {sign_in[t]}
       /\ disturbed' = disturbed \cup old
  /\ Load(t, "callback")
  /\ UNCHANGED <<key, browserVars, sign_in, answer, jwks, begun, reloads, expired,
                 issued, misjudged>>

\* completeLogin up to its fetch; `ran` keeps a second effect from doing it again.
completeLogin(t) ==
  /\ place[t] = "callback"
  /\ place' = [place EXCEPT ![t] = "exchanging"]
  /\ answer' = [answer EXCEPT ![t] = [NoAnswer EXCEPT !.state = "waiting", !.sent = verifier]]
  /\ UNCHANGED <<providerVars, browserVars, sign_in, session, calls, jwks, begun,
                 reloads, expired, historyVars>>

\* Faulty variant: the code stays valid until it expires.
consume_keeping(code) == codes' = codes

\* The code is gone before anything else of the request is looked at.
consume(code) == codes' = codes \ {code}

\* /token with grant_type authorization_code.
token(t) ==
  /\ answer[t].state = "waiting"
  /\ consume(sign_in[t])
  /\ IF sign_in[t] \in codes /\ answer[t].sent = sign_in[t]
     THEN /\ answer' = [answer EXCEPT ![t].state = "granted",
                          ![t].token = [sign_in |-> sign_in[t], key |-> key]]
          /\ issued' = [issued EXCEPT ![sign_in[t]] = @ + 1]
     ELSE /\ answer' = [answer EXCEPT ![t].state = "refused"]
          /\ UNCHANGED issued
  /\ UNCHANGED <<key, browserVars, place, sign_in, session, calls, jwks, begun,
                 reloads, expired, disturbed, misjudged>>

\* The token is stored, the path replaced with a popstate event, and the
\* session read from storage.
finishLogin(t) ==
  /\ answer[t].state = "granted"
  /\ stored' = answer[t].token
  /\ session' = [session EXCEPT ![t] = answer[t].token]
  /\ place' = [place EXCEPT ![t] = "home"]
  /\ answer' = [answer EXCEPT ![t] = NoAnswer]
  /\ UNCHANGED <<providerVars, verifier, sign_in, calls, jwks, begun, reloads,
                 expired, historyVars>>

\* The request or its answer is lost: fetch throws, whether or not /token ran.
fetch_fails(t) ==
  /\ answer[t].state \in {"waiting", "granted"}
  /\ answer' = [answer EXCEPT ![t].state = "refused", ![t].token = NoToken]
  /\ disturbed' = disturbed \cup {sign_in[t]}
  /\ UNCHANGED <<providerVars, browserVars, place, sign_in, session, calls, jwks, begun,
                 reloads, expired, issued, misjudged>>

signInFails(t) ==
  /\ answer[t].state = "refused"
  /\ place' = [place EXCEPT ![t] = "error"]
  /\ answer' = [answer EXCEPT ![t] = NoAnswer]
  /\ UNCHANGED <<providerVars, browserVars, sign_in, session, calls, jwks, begun,
                 reloads, expired, historyVars>>

\* The person reloads the callback page, whose URL still has the code: what
\* /token has answered meanwhile is lost.
reload_callback(t) ==
  /\ place[t] \in {"exchanging", "error"}
  /\ reloads < MaxReloads
  /\ reloads' = reloads + 1
  /\ Load(t, "callback")
  /\ answer' = [answer EXCEPT ![t] = NoAnswer]
  /\ disturbed' = disturbed \cup {sign_in[t]}
  /\ UNCHANGED <<providerVars, browserVars, sign_in, jwks, begun, expired, issued, misjudged>>

\* "Back to sign in".
back_to_sign_in(t) ==
  /\ place[t] = "error"
  /\ Load(t, "home")
  /\ UNCHANGED <<providerVars, browserVars, sign_in, answer, jwks, begun, reloads,
                 expired, historyVars>>

\* The person reloads the application or the login form.
reload_home(t) ==
  /\ place[t] = "home"
  /\ reloads < MaxReloads
  /\ reloads' = reloads + 1
  /\ Load(t, "home")
  /\ UNCHANGED <<providerVars, browserVars, sign_in, answer, jwks, begun, expired,
                 historyVars>>
-----------------------------------------------------------------------------
(* A tab calls the API *)

\* apiFetch of a poll takes the token local storage has now, if any.
poll(t) ==
  /\ place[t] = "home" /\ session[t] # NoToken
  /\ stored \notin calls[t]
  /\ calls' = [calls EXCEPT ![t] = @ \cup {stored}]
  /\ UNCHANGED <<providerVars, browserVars, place, sign_in, answer, session, jwks,
                 begun, reloads, expired, historyVars>>

\* validate_token: the key is looked up by name in the cache, then among the
\* provider's, which may be out of reach; a token without a key is rejected.
named(tok) == {entry \in jwks : entry.kid = kid(tok.key)}
valid(tok, keys) ==
  \E entry \in keys : entry.kid = kid(tok.key) /\ entry.key = tok.key
fresh(tok) == tok # NoToken /\ tok \notin expired /\ tok.key = key

\* It has an outcome: "accepted", "rejected", or "unresolved" without a key.
validate_token(tok, outcome) ==
  \/ /\ named(tok) # {} \/ tok = NoToken
     /\ outcome = IF tok # NoToken /\ tok \notin expired /\ valid(tok, jwks)
                  THEN "accepted" ELSE "rejected"
     /\ UNCHANGED jwks
  \/ /\ named(tok) = {} /\ tok # NoToken
     /\ jwks' = jwks \cup {[kid |-> kid(key), key |-> key]}
     /\ outcome = IF tok \notin expired /\ valid(tok, jwks') THEN "accepted" ELSE "rejected"
  \/ /\ named(tok) = {} /\ tok # NoToken
     /\ outcome = "unresolved"
     /\ UNCHANGED jwks

\* Faulty variant: only the stored token is forgotten.
unauthorized_storage_only(t) ==
  /\ stored' = NoToken
  /\ UNCHANGED session

\* The handler of AuthContext: whatever is stored by now is forgotten.
unauthorized(t) ==
  /\ stored' = NoToken
  /\ session' = [session EXCEPT ![t] = NoToken]

\* The middleware passes the agent service's 401 on.
answer_call(t) ==
  \E tok \in calls[t], outcome \in Outcome :
    /\ validate_token(tok, outcome)
    /\ calls' = [calls EXCEPT ![t] = @ \ {tok}]
    /\ IF outcome = "accepted" THEN UNCHANGED <<stored, session>> ELSE unauthorized(t)
    /\ misjudged' = (misjudged \/ (fresh(tok) /\ outcome = "rejected"))
    /\ UNCHANGED <<providerVars, verifier, place, sign_in, answer, begun, reloads,
                   expired, issued, disturbed>>

\* apiFetch throws or gets another error than a 401: a call that timed out, a
\* network that fails, a server in trouble, whether or not the service looked
\* at the token.  The session and the stored token stay.
drop_call(t) ==
  \E tok \in calls[t] :
    /\ calls' = [calls EXCEPT ![t] = @ \ {tok}]
    /\ UNCHANGED jwks \/ \E outcome \in Outcome : validate_token(tok, outcome)
    /\ UNCHANGED <<providerVars, browserVars, place, sign_in, answer, session, begun,
                   reloads, expired, historyVars>>

logout(t) ==
  /\ place[t] = "home" /\ session[t] # NoToken
  /\ stored' = NoToken
  /\ session' = [session EXCEPT ![t] = NoToken]
  /\ UNCHANGED <<providerVars, verifier, place, sign_in, answer, calls, jwks, begun,
                 reloads, expired, historyVars>>
-----------------------------------------------------------------------------
(* Time and restarts *)

\* A token's lifetime ends.
Held == ({stored} \cup UNION {{session[t], answer[t].token} \cup calls[t] : t \in Tab}) \ {NoToken}
expire ==
  /\ \E tok \in Held \ expired : expired' = expired \cup {tok}
  /\ UNCHANGED <<providerVars, browserVars, tabVars, jwks, begun, reloads, historyVars>>

\* A new key with a new name; the codes are gone.
restart_provider ==
  /\ key < MaxRestarts
  /\ key' = key + 1
  /\ codes' = {}
  /\ disturbed' = disturbed \cup codes
  /\ UNCHANGED <<browserVars, tabVars, jwks, begun, reloads, expired, issued, misjudged>>

\* The agent service restarts, or the key list it holds lapses.
restart_agent ==
  /\ jwks # {}
  /\ jwks' = {}
  /\ UNCHANGED <<providerVars, browserVars, tabVars, begun, reloads, expired, historyVars>>

-----------------------------------------------------------------------------
Exchange(t) == completeLogin(t) \/ token(t) \/ finishLogin(t) \/ signInFails(t)
Person(t) ==
  \/ loginRedirect(t) \/ authorize_post(t) \/ logout(t)
  \/ reload_callback(t) \/ back_to_sign_in(t) \/ reload_home(t)

Next ==
  \/ \E t \in Tab : \/ Person(t) \/ leave_for_provider(t) \/ Exchange(t) \/ fetch_fails(t)
                   \/ poll(t) \/ answer_call(t) \/ drop_call(t)
  \/ expire \/ restart_provider \/ restart_agent

Spec == Init /\ [][Next]_vars

\* A visible tab polls every few seconds, a call ends with an answer or by
\* failing, and the exchange is one request.  Nothing is assumed of people,
\* except that they do not reload for ever (MaxReloads), which would drop
\* every call.
FairSpec ==
  Spec /\ \A t \in Tab : /\ WF_vars(Exchange(t)) /\ WF_vars(poll(t))
                         /\ WF_vars(answer_call(t) \/ drop_call(t))

-----------------------------------------------------------------------------
(* Properties *)

\* A code yields one token, however often the callback page is loaded with
\* it and whatever became of the first answer (token, main.py:372).
CodeYieldsOneToken == \A n \in SignInId : issued[n] <= 1

\* A person sees the error of the callback page only if something came
\* between: a restart of the provider, a code left too long, a reload, a
\* network that fails, or another tab of the browser that began to sign in and took the verifier.
SignInFailsOnlyWhenDisturbed ==
  \A t \in Tab : place[t] = "error" => sign_in[t] \in disturbed

\* A token that is not expired and was signed with the provider's present
\* key is not rejected by a service that could ask for the keys, whatever
\* its cache held: a restart of the provider or the service poisons nothing
\* (the rotation note of main.py:61, _get_jwk_client).
RotationIsPickedUp == ~misjudged

\* A tab that shows the application with a token that is gone or expired
\* ends at the login form, or gets a usable token from another tab, if of the
\* calls it makes again and again not every one fails: a call that gets no
\* answer ends nothing.
Unusable == stored = NoToken \/ stored \in expired
StaleSessionEnds ==
  \A t \in Tab :
    SF_vars(answer_call(t))
      => (place[t] = "home" /\ session[t] # NoToken /\ Unusable
            ~> session[t] = NoToken \/ ~Unusable)
=============================================================================
