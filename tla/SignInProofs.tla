----------------------------- MODULE SignInProofs -----------------------------
(***************************************************************************)
(* Signing in, for any number of tabs, sign-ins, restarts and reloads: a   *)
(* code yields one token, a person sees the error page only if something   *)
(* came between, and no restart makes the agent service reject a good      *)
(* token.                                                                  *)
(***************************************************************************)
EXTENDS SignIn, TLAPS

-----------------------------------------------------------------------------
(* The inductive invariant *)

\* A code belongs to a sign-in that began and has yielded no token yet; a
\* sign-in that has not begun has no token either.
CodesAreUnspent ==
  /\ codes \subseteq 1..begun
  /\ \A n \in codes : issued[n] = 0
  /\ \A n \in SignInId : n > begun => issued[n] = 0

\* The tabs that have gone to the provider carry sign-ins of their own, and
\* one whose person is still at the login form has no code yet.
SignInsAreApart ==
  /\ \A t \in Tab : sign_in[t] <= begun
  /\ \A t, u \in Tab : sign_in[t] = sign_in[u] /\ sign_in[t] # 0 => t = u
  /\ \A t \in Tab :
       place[t] \in {"provider", "callback", "exchanging", "error"} => sign_in[t] # 0
  /\ \A t \in Tab :
       place[t] = "provider" => sign_in[t] \notin codes /\ issued[sign_in[t]] = 0

\* A sign-in nothing came between has its verifier in local storage until it
\* is sent, and its code at the provider until it is exchanged.
UndisturbedSucceeds ==
  \A t \in Tab : sign_in[t] \notin disturbed =>
    /\ place[t] \in {"provider", "callback"} => verifier = sign_in[t]
    /\ place[t] = "callback" => sign_in[t] \in codes
    /\ answer[t].state = "waiting" => sign_in[t] \in codes /\ answer[t].sent = sign_in[t]
    /\ answer[t].state # "refused"
    /\ place[t] # "error"

\* A cached entry holds the key its name stands for.
NamesMatchKeys == \A entry \in jwks : entry.kid = kid(entry.key)

SignInInv ==
  /\ SignInTypeOK /\ CodesAreUnspent /\ SignInsAreApart /\ UndisturbedSucceeds
  /\ NamesMatchKeys /\ CodeYieldsOneToken /\ RotationIsPickedUp

-----------------------------------------------------------------------------
(* A tab goes to the provider and comes back *)

\* Nothing was begun, issued or cached at the start.
LEMMA SignInInit == Init => SignInInv
<1> SUFFICES ASSUME Init PROVE SignInInv
  OBVIOUS
<1>1. NoAnswer \in Answer
  BY SignInAssumption DEF NoAnswer, Answer
<1>2. 0 \in Key /\ 0 \in 0..MaxSignIns /\ 0 \in 0..MaxReloads /\ 0 \in 0..(1 + MaxReloads)
  BY SignInAssumption DEF Key
<1>3. \A t \in Tab : answer[t].state = "none"
  BY DEF Init, NoAnswer
<1>4. SignInTypeOK
  BY <1>1, <1>2, <1>3 DEF Init, SignInTypeOK, Place
<1> QED
  BY <1>3, <1>4 DEF Init, SignInInv, CodesAreUnspent, SignInsAreApart, UndisturbedSucceeds,
     NamesMatchKeys, CodeYieldsOneToken, RotationIsPickedUp, SignInId

\* What a sign-in is numbered: one on its way has a number, no greater than
\* that of the last one begun.
LEMMA NumberOfSignIn ==
  ASSUME SignInInv, NEW t \in Tab
  PROVE  /\ sign_in[t] \in 0..MaxSignIns /\ begun \in 0..MaxSignIns /\ sign_in[t] <= begun
         /\ place[t] \in Place
         /\ place[t] \in {"provider", "callback", "exchanging", "error"}
              => sign_in[t] \in SignInId /\ sign_in[t] # 0
         /\ MaxSignIns \in Nat
BY SignInAssumption DEF SignInInv, SignInTypeOK, SignInsAreApart, SignInId

\* loginRedirect moves a tab without a session, and nothing else.
LEMMA RedirectingKeepsSignInInv ==
  ASSUME SignInInv, NEW t \in Tab, loginRedirect(t)
  PROVE  SignInInv'
<1> USE DEF loginRedirect, providerVars, browserVars, historyVars
<1>1. SignInTypeOK'
  BY DEF SignInInv, SignInTypeOK, Place
<1>2. SignInsAreApart' /\ UndisturbedSucceeds'
  BY DEF SignInInv, SignInTypeOK, SignInsAreApart, UndisturbedSucceeds
<1> QED
  BY <1>1, <1>2 DEF SignInInv, CodesAreUnspent, NamesMatchKeys, CodeYieldsOneToken,
     RotationIsPickedUp

\* leave_for_provider takes the next number and the verifier; the sign-ins
\* it takes the verifier from are disturbed.
LEMMA LeavingKeepsSignInInv ==
  ASSUME SignInInv, NEW t \in Tab, leave_for_provider(t)
  PROVE  SignInInv'
<1>1. /\ begun + 1 \in SignInId /\ begun + 1 \in 0..MaxSignIns /\ begun \in Nat
      /\ begun + 1 \notin codes /\ issued[begun + 1] = 0
  BY NumberOfSignIn, SignInAssumption
     DEF leave_for_provider, SignInInv, SignInTypeOK, SignInId, CodesAreUnspent
<1>2. /\ place[t] = "redirecting" /\ place' = [place EXCEPT ![t] = "provider"]
      /\ sign_in' = [sign_in EXCEPT ![t] = begun + 1] /\ begun' = begun + 1
      /\ verifier' = begun + 1 /\ calls' = [calls EXCEPT ![t] = {}]
      /\ disturbed' = disturbed \cup Unsettled(t)
      /\ UNCHANGED <<key, codes, stored, answer, session, jwks, reloads, expired, issued,
                     misjudged>>
  BY DEF leave_for_provider, providerVars
<1>3. Unsettled(t) \subseteq SignInId
  BY NumberOfSignIn DEF Unsettled
<1>4. SignInTypeOK'
  BY <1>1, <1>2, <1>3 DEF SignInInv, SignInTypeOK, Place
<1>5. CodesAreUnspent'
  BY <1>1, <1>2 DEF SignInInv, SignInTypeOK, CodesAreUnspent, SignInId
<1>6. SignInsAreApart'
  <2>1. \A u \in Tab \ {t} : sign_in'[u] = sign_in[u] /\ place'[u] = place[u]
    BY <1>2 DEF SignInInv, SignInTypeOK
  <2>2. sign_in'[t] = begun + 1 /\ place'[t] = "provider"
    BY <1>2 DEF SignInInv, SignInTypeOK
  <2>3. \A u \in Tab : sign_in[u] <= begun /\ sign_in[u] \in Int
    BY NumberOfSignIn
  <2> QED
    BY <1>1, <1>2, <2>1, <2>2, <2>3 DEF SignInInv, SignInsAreApart
<1>7. UndisturbedSucceeds'
  <2> SUFFICES ASSUME NEW u \in Tab, sign_in'[u] \notin disturbed'
               PROVE  /\ place'[u] \in {"provider", "callback"} => verifier' = sign_in'[u]
                      /\ place'[u] = "callback" => sign_in'[u] \in codes'
                      /\ answer'[u].state = "waiting"
                           => sign_in'[u] \in codes' /\ answer'[u].sent = sign_in'[u]
                      /\ answer'[u].state # "refused"
                      /\ place'[u] # "error"
    BY DEF UndisturbedSucceeds
  <2>1. CASE u = t
    <3>1. answer[t].state = "none" /\ sign_in'[t] = begun + 1 /\ place'[t] = "provider"
      BY <1>2 DEF SignInInv, SignInTypeOK, Answer
    <3> QED
      BY <1>2, <2>1, <3>1
  <2>2. CASE u # t
    <3>1. sign_in'[u] = sign_in[u] /\ place'[u] = place[u] /\ sign_in[u] \notin disturbed
      BY <1>2, <2>2 DEF SignInInv, SignInTypeOK
    <3>2. place[u] \notin {"provider", "callback"}
      BY <1>2, <2>2, <3>1 DEF Unsettled
    <3> QED
      BY <1>2, <3>1, <3>2 DEF SignInInv, UndisturbedSucceeds
  <2> QED
    BY <2>1, <2>2
<1> QED
  BY <1>2, <1>4, <1>5, <1>6, <1>7 DEF SignInInv, NamesMatchKeys, CodeYieldsOneToken,
     RotationIsPickedUp

\* A document is loaded with the session that local storage has.
LEMMA LoadType ==
  ASSUME SignInTypeOK, NEW t \in Tab, NEW where \in Place, Load(t, where)
  PROVE  /\ place' \in [Tab -> Place]
         /\ session' \in [Tab -> Token \cup {NoToken}]
         /\ calls' \in [Tab -> SUBSET (Token \cup {NoToken})]
         /\ place'[t] = where /\ calls'[t] = {}
         /\ \A u \in Tab \ {t} : /\ place'[u] = place[u] /\ session'[u] = session[u]
                                 /\ calls'[u] = calls[u]
<1>1. /\ place' \in [Tab -> Place] /\ place'[t] = where
      /\ \A u \in Tab \ {t} : place'[u] = place[u]
  BY DEF SignInTypeOK, Load
<1>2. /\ session' \in [Tab -> Token \cup {NoToken}]
      /\ \A u \in Tab \ {t} : session'[u] = session[u]
  BY DEF SignInTypeOK, Load
<1>3. /\ calls' \in [Tab -> SUBSET (Token \cup {NoToken})] /\ calls'[t] = {}
      /\ \A u \in Tab \ {t} : calls'[u] = calls[u]
  BY DEF SignInTypeOK, Load
<1> QED
  BY <1>1, <1>2, <1>3

\* authorize_post gives the sign-in the one code it ever has; what it purges
\* is disturbed, and this sign-in is not purged.
LEMMA AuthorizingKeepsSignInInv ==
  ASSUME SignInInv, NEW t \in Tab, authorize_post(t)
  PROVE  SignInInv'
<1>1. PICK old \in SUBSET codes : /\ codes' = (codes \ old) \cup {sign_in[t]}
                                  /\ disturbed' = disturbed \cup old
  BY DEF authorize_post
<1>2. /\ place[t] = "provider" /\ Load(t, "callback")
      /\ UNCHANGED <<key, verifier, stored, sign_in, answer, jwks, begun, reloads, expired,
                     issued, misjudged>>
  BY DEF authorize_post, browserVars
<1>3. sign_in[t] \in SignInId /\ sign_in[t] \notin codes /\ issued[sign_in[t]] = 0
  BY <1>2, NumberOfSignIn DEF SignInInv, SignInsAreApart
<1>4. "callback" \in Place
  BY DEF Place
<1>5. place'[t] = "callback" /\ \A u \in Tab \ {t} : place'[u] = place[u]
  BY <1>2, <1>4, LoadType DEF SignInInv
<1>6. SignInTypeOK'
  <2>1. /\ place' \in [Tab -> Place] /\ session' \in [Tab -> Token \cup {NoToken}]
        /\ calls' \in [Tab -> SUBSET (Token \cup {NoToken})]
        /\ calls'[t] = {}
        /\ \A u \in Tab \ {t} : session'[u] = session[u] /\ calls'[u] = calls[u]
    BY <1>2, <1>4, LoadType DEF SignInInv
  <2>2. codes' \subseteq SignInId /\ disturbed' \subseteq SignInId
    BY <1>1, <1>3 DEF SignInInv, SignInTypeOK
  <2>3. answer[t].state = "none"
    BY <1>2 DEF SignInInv, SignInTypeOK
  <2> QED
    BY <1>2, <1>5, <2>1, <2>2, <2>3 DEF SignInInv, SignInTypeOK
<1>7. CodesAreUnspent'
  <2>1. sign_in[t] \in 1..begun
    BY <1>3, NumberOfSignIn DEF SignInId
  <2> QED
    BY <1>1, <1>2, <1>3, <2>1 DEF SignInInv, CodesAreUnspent
<1>8. SignInsAreApart'
  BY <1>1, <1>2, <1>3, <1>5 DEF SignInInv, SignInsAreApart
<1>9. UndisturbedSucceeds'
  <2>1. answer[t].state = "none"
    BY <1>2 DEF SignInInv, SignInTypeOK
  <2> QED
    BY <1>1, <1>2, <1>5, <2>1 DEF SignInInv, UndisturbedSucceeds
<1> QED
  BY <1>2, <1>6, <1>7, <1>8, <1>9 DEF SignInInv, NamesMatchKeys, CodeYieldsOneToken,
     RotationIsPickedUp

-----------------------------------------------------------------------------
(* The code is exchanged *)

\* completeLogin sends the verifier local storage has.
LEMMA SendingKeepsSignInInv ==
  ASSUME SignInInv, NEW t \in Tab, completeLogin(t)
  PROVE  SignInInv'
<1>1. /\ place[t] = "callback" /\ place' = [place EXCEPT ![t] = "exchanging"]
      /\ answer' = [answer EXCEPT ![t] = [NoAnswer EXCEPT !.state = "waiting",
                                                          !.sent = verifier]]
      /\ UNCHANGED <<key, codes, verifier, stored, sign_in, session, calls, jwks, begun,
                     reloads, expired, issued, disturbed, misjudged>>
  BY DEF completeLogin, providerVars, browserVars, historyVars
<1>2. /\ [NoAnswer EXCEPT !.state = "waiting", !.sent = verifier] \in Answer
      /\ [NoAnswer EXCEPT !.state = "waiting", !.sent = verifier].state = "waiting"
      /\ [NoAnswer EXCEPT !.state = "waiting", !.sent = verifier].sent = verifier
  BY DEF SignInInv, SignInTypeOK, NoAnswer, Answer
<1>3. /\ answer' \in [Tab -> Answer] /\ place' \in [Tab -> Place]
      /\ answer'[t].state = "waiting" /\ answer'[t].sent = verifier
      /\ place'[t] = "exchanging"
      /\ \A u \in Tab \ {t} : answer'[u] = answer[u] /\ place'[u] = place[u]
  BY <1>1, <1>2 DEF SignInInv, SignInTypeOK, Place
<1>4. SignInTypeOK'
  BY <1>1, <1>3 DEF SignInInv, SignInTypeOK
<1>5. SignInsAreApart'
  BY <1>1, <1>3 DEF SignInInv, SignInsAreApart
<1>6. UndisturbedSucceeds'
  BY <1>1, <1>3 DEF SignInInv, UndisturbedSucceeds
<1> QED
  BY <1>1, <1>4, <1>5, <1>6 DEF SignInInv, CodesAreUnspent, NamesMatchKeys,
     CodeYieldsOneToken, RotationIsPickedUp

\* token takes the code before it looks at anything else: the code, unspent
\* until now, is spent, and no other tab's sign-in loses its own.
LEMMA ExchangingKeepsSignInInv ==
  ASSUME SignInInv, NEW t \in Tab, token(t)
  PROVE  SignInInv'
<1>1. /\ answer[t].state = "waiting" /\ codes' = codes \ {sign_in[t]}
      /\ UNCHANGED <<key, verifier, stored, place, sign_in, session, calls, jwks, begun,
                     reloads, expired, disturbed, misjudged>>
  BY DEF token, consume, browserVars
<1>2. place[t] = "exchanging" /\ sign_in[t] \in SignInId
  BY <1>1, NumberOfSignIn DEF SignInInv, SignInTypeOK
<1>3. \/ /\ sign_in[t] \in codes /\ issued' = [issued EXCEPT ![sign_in[t]] = @ + 1]
         /\ answer' = [answer EXCEPT ![t].state = "granted",
                         ![t].token = [sign_in |-> sign_in[t], key |-> key]]
      \/ /\ ~(sign_in[t] \in codes /\ answer[t].sent = sign_in[t])
         /\ answer' = [answer EXCEPT ![t].state = "refused"] /\ issued' = issued
  BY DEF token
<1>4. /\ answer' \in [Tab -> Answer] /\ answer'[t].state \in {"granted", "refused"}
      /\ answer'[t].state = "refused"
           => ~(sign_in[t] \in codes /\ answer[t].sent = sign_in[t])
      /\ \A u \in Tab \ {t} : answer'[u] = answer[u]
  <2>1. [sign_in |-> sign_in[t], key |-> key] \in Token
    BY <1>2 DEF SignInInv, SignInTypeOK, Token
  <2>2. answer[t] \in Answer
    BY DEF SignInInv, SignInTypeOK
  <2>3. PICK a \in Answer :
          /\ answer' = [answer EXCEPT ![t] = a] /\ a.state \in {"granted", "refused"}
          /\ a.state = "refused" => ~(sign_in[t] \in codes /\ answer[t].sent = sign_in[t])
    BY <1>3, <2>1, <2>2 DEF SignInInv, SignInTypeOK, Answer
  <2> QED
    BY <2>3 DEF SignInInv, SignInTypeOK
<1>5. /\ issued' \in [SignInId -> 0..1]
      /\ \A n \in SignInId : issued'[n] # issued[n] => n = sign_in[t] /\ n \in codes
  <2>1. issued \in [SignInId -> 0..1]
    BY DEF SignInInv, SignInTypeOK, CodeYieldsOneToken
  <2>2. sign_in[t] \in codes => issued[sign_in[t]] = 0
    BY DEF SignInInv, CodesAreUnspent
  <2>3. \/ issued' = issued
        \/ sign_in[t] \in codes /\ issued' = [issued EXCEPT ![sign_in[t]] = 1]
    BY <1>3, <2>2
  <2> QED
    BY <1>2, <2>1, <2>3
<1>6. SignInTypeOK'
  <2>1. issued' \in [SignInId -> 0..(1 + MaxReloads)] /\ codes' \subseteq SignInId
    BY <1>1, <1>5, SignInAssumption DEF SignInInv, SignInTypeOK
  <2> QED
    BY <1>1, <1>2, <1>4, <2>1 DEF SignInInv, SignInTypeOK
<1>7. CodesAreUnspent'
  <2>1. \A n \in codes : n \in SignInId /\ n \in 1..begun /\ issued[n] = 0
    BY DEF SignInInv, SignInTypeOK, CodesAreUnspent
  <2>2. begun \in Nat /\ \A n \in SignInId : n > begun => issued[n] = 0 /\ n \notin 1..begun
    BY DEF SignInInv, SignInTypeOK, CodesAreUnspent, SignInId
  <2> QED
    BY <1>1, <1>5, <2>1, <2>2 DEF CodesAreUnspent
<1>8. SignInsAreApart'
  BY <1>1, <1>2, <1>5, NumberOfSignIn DEF SignInInv, SignInsAreApart
<1>9. UndisturbedSucceeds'
  BY <1>1, <1>2, <1>4 DEF SignInInv, SignInsAreApart, UndisturbedSucceeds
<1>10. CodeYieldsOneToken'
  BY <1>5 DEF CodeYieldsOneToken
<1> QED
  BY <1>1, <1>6, <1>7, <1>8, <1>9, <1>10 DEF SignInInv, NamesMatchKeys, RotationIsPickedUp

\* finishLogin stores the token and shows the application.
LEMMA FinishingKeepsSignInInv ==
  ASSUME SignInInv, NEW t \in Tab, finishLogin(t)
  PROVE  SignInInv'
<1>1. /\ answer[t].state = "granted" /\ stored' = answer[t].token
      /\ session' = [session EXCEPT ![t] = answer[t].token]
      /\ place' = [place EXCEPT ![t] = "home"] /\ answer' = [answer EXCEPT ![t] = NoAnswer]
      /\ UNCHANGED <<key, codes, verifier, sign_in, calls, jwks, begun, reloads, expired,
                     issued, disturbed, misjudged>>
  BY DEF finishLogin, providerVars, historyVars
<1>2. /\ NoAnswer \in Answer /\ NoAnswer.state = "none"
      /\ answer[t].token \in Token \cup {NoToken}
  BY SignInAssumption DEF SignInInv, SignInTypeOK, NoAnswer, Answer
<1>3. SignInTypeOK'
  BY <1>1, <1>2 DEF SignInInv, SignInTypeOK, Place
<1>4. SignInsAreApart'
  BY <1>1 DEF SignInInv, SignInTypeOK, SignInsAreApart
<1>5. UndisturbedSucceeds'
  BY <1>1, <1>2 DEF SignInInv, SignInTypeOK, UndisturbedSucceeds
<1> QED
  BY <1>1, <1>3, <1>4, <1>5 DEF SignInInv, CodesAreUnspent, NamesMatchKeys,
     CodeYieldsOneToken, RotationIsPickedUp

\* A lost request disturbs its sign-in, and a refused one was disturbed: the
\* error page shows no other.
LEMMA FailingKeepsSignInInv ==
  ASSUME SignInInv, NEW t \in Tab, fetch_fails(t) \/ signInFails(t)
  PROVE  SignInInv'
<1>1. CASE fetch_fails(t)
  <2>1. /\ answer[t].state \in {"waiting", "granted"}
        /\ answer' = [answer EXCEPT ![t].state = "refused", ![t].token = NoToken]
        /\ disturbed' = disturbed \cup {sign_in[t]}
        /\ UNCHANGED <<key, codes, verifier, stored, place, sign_in, session, calls, jwks,
                       begun, reloads, expired, issued, misjudged>>
    BY <1>1 DEF fetch_fails, providerVars, browserVars
  <2>2. sign_in[t] \in SignInId
    BY <2>1, NumberOfSignIn DEF SignInInv, SignInTypeOK
  <2>3. /\ answer' \in [Tab -> Answer] /\ answer'[t].state = "refused"
        /\ \A u \in Tab \ {t} : answer'[u] = answer[u]
    BY <2>1 DEF SignInInv, SignInTypeOK, Answer
  <2>4. SignInTypeOK'
    BY <2>1, <2>2, <2>3 DEF SignInInv, SignInTypeOK
  <2>5. UndisturbedSucceeds'
    BY <2>1, <2>3 DEF SignInInv, UndisturbedSucceeds
  <2> QED
    BY <2>1, <2>4, <2>5 DEF SignInInv, CodesAreUnspent, SignInsAreApart, NamesMatchKeys,
       CodeYieldsOneToken, RotationIsPickedUp
<1>2. CASE signInFails(t)
  <2>1. /\ answer[t].state = "refused" /\ place' = [place EXCEPT ![t] = "error"]
        /\ answer' = [answer EXCEPT ![t] = NoAnswer]
        /\ UNCHANGED <<key, codes, verifier, stored, sign_in, session, calls, jwks, begun,
                       reloads, expired, issued, disturbed, misjudged>>
    BY <1>2 DEF signInFails, providerVars, browserVars, historyVars
  <2>2. /\ NoAnswer \in Answer /\ NoAnswer.state = "none"
        /\ sign_in[t] \in disturbed /\ place[t] = "exchanging"
    BY <2>1, SignInAssumption
       DEF SignInInv, SignInTypeOK, UndisturbedSucceeds, NoAnswer, Answer
  <2>3. SignInTypeOK'
    BY <2>1, <2>2 DEF SignInInv, SignInTypeOK, Place
  <2>4. SignInsAreApart'
    BY <2>1, <2>2 DEF SignInInv, SignInTypeOK, SignInsAreApart
  <2>5. UndisturbedSucceeds'
    BY <2>1, <2>2 DEF SignInInv, SignInTypeOK, UndisturbedSucceeds
  <2> QED
    BY <2>1, <2>3, <2>4, <2>5 DEF SignInInv, CodesAreUnspent, NamesMatchKeys,
       CodeYieldsOneToken, RotationIsPickedUp
<1> QED
  BY <1>1, <1>2

\* A reload of the callback page disturbs its sign-in; what /token answered
\* meanwhile is lost.
LEMMA ReloadingKeepsSignInInv ==
  ASSUME SignInInv, NEW t \in Tab, reload_callback(t)
  PROVE  SignInInv'
<1>1. /\ place[t] \in {"exchanging", "error"} /\ reloads < MaxReloads
      /\ reloads' = reloads + 1 /\ Load(t, "callback")
      /\ answer' = [answer EXCEPT ![t] = NoAnswer]
      /\ disturbed' = disturbed \cup {sign_in[t]}
      /\ UNCHANGED <<key, codes, verifier, stored, sign_in, jwks, begun, expired, issued,
                     misjudged>>
  BY DEF reload_callback, providerVars, browserVars
<1>2. sign_in[t] \in SignInId /\ sign_in[t] # 0
  BY <1>1, NumberOfSignIn
<1>3. "callback" \in Place /\ NoAnswer \in Answer /\ NoAnswer.state = "none"
  BY SignInAssumption DEF Place, NoAnswer, Answer
<1>4. /\ place' \in [Tab -> Place] /\ session' \in [Tab -> Token \cup {NoToken}]
      /\ calls' \in [Tab -> SUBSET (Token \cup {NoToken})]
      /\ place'[t] = "callback" /\ calls'[t] = {}
      /\ \A u \in Tab \ {t} : /\ place'[u] = place[u] /\ session'[u] = session[u]
                              /\ calls'[u] = calls[u]
  BY <1>1, <1>3, LoadType DEF SignInInv
<1>5. /\ answer' \in [Tab -> Answer] /\ answer'[t].state = "none"
      /\ \A u \in Tab \ {t} : answer'[u] = answer[u]
  BY <1>1, <1>3 DEF SignInInv, SignInTypeOK
<1>6. reloads' \in 0..MaxReloads
  BY <1>1, SignInAssumption DEF SignInInv, SignInTypeOK
<1>7. SignInTypeOK'
  BY <1>1, <1>2, <1>4, <1>5, <1>6 DEF SignInInv, SignInTypeOK
<1>8. SignInsAreApart'
  BY <1>1, <1>2, <1>4 DEF SignInInv, SignInsAreApart
<1>9. UndisturbedSucceeds'
  BY <1>1, <1>4, <1>5 DEF SignInInv, UndisturbedSucceeds
<1> QED
  BY <1>1, <1>7, <1>8, <1>9 DEF SignInInv, CodesAreUnspent, NamesMatchKeys,
     CodeYieldsOneToken, RotationIsPickedUp

\* Back to the login form, or the application loaded again: the sign-in of
\* the tab is over.
LEMMA HomecomingKeepsSignInInv ==
  ASSUME SignInInv, NEW t \in Tab, back_to_sign_in(t) \/ reload_home(t)
  PROVE  SignInInv'
<1>1. /\ place[t] \in {"error", "home"} /\ Load(t, "home") /\ reloads' \in 0..MaxReloads
      /\ UNCHANGED <<key, codes, verifier, stored, sign_in, answer, jwks, begun, expired,
                     issued, disturbed, misjudged>>
  BY SignInAssumption DEF back_to_sign_in, reload_home, providerVars, browserVars,
     historyVars, SignInInv, SignInTypeOK
<1>2. "home" \in Place
  BY DEF Place
<1>3. /\ place' \in [Tab -> Place] /\ session' \in [Tab -> Token \cup {NoToken}]
      /\ calls' \in [Tab -> SUBSET (Token \cup {NoToken})]
      /\ place'[t] = "home" /\ calls'[t] = {}
      /\ \A u \in Tab \ {t} : /\ place'[u] = place[u] /\ session'[u] = session[u]
                              /\ calls'[u] = calls[u]
  BY <1>1, <1>2, LoadType DEF SignInInv
<1>4. SignInTypeOK'
  <2>1. answer[t].state = "none"
    BY <1>1 DEF SignInInv, SignInTypeOK
  <2> QED
    BY <1>1, <1>3, <2>1 DEF SignInInv, SignInTypeOK
<1>5. SignInsAreApart'
  BY <1>1, <1>3 DEF SignInInv, SignInsAreApart
<1>6. UndisturbedSucceeds'
  BY <1>1, <1>3 DEF SignInInv, UndisturbedSucceeds
<1> QED
  BY <1>1, <1>4, <1>5, <1>6 DEF SignInInv, CodesAreUnspent, NamesMatchKeys,
     CodeYieldsOneToken, RotationIsPickedUp

-----------------------------------------------------------------------------
(* A tab calls the API *)

\* What is left alone by calls, the clock and the agent service.
flowVars == <<key, codes, verifier, place, sign_in, answer, begun, reloads, issued,
              disturbed>>

\* Codes, verifiers and places are none of their business.
LEMMA CallsLeaveTheFlow ==
  ASSUME SignInInv, UNCHANGED flowVars
  PROVE  CodesAreUnspent' /\ SignInsAreApart' /\ UndisturbedSucceeds' /\ CodeYieldsOneToken'
BY DEF flowVars, SignInInv, CodesAreUnspent, SignInsAreApart, UndisturbedSucceeds,
   CodeYieldsOneToken

\* validate_token finds the key of a fresh token: a cached entry of its name
\* holds that key, and without one the list is fetched, which has it.
LEMMA FreshIsNotRejected ==
  ASSUME SignInInv, NEW tok \in Token \cup {NoToken}, NEW outcome,
         validate_token(tok, outcome)
  PROVE  /\ jwks' \subseteq [kid : Key, key : Key] /\ NamesMatchKeys'
         /\ fresh(tok) => outcome # "rejected"
<1>1. key \in Key /\ kid(key) \in Key /\ jwks \subseteq [kid : Key, key : Key]
  BY DEF SignInInv, SignInTypeOK, kid
<1>2. CASE /\ named(tok) # {} \/ tok = NoToken
           /\ outcome = IF tok # NoToken /\ tok \notin expired /\ valid(tok, jwks)
                        THEN "accepted" ELSE "rejected"
           /\ UNCHANGED jwks
  <2>1. ASSUME fresh(tok)
        PROVE  outcome # "rejected"
    <3>1. tok # NoToken /\ tok \notin expired
      BY <2>1 DEF fresh
    <3>2. PICK entry \in jwks : entry.kid = kid(tok.key)
      BY <1>2, <3>1 DEF named
    <3>3. entry.key = tok.key
      BY <3>2 DEF SignInInv, NamesMatchKeys, kid
    <3> QED
      BY <1>2, <3>1, <3>2, <3>3 DEF valid
  <2> QED
    BY <1>1, <1>2, <2>1 DEF SignInInv, NamesMatchKeys
<1>3. CASE /\ jwks' = jwks \cup {[kid |-> kid(key), key |-> key]}
           /\ outcome = IF tok \notin expired /\ valid(tok, jwks') THEN "accepted"
                        ELSE "rejected"
  <2>1. fresh(tok) => valid(tok, jwks') /\ tok \notin expired
    <3>1. [kid |-> kid(key), key |-> key] \in jwks'
      BY <1>3
    <3> QED
      BY <3>1 DEF fresh, valid
  <2> QED
    BY <1>1, <1>3, <2>1 DEF SignInInv, NamesMatchKeys
<1>4. CASE outcome = "unresolved" /\ UNCHANGED jwks
  BY <1>1, <1>4 DEF SignInInv, NamesMatchKeys
<1> QED
  BY <1>2, <1>3, <1>4 DEF validate_token

\* A call is answered: a 401 forgets the session of the tab and the stored
\* token, and a fresh token never gets one.
LEMMA AnsweringKeepsSignInInv ==
  ASSUME SignInInv, NEW t \in Tab, answer_call(t)
  PROVE  SignInInv'
<1>1. PICK tok \in calls[t], outcome \in Outcome :
        /\ validate_token(tok, outcome)
        /\ calls' = [calls EXCEPT ![t] = @ \ {tok}]
        /\ IF outcome = "accepted" THEN UNCHANGED <<stored, session>> ELSE unauthorized(t)
        /\ misjudged' = (misjudged \/ (fresh(tok) /\ outcome = "rejected"))
        /\ UNCHANGED <<providerVars, verifier, place, sign_in, answer, begun, reloads,
                       expired, issued, disturbed>>
  BY DEF answer_call
<1>2. tok \in Token \cup {NoToken}
  BY <1>1 DEF SignInInv, SignInTypeOK
<1>3. /\ jwks' \subseteq [kid : Key, key : Key] /\ NamesMatchKeys'
      /\ fresh(tok) => outcome # "rejected"
  BY <1>1, <1>2, FreshIsNotRejected
<1>4. misjudged' = FALSE
  BY <1>1, <1>3 DEF SignInInv, RotationIsPickedUp
<1>5. /\ stored' \in Token \cup {NoToken} /\ session' \in [Tab -> Token \cup {NoToken}]
      /\ \A u \in Tab : session'[u] = session[u] \/ session'[u] = NoToken
  BY <1>1 DEF unauthorized, SignInInv, SignInTypeOK
<1>6. /\ calls' \in [Tab -> SUBSET (Token \cup {NoToken})]
      /\ \A u \in Tab : calls'[u] \subseteq calls[u]
  BY <1>1 DEF SignInInv, SignInTypeOK
<1>7. UNCHANGED flowVars /\ UNCHANGED expired
  BY <1>1 DEF flowVars, providerVars
<1>8. SignInTypeOK'
  BY <1>3, <1>4, <1>5, <1>6, <1>7 DEF SignInInv, SignInTypeOK, flowVars
<1> QED
  BY <1>3, <1>4, <1>7, <1>8, CallsLeaveTheFlow DEF SignInInv, RotationIsPickedUp

\* A call fails: only the key list may have changed.
LEMMA DroppingKeepsSignInInv ==
  ASSUME SignInInv, NEW t \in Tab, drop_call(t)
  PROVE  SignInInv'
<1>1. PICK tok \in calls[t] :
        /\ calls' = [calls EXCEPT ![t] = @ \ {tok}]
        /\ UNCHANGED jwks \/ \E outcome \in Outcome : validate_token(tok, outcome)
        /\ UNCHANGED <<providerVars, browserVars, place, sign_in, answer, session, begun,
                       reloads, expired, historyVars>>
  BY DEF drop_call
<1>2. tok \in Token \cup {NoToken}
  BY <1>1 DEF SignInInv, SignInTypeOK
<1>3. jwks' \subseteq [kid : Key, key : Key] /\ NamesMatchKeys'
  <2>1. CASE UNCHANGED jwks
    BY <1>1, <2>1 DEF SignInInv, SignInTypeOK, NamesMatchKeys
  <2>2. ASSUME NEW outcome \in Outcome, validate_token(tok, outcome)
        PROVE  jwks' \subseteq [kid : Key, key : Key] /\ NamesMatchKeys'
    BY <1>2, <2>2, FreshIsNotRejected
  <2> QED
    BY <1>1, <2>1, <2>2
<1>4. /\ calls' \in [Tab -> SUBSET (Token \cup {NoToken})]
      /\ \A u \in Tab : calls'[u] \subseteq calls[u]
  BY <1>1 DEF SignInInv, SignInTypeOK
<1>5. UNCHANGED <<flowVars, stored, session, expired, misjudged>>
  BY <1>1 DEF flowVars, providerVars, browserVars, historyVars
<1>6. SignInTypeOK'
  BY <1>3, <1>4, <1>5 DEF SignInInv, SignInTypeOK, flowVars
<1> QED
  BY <1>3, <1>5, <1>6, CallsLeaveTheFlow DEF SignInInv, RotationIsPickedUp

\* A poll takes the stored token along, and logout forgets it.
LEMMA PollingKeepsSignInInv ==
  ASSUME SignInInv, NEW t \in Tab, poll(t) \/ logout(t)
  PROVE  SignInInv'
<1>1. UNCHANGED <<flowVars, jwks, expired, misjudged>> /\ place[t] = "home"
  BY DEF poll, logout, flowVars, providerVars, browserVars, historyVars
<1>2. SignInTypeOK'
  <2>1. CASE poll(t)
    <3>1. calls' = [calls EXCEPT ![t] = calls[t] \cup {stored}] /\ UNCHANGED <<stored, session>>
      BY <2>1 DEF poll, browserVars
    <3>2. calls[t] \cup {stored} \in SUBSET (Token \cup {NoToken})
      BY DEF SignInInv, SignInTypeOK
    <3>3. /\ calls' \in [Tab -> SUBSET (Token \cup {NoToken})]
          /\ \A u \in Tab \ {t} : calls'[u] = calls[u]
      BY <3>1, <3>2 DEF SignInInv, SignInTypeOK
    <3> QED
      BY <1>1, <3>1, <3>3 DEF SignInInv, SignInTypeOK, flowVars
  <2>2. CASE logout(t)
    BY <1>1, <2>2 DEF logout, SignInInv, SignInTypeOK, flowVars
  <2> QED
    BY <2>1, <2>2
<1> QED
  BY <1>1, <1>2, CallsLeaveTheFlow DEF SignInInv, NamesMatchKeys, RotationIsPickedUp

-----------------------------------------------------------------------------
(* Time and restarts *)

\* A lifetime ends, or the agent service restarts with an empty cache.
LEMMA ElapsingKeepsSignInInv ==
  ASSUME SignInInv, expire \/ restart_agent
  PROVE  SignInInv'
<1>1. UNCHANGED <<flowVars, stored, session, calls, misjudged>> /\ jwks' \subseteq jwks
  BY DEF expire, restart_agent, flowVars, providerVars, browserVars, tabVars, historyVars
<1>2. Held \subseteq Token
  BY DEF SignInInv, SignInTypeOK, Held, Answer
<1>3. expired' \subseteq Token
  BY <1>2 DEF expire, restart_agent, SignInInv, SignInTypeOK
<1>4. SignInTypeOK'
  BY <1>1, <1>3 DEF SignInInv, SignInTypeOK, flowVars
<1> QED
  BY <1>1, <1>4, CallsLeaveTheFlow DEF SignInInv, NamesMatchKeys, RotationIsPickedUp

\* The provider restarts: whoever had a code is disturbed, the new key has a
\* name of its own.
LEMMA RotatingKeepsSignInInv ==
  ASSUME SignInInv, restart_provider
  PROVE  SignInInv'
<1>1. /\ key < MaxRestarts /\ key' = key + 1 /\ codes' = {}
      /\ disturbed' = disturbed \cup codes
      /\ UNCHANGED <<verifier, stored, place, sign_in, answer, session, calls, jwks, begun,
                     reloads, expired, issued, misjudged>>
  BY DEF restart_provider, browserVars, tabVars
<1>2. SignInTypeOK'
  <2>1. key' \in Key
    BY <1>1, SignInAssumption DEF SignInInv, SignInTypeOK, Key
  <2> QED
    BY <1>1, <2>1 DEF SignInInv, SignInTypeOK
<1>3. CodesAreUnspent' /\ SignInsAreApart' /\ UndisturbedSucceeds'
  BY <1>1 DEF SignInInv, CodesAreUnspent, SignInsAreApart, UndisturbedSucceeds
<1> QED
  BY <1>1, <1>2, <1>3 DEF SignInInv, NamesMatchKeys, CodeYieldsOneToken, RotationIsPickedUp

\* A step that changes nothing.
LEMMA StandingStillKeepsSignInInv ==
  ASSUME SignInInv, UNCHANGED vars
  PROVE  SignInInv'
<1>1. UNCHANGED <<flowVars, stored, session, calls, jwks, expired, misjudged>>
  BY DEF vars, flowVars, providerVars, browserVars, tabVars, historyVars
<1>2. SignInTypeOK'
  BY <1>1 DEF SignInInv, SignInTypeOK, flowVars
<1> QED
  BY <1>1, <1>2, CallsLeaveTheFlow DEF SignInInv, NamesMatchKeys, RotationIsPickedUp

-----------------------------------------------------------------------------
(* The theorems *)

\* The invariant holds throughout.
LEMMA SignInHolds == Spec => []SignInInv
<1>1. SignInInv /\ [Next]_vars => SignInInv'
  <2> SUFFICES ASSUME SignInInv, [Next]_vars PROVE SignInInv'
    OBVIOUS
  <2>1. ASSUME NEW t \in Tab,
               \/ Person(t) \/ leave_for_provider(t) \/ Exchange(t) \/ fetch_fails(t)
               \/ poll(t) \/ answer_call(t) \/ drop_call(t)
        PROVE  SignInInv'
    BY <2>1, RedirectingKeepsSignInInv, LeavingKeepsSignInInv, AuthorizingKeepsSignInInv,
       SendingKeepsSignInInv, ExchangingKeepsSignInInv, FinishingKeepsSignInInv,
       FailingKeepsSignInInv, ReloadingKeepsSignInInv, HomecomingKeepsSignInInv,
       AnsweringKeepsSignInInv, DroppingKeepsSignInInv, PollingKeepsSignInInv DEF Person, Exchange
  <2> QED
    BY <2>1, ElapsingKeepsSignInInv, RotatingKeepsSignInInv, StandingStillKeepsSignInInv
       DEF Next
<1> QED
  BY SignInInit, <1>1, PTL DEF Spec

\* Every store of the browser, the provider and the agent service, and every
\* tab, has its type; a page awaits an answer exactly while it exchanges.
THEOREM SignInTypes == Spec => []SignInTypeOK
<1>1. SignInInv => SignInTypeOK
  BY DEF SignInInv
<1> QED
  BY <1>1, SignInHolds, PTL

\* However often the callback page is loaded with a code, whatever is lost or
\* restarted: at most one token is issued for it (token, main.py:372).
THEOREM CodesAreSpentOnce == Spec => []CodeYieldsOneToken
<1>1. SignInInv => CodeYieldsOneToken
  BY DEF SignInInv
<1> QED
  BY <1>1, SignInHolds, PTL

\* The error page of the callback is shown only to a sign-in that a restart,
\* a purge, a reload, a lost request or another tab came between.
THEOREM UndisturbedSignInSucceeds == Spec => []SignInFailsOnlyWhenDisturbed
<1>1. SignInInv => SignInFailsOnlyWhenDisturbed
  BY DEF SignInInv, UndisturbedSucceeds, SignInFailsOnlyWhenDisturbed
<1> QED
  BY <1>1, SignInHolds, PTL

\* However the cache of keys was filled and whoever restarted: a token that
\* is not expired and signed with the present key is not rejected.
THEOREM FreshTokensAreAccepted == Spec => []RotationIsPickedUp
<1>1. SignInInv => RotationIsPickedUp
  BY DEF SignInInv
<1> QED
  BY <1>1, SignInHolds, PTL
=============================================================================
