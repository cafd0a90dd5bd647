------------------------------ MODULE EntraLogin ------------------------------
(***************************************************************************)
(* The sign-in with Microsoft Entra: StartEntraLogin, which keeps a state  *)
(* in a cookie and sends it to the provider, HandleCallback, which checks  *)
(* the state that comes back against the cookie, and Reload, which         *)
(* replaces the provider meanwhile, without a lock.                        *)
(*                                                                         *)
(* Abstractions.                                                           *)
(*   - A string is a sequence of tokens: a random one, a separator, the    *)
(*     return address, the verifier of the code.                           *)
(*   - A browser signs in once at a time. The provider sends back the      *)
(*     state it was given, with a code or an error.                        *)
(*   - The exchange of the code, the id_token and the list of users who    *)
(*     are allowed end in a session or in an error, either of which may    *)
(*     happen.                                                             *)
(***************************************************************************)
EXTENDS Sequences, SequencesExt

CONSTANTS
    Browsers,
    Nonce, Salt, Verifier,  \* random tokens
    ReturnURL

VARIABLES
    oauth,      \* Authenticator.oauth is not nil
    verifier,   \* Authenticator.verifier is not nil
    rpc,        \* program point of Reload
    pc,         \* where each browser is, or its handler's point
    cookie,     \* its state cookie; empty: none
    sent        \* the state it was sent to the provider with

providerVars == <<oauth, verifier, rpc>>
browserVars == <<pc, cookie, sent>>
vars == <<providerVars, browserVars>>

-----------------------------------------------------------------------------
State == <<Nonce, "|", ReturnURL, "|", Verifier>>
SentState == <<Salt, ".">> \o State

Points ==
    {"out", "start", "provider", "check", "exchange", "in",
     "unconfigured", "refused", "error", "panic"}

TypeOK ==
    /\ {oauth, verifier} \subseteq BOOLEAN
    /\ rpc \in {"idle", "discover", "clear", "set"}
    /\ pc \in [Browsers -> Points]
    /\ cookie \in [Browsers -> {<<>>, State}]
    /\ sent \in [Browsers -> {<<>>, SentState}]

Init ==
    /\ oauth = FALSE /\ verifier = FALSE
    /\ rpc = "idle"
    /\ pc = [b \in Browsers |-> "out"]
    /\ cookie = [b \in Browsers |-> <<>>]
    /\ sent = [b \in Browsers |-> <<>>]

Goto(b, point) == pc' = [pc EXCEPT ![b] = point]

-----------------------------------------------------------------------------
(* Reload, at the start and after every change of the configuration.       *)

\* The Azure settings are read: if they are not complete there is no provider.
Reload ==
    /\ rpc = "idle"
    /\ rpc' \in {"discover", "clear"}
    /\ UNCHANGED <<oauth, verifier, browserVars>>

\* The discovery of the provider answers, or fails.
Discover ==
    /\ rpc = "discover"
    /\ \/ rpc' = "clear" /\ UNCHANGED verifier
       \/ rpc' = "set" /\ verifier' = TRUE
    /\ UNCHANGED <<oauth, browserVars>>

\* oauth, then verifier, becomes nil ...
Clear ==
    /\ rpc = "clear"
    /\ \/ oauth /\ oauth' = FALSE /\ UNCHANGED <<verifier, rpc>>
       \/ ~oauth /\ verifier' = FALSE /\ rpc' = "idle" /\ UNCHANGED oauth
    /\ UNCHANGED browserVars

\* ... or oauth is set after verifier.
SetProvider ==
    /\ rpc = "set"
    /\ oauth' = TRUE
    /\ rpc' = "idle"
    /\ UNCHANGED <<verifier, browserVars>>

-----------------------------------------------------------------------------
(* StartEntraLogin.                                                        *)

Start(b) ==
    /\ pc[b] \notin {"start", "provider", "check", "exchange"}
    /\ Goto(b, IF oauth THEN "start" ELSE "unconfigured")
    /\ UNCHANGED <<providerVars, cookie, sent>>

\* AuthCodeURL, called on whatever oauth is by now.
Redirect(b) ==
    /\ pc[b] = "start"
    /\ cookie' = [cookie EXCEPT ![b] = State]
    /\ \/ ~oauth /\ Goto(b, "panic") /\ UNCHANGED sent
       \/ oauth /\ Goto(b, "provider") /\ sent' = [sent EXCEPT ![b] = SentState]
    /\ UNCHANGED providerVars

-----------------------------------------------------------------------------
(* HandleCallback.                                                         *)

\* The provider sends the browser back. Too late, and the cookie has expired.
Callback(b) ==
    /\ pc[b] = "provider"
    /\ cookie' \in {cookie, [cookie EXCEPT ![b] = <<>>]}
    /\ Goto(b, IF oauth /\ verifier THEN "check" ELSE "unconfigured")
    /\ UNCHANGED <<providerVars, sent>>

\* The provider reports an error, or there is no cookie.
CallbackFails(b) ==
    /\ pc[b] = "check"
    /\ Goto(b, "error")
    /\ UNCHANGED <<providerVars, cookie, sent>>

\* The check of the state: the cookie has to end in a dot and the state of
\* the query.
StateMatches(value, state) == IsSuffix(<<".">> \o state, value)

CheckState(b) ==
    /\ pc[b] = "check"
    /\ cookie[b] # <<>>
    /\ Goto(b, IF StateMatches(cookie[b], sent[b]) THEN "exchange" ELSE "refused")
    /\ UNCHANGED <<providerVars, cookie, sent>>

\* The rest of the callback uses oauth and verifier again. There may be no
\* code, no token, or no permission for this user.
Exchange(b) ==
    /\ pc[b] = "exchange"
    /\ \/ oauth /\ verifier /\ \E point \in {"in", "error"} : Goto(b, point)
       \/ ~(oauth /\ verifier) /\ \E point \in {"panic", "error"} : Goto(b, point)
    /\ UNCHANGED <<providerVars, cookie, sent>>

-----------------------------------------------------------------------------
Next ==
    \/ Reload \/ Discover \/ Clear \/ SetProvider
    \/ \E b \in Browsers :
         \/ Start(b) \/ Redirect(b)
         \/ Callback(b) \/ CallbackFails(b) \/ CheckState(b) \/ Exchange(b)

Spec == Init /\ [][Next]_vars

-----------------------------------------------------------------------------
(* What the documentation says and the code does not do.                   *)

\* A browser that comes back with the state it was sent with passes the check
\* against its cookie. It never does: what was sent is a random prefix, a dot
\* and the cookie, and the check looks for it at the end of the cookie
\* (StartEntraLogin, HandleCallback).
OwnStateAccepted == \A b \in Browsers : pc[b] # "refused"

\* A reload of the providers does not disturb a sign-in under way: oauth and
\* verifier are there when they are used (Reload, StartEntraLogin).
ProviderStays == \A b \in Browsers : pc[b] # "panic"
=============================================================================
