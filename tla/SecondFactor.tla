---------------------------- MODULE SecondFactor ----------------------------
(***************************************************************************)
(* The sign-in of one user who may need a second factor: CompleteLogin,    *)
(* the pages and forms of the enrolment and of the challenge, the signed   *)
(* cookies they pass on, and what administrators do meanwhile: reset the   *)
(* user's device, change the list of those who need the factor, revoke all *)
(* sessions. The user may have several browsers open at once.  A sign-in   *)
(* asked for by another domain goes on there with a ticket.                *)
(*                                                                         *)
(* Abstractions.                                                           *)
(*   - Secrets are numbered in the order they are generated; 0 is the      *)
(*     empty one. A code is the secret it was made from and how many steps *)
(*     of 30 s its clock is off.                                           *)
(*   - The session secret and the session epoch always change together:    *)
(*     one counter stands for either, read as two reads where the code     *)
(*     reads them one after the other.                                     *)
(*   - The address with a ticket is opened again while its session lasts,   *)
(*     not after the user has signed out.                                  *)
(*   - The limiter of the codes is in LoginLimiter; expiry is left out, so *)
(*     is an error of Save where it only makes the user try again.         *)
(***************************************************************************)
EXTENDS Integers

CONSTANTS
    Browsers,
    Skew,         \* totpSkew
    MaxSecrets,   \* bound: secrets generated
    MaxResets,    \* bound: resets of the device
    MaxRevokes    \* bound: revocations of all sessions

ASSUME BoundsAssumption ==
    {Skew, MaxSecrets, MaxResets, MaxRevokes} \subseteq Nat

VARIABLES
    entry,      \* the user's entry in TOTP.Secrets
    required,   \* the user is in TOTP.RequireFor
    epoch,      \* SessionEpoch and SessionSecret
    pc,         \* the page each browser is at, or its handler's point
    pending,    \* its pending cookie: the key that signed it
    session,    \* its session cookie, of the last domain it was sent to
    ticket,     \* the key that signed the ticket it carries
    app,        \* the secrets in the user's authenticator app
    made, resets,
    proven,     \* history: secrets a right code has been given for
    asked,      \* history: browsers that must give, or have given, a code
    straddled,  \* history: browsers that had been let in before the last
                \* revocation, and have not been since
    slipped     \* history: those of them with a handler that read the epoch or
                \* signed a ticket after it

storeVars == <<entry, required, epoch>>
boundVars == <<made, resets>>
revokeVars == <<straddled, slipped>>
histVars == <<proven, asked, straddled, slipped>>
cookies == <<pending, session, ticket>>
vars == <<storeVars, pc, cookies, app, boundVars, histVars>>

-----------------------------------------------------------------------------
Points ==
    {"login", "ensure", "page", "show", "form", "confirm", "challenge",
     "issue", "sign", "in", "ticket", "attach", "reissue", "resign"}

\* Where who the user is has been settled.
Identified == {"issue", "sign", "in", "ticket", "attach", "reissue", "resign"}

None == -1
NoEntry == [secret |-> 0, confirmed |-> FALSE]
NoSession == [epoch |-> None, key |-> None]
Offsets == -3..3

TypeOK ==
    /\ entry \in [secret : 0..MaxSecrets, confirmed : BOOLEAN]
    /\ required \in BOOLEAN
    /\ epoch \in 0..MaxRevokes
    /\ pc \in [Browsers -> Points]
    /\ pending \in [Browsers -> {None} \cup 0..MaxRevokes]
    /\ session \in [Browsers -> [epoch : {None} \cup 0..MaxRevokes,
                                 key : {None} \cup 0..MaxRevokes]]
    /\ ticket \in [Browsers -> {None} \cup 0..MaxRevokes]
    /\ app \in SUBSET (1..MaxSecrets)
    /\ made \in 0..MaxSecrets
    /\ resets \in 0..MaxResets
    /\ proven \in SUBSET (0..MaxSecrets)
    /\ asked \in [Browsers -> {"no", "yes", "given"}]
    /\ straddled \in SUBSET Browsers
    /\ slipped \in SUBSET Browsers

Valid_KeyOnly(token) == token.key = epoch  \* mutant: the epoch is ignored

\* ValidateSession.
Valid(token) == token.key = epoch /\ token.epoch = epoch

\* VerifyTOTPCode.
Accepts(secret, code) ==
    secret # 0 /\ code.secret = secret /\ code.off \in -Skew..Skew

\* What a user can type: codes of the app, and others.
Codes == [secret : app \cup {None}, off : Offsets]

Init ==
    /\ entry = NoEntry
    /\ required \in BOOLEAN
    /\ epoch = 0
    /\ pc = [b \in Browsers |-> "login"]
    /\ pending = [b \in Browsers |-> None]
    /\ session = [b \in Browsers |-> NoSession]
    /\ ticket = [b \in Browsers |-> None]
    /\ app = {}
    /\ made = 0 /\ resets = 0
    /\ proven = {}
    /\ asked = [b \in Browsers |-> "no"]
    /\ straddled = {} /\ slipped = {}

Goto(b, point) == pc' = [pc EXCEPT ![b] = point]

\* The last check of who the user is has been passed anew.
Readmitted(b) == straddled' = straddled \ {b} /\ slipped' = slipped \ {b}

-----------------------------------------------------------------------------
(* CompleteLogin.                                                          *)

LoginPending_SkipsNew(b) ==  \* mutant: a user with no device is let in
    /\ pc[b] = "login"
    /\ required
    /\ pending' = [pending EXCEPT ![b] = epoch]
    /\ asked' = [asked EXCEPT ![b] = "yes"]
    /\ Goto(b, IF entry.confirmed THEN "challenge" ELSE "issue")
    /\ UNCHANGED <<storeVars, session, ticket, app, boundVars, proven, revokeVars>>

\* The password was right. A user without the factor gets a session.
LoginDirect(b) ==
    /\ pc[b] = "login"
    /\ ~required
    /\ asked' = [asked EXCEPT ![b] = "no"]
    /\ Readmitted(b)
    /\ Goto(b, "issue")
    /\ UNCHANGED <<storeVars, cookies, app, boundVars, proven>>

\* Others get the pending cookie and go to the challenge or to enrol.
LoginPending(b) ==
    /\ pc[b] = "login"
    /\ required
    /\ pending' = [pending EXCEPT ![b] = epoch]
    /\ asked' = [asked EXCEPT ![b] = "yes"]
    /\ Goto(b, IF entry.confirmed THEN "challenge" ELSE "ensure")
    /\ UNCHANGED <<storeVars, session, ticket, app, boundVars, proven,
                   revokeVars>>

Ensured_MayFail ==  \* mutant: no secret could be generated, no error
    \/ UNCHANGED <<entry, made>>
    \/ /\ entry.secret = 0
       /\ made < MaxSecrets
       /\ made' = made + 1
       /\ entry' = [secret |-> made + 1, confirmed |-> FALSE]

Ensured_Anew ==  \* mutant: a secret that is not confirmed is replaced
    \/ /\ entry.confirmed
       /\ UNCHANGED <<entry, made>>
    \/ /\ ~entry.confirmed
       /\ made < MaxSecrets
       /\ made' = made + 1
       /\ entry' = [secret |-> made + 1, confirmed |-> FALSE]

\* EnsureUnconfirmedSecret, in one Update: it keeps a secret that is there.
Ensured ==
    \/ /\ entry.secret # 0
       /\ UNCHANGED <<entry, made>>
    \/ /\ entry.secret = 0
       /\ made < MaxSecrets
       /\ made' = made + 1
       /\ entry' = [secret |-> made + 1, confirmed |-> FALSE]

LoginEnsure(b) ==
    /\ pc[b] = "ensure"
    /\ Ensured
    /\ Goto(b, "page")
    /\ UNCHANGED <<required, epoch, cookies, app, resets, histVars>>

-----------------------------------------------------------------------------
(* The pages and forms. Each begins by checking the pending cookie.        *)

PendingRefused_ToPage(b) ==  \* mutant: back to the page, not to the login
    /\ pc[b] \in {"page", "form", "challenge"}
    /\ pending[b] # epoch
    /\ Goto(b, "page")
    /\ UNCHANGED <<storeVars, cookies, app, boundVars, histVars>>

\* The cookie was revoked: back to the login.
PendingRefused(b) ==
    /\ pc[b] \in {"page", "form", "challenge"}
    /\ pending[b] # epoch
    /\ Goto(b, "login")
    /\ UNCHANGED <<storeVars, cookies, app, boundVars, histVars>>

Holds(b, point) == pc[b] = point /\ pending[b] = epoch

\* handle2FAEnrollPage: a user who is enrolled is sent to the challenge ...
EnrollPage(b) ==
    /\ Holds(b, "page")
    /\ Goto(b, IF entry.confirmed THEN "challenge" ELSE "show")
    /\ UNCHANGED <<storeVars, cookies, app, boundVars, histVars>>

\* ... another is shown a secret, and scans it.
ShowSecret(b) ==
    /\ pc[b] = "show"
    /\ Ensured
    /\ app' = app \cup {entry'.secret}
    /\ Goto(b, "form")
    /\ UNCHANGED <<required, epoch, cookies, resets, histVars>>

\* handle2FAEnrollConfirm, ConfirmSecret: the code is checked ...
CheckCode(b, code) ==
    /\ Holds(b, "form")
    /\ Accepts(entry.secret, code)
    /\ proven' = proven \cup {code.secret}
    /\ asked' = [asked EXCEPT ![b] = "given"]
    /\ Readmitted(b)
    /\ Goto(b, "confirm")
    /\ UNCHANGED <<storeVars, cookies, app, boundVars>>

WrongCode(b, code) ==
    /\ Holds(b, "form")
    /\ ~Accepts(entry.secret, code)
    /\ Goto(b, "page")
    /\ UNCHANGED <<storeVars, cookies, app, boundVars, histVars>>

\* ... and the entry, whatever it is by now, is marked, with or without an
\* error from Save.
ConfirmSecret(b) ==
    /\ pc[b] = "confirm"
    /\ entry' = [entry EXCEPT !.confirmed = TRUE]
    /\ \E point \in {"issue", "page"} : Goto(b, point)
    /\ UNCHANGED <<required, epoch, cookies, app, boundVars, histVars>>

\* handle2FAVerify, and handle2FAPage before it.
NotEnrolled(b) ==
    /\ Holds(b, "challenge")
    /\ ~entry.confirmed
    /\ Goto(b, "page")
    /\ UNCHANGED <<storeVars, cookies, app, boundVars, histVars>>

VerifyCode(b, code) ==
    /\ Holds(b, "challenge")
    /\ entry.confirmed
    /\ Accepts(entry.secret, code)
    /\ asked' = [asked EXCEPT ![b] = "given"]
    /\ proven' = proven \cup {code.secret}
    /\ Readmitted(b)
    /\ Goto(b, "issue")
    /\ UNCHANGED <<storeVars, cookies, app, boundVars>>

\* IssueSession: the epoch is read first ...
ReadEpoch(b, before, after) ==
    /\ pc[b] = before
    /\ session' = [session EXCEPT ![b] = [epoch |-> epoch, key |-> None]]
    /\ Goto(b, after)
    /\ UNCHANGED <<storeVars, pending, ticket, app, boundVars, histVars>>

\* ... then the secret that signs the token.
Sign(b, before) ==
    /\ pc[b] = before
    /\ session' = [session EXCEPT ![b].key = epoch]
    /\ UNCHANGED <<storeVars, app, boundVars, histVars>>

\* At the end of the sign-in. Who came from another domain is sent back there.
IssueSession(b) ==
    \/ ReadEpoch(b, "issue", "sign")
    \/ /\ Sign(b, "sign")
       /\ pending' = [pending EXCEPT ![b] = None]
       /\ \E point \in {"in", "ticket"} : Goto(b, point)
       /\ UNCHANGED ticket

\* RedirectAfterAuth, createTicket.
CreateTicket(b) ==
    /\ pc[b] = "ticket"
    /\ ticket' = [ticket EXCEPT ![b] = epoch]
    /\ slipped' = slipped \cup (straddled \cap {b})
    /\ Goto(b, "attach")
    /\ UNCHANGED <<storeVars, pending, session, app, boundVars, proven, asked,
                   straddled>>

\* The address that carries the ticket is opened again: nothing marks it used.
Revisit(b) ==
    /\ pc[b] = "in"
    /\ ticket[b] # None
    /\ Goto(b, "attach")
    /\ UNCHANGED <<storeVars, cookies, app, boundVars, histVars>>

\* HandleAttach, at the other domain: verifyTicket ...
Attach(b) ==
    /\ pc[b] = "attach"
    /\ IF ticket[b] = epoch
       THEN Goto(b, "reissue") /\ UNCHANGED ticket
       ELSE Goto(b, "login") /\ ticket' = [ticket EXCEPT ![b] = None]
    /\ UNCHANGED <<storeVars, pending, session, app, boundVars, histVars>>

\* ... and a session of its own.
IssueAttached(b) ==
    \/ ReadEpoch(b, "reissue", "resign")
    \/ /\ Sign(b, "resign")
       /\ Goto(b, "in")
       /\ UNCHANGED <<pending, ticket>>

\* The user signs out, or is asked to sign in again.
SignOut(b) ==
    /\ pc[b] = "in"
    /\ session' = [session EXCEPT ![b] = NoSession]
    /\ ticket' = [ticket EXCEPT ![b] = None]
    /\ Goto(b, "login")
    /\ UNCHANGED <<storeVars, pending, app, boundVars, histVars>>

-----------------------------------------------------------------------------
(* The administrators.                                                     *)

\* handleTOTPReset.
Reset ==
    /\ resets < MaxResets
    /\ resets' = resets + 1
    /\ entry' = NoEntry
    /\ UNCHANGED <<required, epoch, pc, cookies, app, made, histVars>>

\* handleTOTPSettings.
Require ==
    /\ required' = ~required
    /\ UNCHANGED <<entry, epoch, pc, cookies, app, boundVars, histVars>>

\* RevokeAllSessions.
Revoke ==
    /\ epoch < MaxRevokes
    /\ epoch' = epoch + 1
    /\ straddled' =
         straddled \cup {b \in Browsers : pc[b] \in Identified \cup {"confirm"}}
    /\ slipped' = {b \in Browsers : pc[b] \in {"confirm", "issue", "reissue"}}
    /\ UNCHANGED <<entry, required, pc, cookies, app, boundVars,
                   proven, asked>>

-----------------------------------------------------------------------------
\* The requests of a browser whose user has the codes of the app.
Request(b) ==
    \/ LoginDirect(b) \/ LoginPending(b) \/ LoginEnsure(b)
    \/ PendingRefused(b) \/ EnrollPage(b) \/ ShowSecret(b)
    \/ \E code \in Codes :
         CheckCode(b, code) \/ WrongCode(b, code) \/ VerifyCode(b, code)
    \/ ConfirmSecret(b) \/ NotEnrolled(b)
    \/ IssueSession(b) \/ CreateTicket(b) \/ Attach(b) \/ IssueAttached(b)

Next ==
    \/ \E b \in Browsers : Request(b) \/ Revisit(b) \/ SignOut(b)
    \/ Reset \/ Require \/ Revoke

Spec == Init /\ [][Next]_vars

\* Requests are served, and the user does type a right code now and then.
RightCode(b) == \E code \in Codes : CheckCode(b, code) \/ VerifyCode(b, code)

Fairness ==
    \A b \in Browsers : WF_vars(Request(b)) /\ SF_vars(RightCode(b))

FairSpec == Spec /\ Fairness

-----------------------------------------------------------------------------
(* Properties.                                                             *)

\* A session that was to have a second factor has had it: whatever resets and
\* changes of the list happen on the way, nobody who was asked for a code gets
\* in without one (CompleteLogin, handle2FAVerify, ConfirmSecret).
FactorGiven ==
    \A b \in Browsers : pc[b] \in Identified => asked[b] # "yes"

\* An entry is marked confirmed by a code made from its own secret: the user
\* has it in the app, so the next challenge can be met.
ConfirmedWasProven == entry.confirmed => entry.secret \in proven

\* Two browsers that enrol at once do not confirm each other's secrets, as
\* long as nobody resets the device (ConfirmSecret, EnsureUnconfirmedSecret).
EnrolmentProven == resets = 0 => ConfirmedWasProven

\* Who had been let in before a revocation is out after it: their sessions are
\* refused, those included that were being signed and have got the new secret,
\* and their tickets give no other, however often they are used. The exception
\* is a handler that read the epoch or signed a ticket after the revocation:
\* RevocationEndsAll does without it (IssueSession, verifyTicket,
\* RevokeAllSessions).
RevokedStayOut == \A b \in straddled \ slipped : ~Valid(session[b])

\* A user who has the app and types right codes in the end gets in, with other
\* browsers enrolling at the same time (CompleteLogin and the pages), unless
\* the device is reset: ConfirmedWasProven says what may happen then.
SignInEnds ==
    \A b \in Browsers : pc[b] = "login" ~> pc[b] = "in" \/ resets > 0

-----------------------------------------------------------------------------
(* What the documentation says and the code does not do.                   *)

\* A revocation ends every session of those who had been let in before it. The
\* handler that has checked a password, a code or a ticket and not yet read the
\* epoch issues a valid one afterwards, and a ticket signed afterwards for a
\* user who signed in before gives a valid one, too.
RevocationEndsAll == \A b \in straddled : ~Valid(session[b])

\* A code is accepted one step before or after its own, at most.
CodesWithinOneStep ==
    \A code \in Codes : Accepts(entry.secret, code) => code.off \in -1..1
=============================================================================
