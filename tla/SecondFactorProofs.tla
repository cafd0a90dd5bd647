------------------------- MODULE SecondFactorProofs -------------------------
(***************************************************************************)
(* Theorems of SecondFactor, for any number of browsers, resets and        *)
(* revocations, and one on the other way to sign in, EntraLogin.           *)
(***************************************************************************)
EXTENDS SecondFactor, Sequences, TLAPS

-----------------------------------------------------------------------------
(* Types.                                                                  *)

\* The secret that a page finds or generates (EnsureUnconfirmedSecret).
LEMMA EnsuredType ==
  ASSUME TypeOK, Ensured
  PROVE  /\ entry' \in [secret : 0..MaxSecrets, confirmed : BOOLEAN]
         /\ made' \in 0..MaxSecrets
         /\ entry'.secret \in 1..MaxSecrets
         /\ entry.secret # 0 => entry' = entry
<1>1. MaxSecrets \in Nat
  BY BoundsAssumption
<1>2. CASE entry.secret # 0 /\ UNCHANGED <<entry, made>>
  BY <1>2 DEF TypeOK
<1>3. CASE /\ entry.secret = 0
           /\ made < MaxSecrets
           /\ made' = made + 1
           /\ entry' = [secret |-> made + 1, confirmed |-> FALSE]
  BY <1>1, <1>3 DEF TypeOK
<1> QED
  BY <1>2, <1>3 DEF Ensured

LEMMA TypeInit == Init => TypeOK
BY BoundsAssumption DEF Init, TypeOK, Points, NoEntry, NoSession, None

LEMMA TypeStep == TypeOK /\ [Next]_vars => TypeOK'
<1> SUFFICES ASSUME TypeOK, [Next]_vars
             PROVE  TypeOK'
  OBVIOUS
<1>0. {Skew, MaxSecrets, MaxResets, MaxRevokes} \subseteq Nat
  BY BoundsAssumption
<1>1. ASSUME NEW b \in Browsers, LoginDirect(b) PROVE TypeOK'
  BY <1>1 DEF TypeOK, LoginDirect, Readmitted, Goto, Points, storeVars, cookies,
     boundVars
<1>2. ASSUME NEW b \in Browsers, LoginPending(b) PROVE TypeOK'
  BY <1>2 DEF TypeOK, LoginPending, Goto, Points, storeVars, boundVars, revokeVars
<1>3. ASSUME NEW b \in Browsers, LoginEnsure(b) PROVE TypeOK'
  BY <1>3, EnsuredType
     DEF TypeOK, LoginEnsure, Goto, Points, cookies, histVars
<1>4. ASSUME NEW b \in Browsers,
             PendingRefused(b) \/ EnrollPage(b) \/ NotEnrolled(b)
      PROVE TypeOK'
  BY <1>4 DEF TypeOK, PendingRefused, EnrollPage, NotEnrolled, Holds, Goto, Points,
     storeVars, cookies, boundVars, histVars
<1>5. ASSUME NEW b \in Browsers, ShowSecret(b) PROVE TypeOK'
  <2>1. app' \in SUBSET (1..MaxSecrets)
    BY <1>5, EnsuredType DEF TypeOK, ShowSecret
  <2> QED
    BY <1>5, <2>1, EnsuredType
       DEF TypeOK, ShowSecret, Goto, Points, cookies, histVars
<1>6. ASSUME NEW b \in Browsers, NEW code \in Codes,
             CheckCode(b, code) \/ WrongCode(b, code) \/ VerifyCode(b, code)
      PROVE TypeOK'
  <2>1. Accepts(entry.secret, code) => code.secret \in 0..MaxSecrets
    BY DEF Accepts, TypeOK
  <2> QED
    BY <1>6, <2>1 DEF TypeOK, CheckCode, WrongCode, VerifyCode, Readmitted, Holds, Goto,
       Points, storeVars, cookies, boundVars, histVars
<1>7. ASSUME NEW b \in Browsers, ConfirmSecret(b) PROVE TypeOK'
  BY <1>7 DEF TypeOK, ConfirmSecret, Goto, Points, cookies, boundVars, histVars
<1>8. ASSUME NEW b \in Browsers,
             IssueSession(b) \/ CreateTicket(b) \/ Attach(b) \/ IssueAttached(b)
      PROVE TypeOK'
  <2>1. [epoch |-> epoch, key |-> None]
          \in [epoch : {None} \cup 0..MaxRevokes, key : {None} \cup 0..MaxRevokes]
    BY DEF TypeOK
  <2>2. ASSUME NEW before, NEW after \in Points, ReadEpoch(b, before, after)
        PROVE TypeOK'
    BY <2>1, <2>2 DEF TypeOK, ReadEpoch, Goto, storeVars, boundVars, histVars
  <2>3. ASSUME NEW before, NEW after \in Points, Sign(b, before), Goto(b, after),
               pending'[b] \in {None, pending[b]}, ticket' = ticket,
               pending' = [pending EXCEPT ![b] = pending'[b]]
        PROVE TypeOK'
    BY <2>3 DEF TypeOK, Sign, Goto, storeVars, boundVars, histVars
  <2>4. CASE IssueSession(b)
    <3>1. CASE ReadEpoch(b, "issue", "sign")
      BY <2>2, <3>1 DEF Points
    <3>2. CASE /\ Sign(b, "sign")
               /\ pending' = [pending EXCEPT ![b] = None]
               /\ \E point \in {"in", "ticket"} : Goto(b, point)
               /\ UNCHANGED ticket
      BY <2>3, <3>2 DEF Points, TypeOK
    <3> QED
      BY <2>4, <3>1, <3>2 DEF IssueSession
  <2>5. CASE CreateTicket(b)
    BY <2>5 DEF TypeOK, CreateTicket, Goto, Points, storeVars, boundVars
  <2>6. CASE Attach(b)
    BY <2>6 DEF TypeOK, Attach, Goto, Points, storeVars, boundVars, histVars
  <2>7. CASE IssueAttached(b)
    <3>1. CASE ReadEpoch(b, "reissue", "resign")
      BY <2>2, <3>1 DEF Points
    <3>2. CASE Sign(b, "resign") /\ Goto(b, "in") /\ UNCHANGED <<pending, ticket>>
      BY <2>3, <3>2 DEF Points, TypeOK
    <3> QED
      BY <2>7, <3>1, <3>2 DEF IssueAttached
  <2> QED
    BY <1>8, <2>5, <2>6, <2>7, <2>4
<1>9. ASSUME NEW b \in Browsers, Revisit(b) \/ SignOut(b) PROVE TypeOK'
  <2>1. CASE Revisit(b)
    BY <2>1 DEF TypeOK, Revisit, Goto, Points, storeVars, cookies, boundVars, histVars
  <2>2. CASE SignOut(b)
    BY <2>2 DEF TypeOK, SignOut, Goto, Points, NoSession, storeVars, boundVars, histVars
  <2> QED
    BY <1>9, <2>1, <2>2
<1>10. CASE Reset
  BY <1>0, <1>10 DEF TypeOK, Reset, NoEntry, cookies, histVars
<1>11. CASE Require
  BY <1>11 DEF TypeOK, Require, cookies, boundVars, histVars
<1>12. CASE Revoke
  BY <1>0, <1>12 DEF TypeOK, Revoke, None, cookies, boundVars
<1>13. CASE UNCHANGED vars
  BY <1>13 DEF TypeOK, vars, storeVars, cookies, boundVars, histVars
<1> QED
  BY <1>1, <1>2, <1>3, <1>4, <1>5, <1>6, <1>7, <1>8, <1>9, <1>10, <1>11, <1>12, <1>13
     DEF Next, Request

\* The entry, the cookies and the pages of every browser keep their types.
THEOREM TypeCorrect == Spec => []TypeOK
BY TypeInit, TypeStep, PTL DEF Spec

-----------------------------------------------------------------------------
(* Who was asked for a code has given one.                                 *)

\* A code is given before the entry is marked: that is settled, too.
FactorInv ==
    \A b \in Browsers :
        pc[b] \in Identified \cup {"confirm"} => asked[b] # "yes"

LEMMA FactorStep == TypeOK /\ FactorInv /\ [Next]_vars => FactorInv'
<1> SUFFICES ASSUME TypeOK, FactorInv, [Next]_vars
             PROVE  FactorInv'
  OBVIOUS
<1> USE DEF TypeOK, FactorInv, Identified
<1>1. ASSUME NEW b \in Browsers, LoginDirect(b) \/ LoginPending(b) \/ LoginEnsure(b)
      PROVE FactorInv'
  BY <1>1 DEF LoginDirect, LoginPending, LoginEnsure, Goto, histVars
<1>2. ASSUME NEW b \in Browsers,
             PendingRefused(b) \/ EnrollPage(b) \/ NotEnrolled(b) \/ ShowSecret(b)
      PROVE FactorInv'
  BY <1>2 DEF PendingRefused, EnrollPage, NotEnrolled, ShowSecret, Goto, histVars
<1>3. ASSUME NEW b \in Browsers, NEW code \in Codes,
             CheckCode(b, code) \/ WrongCode(b, code) \/ VerifyCode(b, code)
      PROVE FactorInv'
  BY <1>3 DEF CheckCode, WrongCode, VerifyCode, Goto, histVars
<1>4. ASSUME NEW b \in Browsers, ConfirmSecret(b) \/ Revisit(b) \/ SignOut(b)
      PROVE FactorInv'
  BY <1>4 DEF ConfirmSecret, Revisit, SignOut, Goto, histVars
<1>5. ASSUME NEW b \in Browsers,
             IssueSession(b) \/ CreateTicket(b) \/ Attach(b) \/ IssueAttached(b)
      PROVE FactorInv'
  BY <1>5 DEF IssueSession, IssueAttached, ReadEpoch, Sign, CreateTicket, Attach,
     Goto, histVars
<1>6. CASE Reset \/ Require \/ Revoke \/ UNCHANGED vars
  BY <1>6 DEF Reset, Require, Revoke, vars, histVars
<1> QED
  BY <1>1, <1>2, <1>3, <1>4, <1>5, <1>6 DEF Next, Request

\* However many browsers, resets and changes of the list there are, nobody who was
\* asked for a code is let in, nor given a ticket, without one (CompleteLogin,
\* handle2FAVerify, ConfirmSecret, HandleAttach).
THEOREM FactorAlwaysGiven == Spec => []FactorGiven
<1>1. Init => FactorInv
  BY DEF Init, FactorInv
<1>2. FactorInv => FactorGiven
  BY DEF FactorInv, FactorGiven
<1> QED
  BY <1>1, <1>2, TypeInit, TypeStep, FactorStep, PTL DEF Spec

-----------------------------------------------------------------------------
(* Who was in before a revocation is out after it.                         *)

\* What a browser carries is no newer than the epoch; what one carries that had been
\* let in before the last revocation is older, unless it slipped, and no handler of
\* it is past its last check with the epoch still to be read.
Carried(b) ==
    /\ session[b].epoch <= epoch
    /\ ticket[b] <= epoch
    /\ b \in straddled \ slipped =>
         /\ session[b].epoch < epoch
         /\ ticket[b] < epoch
         /\ pc[b] \notin {"confirm", "issue", "reissue"}

RevokeInv == \A b \in Browsers : Carried(b)

\* What a browser does leaves the others as they are.
Others(b) ==
    \A c \in Browsers \ {b} :
        /\ session'[c] = session[c] /\ ticket'[c] = ticket[c] /\ pc'[c] = pc[c]
        /\ c \in straddled' \ slipped' => c \in straddled \ slipped

LEMMA RevokeStep == TypeOK /\ RevokeInv /\ [Next]_vars => RevokeInv'
<1> SUFFICES ASSUME TypeOK, RevokeInv, [Next]_vars
             PROVE  RevokeInv'
  OBVIOUS
<1>0. /\ epoch \in Nat
      /\ \A b \in Browsers :
           session[b].epoch \in Int /\ ticket[b] \in Int
  BY BoundsAssumption DEF TypeOK, None
<1>a. ASSUME NEW b \in Browsers, UNCHANGED epoch, Others(b), Carried(b)'
      PROVE  RevokeInv'
  BY <1>a DEF RevokeInv, Carried, Others
<1>b. ASSUME NEW b \in Browsers, UNCHANGED epoch, Others(b),
             session'[b].epoch = session[b].epoch, ticket'[b] = ticket[b],
             b \in straddled' \ slipped' =>
               /\ b \in straddled \ slipped
               /\ pc'[b] \notin {"confirm", "issue", "reissue"}
      PROVE  RevokeInv'
  BY <1>a, <1>b DEF RevokeInv, Carried
<1>1. ASSUME NEW b \in Browsers, LoginPending(b) \/ LoginEnsure(b)
      PROVE RevokeInv'
  <2>1. UNCHANGED <<epoch, session, ticket, straddled, slipped>> /\ Others(b)
    BY <1>1 DEF TypeOK, Others, LoginPending, LoginEnsure, Goto, storeVars, cookies,
       histVars, revokeVars
  <2>2. pc'[b] \in {"challenge", "ensure", "page"}
    BY <1>1 DEF TypeOK, LoginPending, LoginEnsure, Goto
  <2> QED
    BY <1>b, <2>1, <2>2
<1>2. ASSUME NEW b \in Browsers,
             \/ PendingRefused(b) \/ EnrollPage(b) \/ NotEnrolled(b) \/ ShowSecret(b)
             \/ \E code \in Codes : WrongCode(b, code)
      PROVE RevokeInv'
  <2>1. UNCHANGED <<epoch, session, ticket, straddled, slipped>> /\ Others(b)
    BY <1>2 DEF TypeOK, Others, PendingRefused, EnrollPage, NotEnrolled, ShowSecret,
       WrongCode, Goto, storeVars, cookies, histVars
  <2>2. pc'[b] \in {"login", "challenge", "show", "page", "form"}
    BY <1>2 DEF TypeOK, PendingRefused, EnrollPage, NotEnrolled, ShowSecret, WrongCode,
       Goto
  <2> QED
    BY <1>b, <2>1, <2>2
<1>3. ASSUME NEW b \in Browsers,
             \/ LoginDirect(b)
             \/ \E code \in Codes : CheckCode(b, code) \/ VerifyCode(b, code)
      PROVE RevokeInv'
  <2>1. UNCHANGED <<epoch, session, ticket>> /\ Others(b) /\ b \notin straddled'
    BY <1>3 DEF TypeOK, Others, LoginDirect, CheckCode, VerifyCode, Readmitted, Goto,
       storeVars, cookies
  <2> QED
    BY <1>b, <2>1
<1>4. ASSUME NEW b \in Browsers, ConfirmSecret(b) \/ Revisit(b)
      PROVE RevokeInv'
  <2>1. UNCHANGED <<epoch, session, ticket, straddled, slipped>> /\ Others(b)
    BY <1>4 DEF TypeOK, Others, ConfirmSecret, Revisit, Goto, storeVars, cookies,
       histVars
  <2>2. pc[b] = "confirm" \/ pc'[b] = "attach"
    BY <1>4 DEF TypeOK, ConfirmSecret, Revisit, Goto
  <2>3. pc[b] = "confirm" => b \notin straddled \ slipped
    BY DEF RevokeInv, Carried
  <2> QED
    BY <1>b, <2>1, <2>2, <2>3
<1>5. ASSUME NEW b \in Browsers, SignOut(b) PROVE RevokeInv'
  <2>1. UNCHANGED <<epoch, straddled, slipped>> /\ Others(b)
    BY <1>5 DEF TypeOK, Others, SignOut, Goto, storeVars, histVars
  <2>2. session'[b].epoch = None /\ ticket'[b] = None /\ pc'[b] = "login"
    BY <1>5 DEF TypeOK, SignOut, Goto, NoSession
  <2>3. Carried(b)'
    BY <1>0, <2>1, <2>2 DEF Carried, None
  <2> QED
    BY <1>a, <2>1, <2>3
<1>6. ASSUME NEW b \in Browsers, NEW before \in {"issue", "reissue"},
             NEW after \in {"sign", "resign"}, ReadEpoch(b, before, after)
      PROVE  RevokeInv'
  <2>1. UNCHANGED <<epoch, ticket, straddled, slipped>> /\ Others(b)
    BY <1>6 DEF TypeOK, Others, ReadEpoch, Goto, storeVars, histVars
  <2>2. session'[b].epoch = epoch
    BY <1>6 DEF TypeOK, ReadEpoch
  <2>3. b \notin straddled \ slipped
    BY <1>6 DEF RevokeInv, Carried, ReadEpoch
  <2>4. Carried(b)'
    BY <1>0, <2>1, <2>2, <2>3 DEF RevokeInv, Carried
  <2> QED
    BY <1>a, <2>1, <2>4
<1>7. ASSUME NEW b \in Browsers, NEW before, Sign(b, before), UNCHANGED ticket,
             NEW point \in {"in", "ticket"}, Goto(b, point)
      PROVE  RevokeInv'
  <2>1. UNCHANGED <<epoch, straddled, slipped>> /\ Others(b)
    BY <1>7 DEF TypeOK, Others, Sign, Goto, storeVars, histVars
  <2>2. session'[b].epoch = session[b].epoch /\ pc'[b] = point
    BY <1>7 DEF TypeOK, Sign, Goto
  <2> QED
    BY <1>7, <1>b, <2>1, <2>2
<1>8. ASSUME NEW b \in Browsers, CreateTicket(b) PROVE RevokeInv'
  <2>1. UNCHANGED <<epoch, session, straddled>> /\ Others(b)
    BY <1>8 DEF TypeOK, Others, CreateTicket, Goto, storeVars
  <2>2. ticket'[b] = epoch /\ b \notin straddled' \ slipped'
    BY <1>8 DEF TypeOK, CreateTicket
  <2>3. Carried(b)'
    BY <1>0, <2>1, <2>2 DEF RevokeInv, Carried
  <2> QED
    BY <1>a, <2>1, <2>3
<1>9. ASSUME NEW b \in Browsers, Attach(b) PROVE RevokeInv'
  <2>1. UNCHANGED <<epoch, session, straddled, slipped>> /\ Others(b)
    BY <1>9 DEF TypeOK, Others, Attach, Goto, storeVars, histVars
  <2>2. CASE ticket[b] = epoch
    <3>1. UNCHANGED ticket /\ b \notin straddled \ slipped
      BY <1>0, <1>9, <2>2 DEF RevokeInv, Carried, Attach
    <3> QED
      BY <1>b, <2>1, <3>1
  <2>3. CASE ticket[b] # epoch
    <3>1. ticket'[b] = None /\ pc'[b] = "login"
      BY <1>9, <2>3 DEF TypeOK, Attach, Goto
    <3>2. Carried(b)'
      BY <1>0, <2>1, <3>1 DEF RevokeInv, Carried, None
    <3> QED
      BY <1>a, <2>1, <3>2
  <2> QED
    BY <2>2, <2>3
<1>10. CASE Reset \/ Require \/ UNCHANGED vars
  BY <1>10 DEF RevokeInv, Carried, Reset, Require, vars, storeVars, cookies, histVars
<1>11. CASE Revoke
  <2>1. /\ epoch' = epoch + 1
        /\ UNCHANGED <<pc, session, ticket>>
        /\ \A b \in Browsers :
             pc[b] \in {"confirm", "issue", "reissue"} => b \in slipped'
    BY <1>11 DEF Revoke, cookies
  <2>2. ASSUME NEW b \in Browsers
        PROVE  session[b].epoch < epoch + 1 /\ ticket[b] < epoch + 1
    BY <1>0 DEF RevokeInv, Carried
  <2> QED
    BY <1>0, <2>1, <2>2 DEF RevokeInv, Carried
<1>12. ASSUME NEW b \in Browsers, IssueSession(b) \/ IssueAttached(b)
       PROVE  RevokeInv'
  <2>1. CASE ReadEpoch(b, "issue", "sign") \/ ReadEpoch(b, "reissue", "resign")
    BY <1>6, <2>1
  <2>2. CASE ~(ReadEpoch(b, "issue", "sign") \/ ReadEpoch(b, "reissue", "resign"))
    BY <1>7, <1>12, <2>2 DEF IssueSession, IssueAttached
  <2> QED
    BY <2>1, <2>2
<1> QED
  BY <1>1, <1>2, <1>3, <1>4, <1>5, <1>8, <1>9, <1>10, <1>11, <1>12
     DEF Next, Request

\* A revocation ends, for any number of browsers and of revocations, the sessions of
\* all who had been let in before it and the tickets signed before it, those being
\* signed and those used again included; only a handler past its last check that
\* read the epoch or signed a ticket after the revocation is beyond it
\* (IssueSession, CreateTicket, verifyTicket, RevokeAllSessions).
THEOREM RevocationEndsSessions == Spec => []RevokedStayOut
<1>1. Init => RevokeInv
  <2>1. NoSession.epoch = None /\ None <= 0
    BY DEF NoSession, None
  <2> QED
    BY <2>1 DEF Init, RevokeInv, Carried
<1>2. TypeOK /\ RevokeInv => RevokedStayOut
  <2>1. ASSUME TypeOK, RevokeInv, NEW b \in straddled \ slipped
        PROVE  ~Valid(session[b])
    <3>1. b \in Browsers /\ session[b].epoch < epoch /\ epoch \in Int
      BY <2>1, BoundsAssumption DEF TypeOK, RevokeInv, Carried
    <3>2. session[b].epoch \in Int
      BY <2>1, <3>1, BoundsAssumption DEF TypeOK, None
    <3> QED
      BY <3>1, <3>2 DEF Valid
  <2> QED
    BY <2>1 DEF RevokedStayOut
<1> QED
  BY <1>1, <1>2, TypeInit, TypeStep, RevokeStep, PTL DEF Spec

-----------------------------------------------------------------------------
(* Enrolments do not cross.                                                *)

\* While nobody resets the device, an entry that is confirmed, or about to be,
\* holds a secret a code was given for, and is not replaced.
EnrolInv ==
    resets = 0 /\ (entry.confirmed \/ \E b \in Browsers : pc[b] = "confirm")
        => entry.secret # 0 /\ entry.secret \in proven

LEMMA EnrolStep == TypeOK /\ EnrolInv /\ [Next]_vars => EnrolInv'
<1> SUFFICES ASSUME TypeOK, EnrolInv, [Next]_vars
             PROVE  EnrolInv'
  OBVIOUS
<1>1. ASSUME NEW b \in Browsers,
             \/ LoginDirect(b) \/ LoginPending(b) \/ PendingRefused(b)
             \/ EnrollPage(b) \/ NotEnrolled(b) \/ Revisit(b) \/ SignOut(b)
      PROVE EnrolInv'
  BY <1>1 DEF TypeOK, EnrolInv, LoginDirect, LoginPending, PendingRefused, EnrollPage,
     NotEnrolled, Revisit, SignOut, Goto, storeVars, cookies, boundVars, histVars
<1>2. ASSUME NEW b \in Browsers, LoginEnsure(b) \/ ShowSecret(b) PROVE EnrolInv'
  <2>1. /\ UNCHANGED <<resets, proven>>
        /\ \A c \in Browsers : pc'[c] = "confirm" => pc[c] = "confirm"
    BY <1>2 DEF TypeOK, LoginEnsure, ShowSecret, Goto, histVars
  <2>2. entry.secret = 0 => ~entry'.confirmed \/ entry' = entry
    BY <1>2 DEF LoginEnsure, ShowSecret, Ensured
  <2> QED
    BY <1>2, <2>1, <2>2, EnsuredType DEF EnrolInv, LoginEnsure, ShowSecret
<1>3. ASSUME NEW b \in Browsers, NEW code \in Codes,
             CheckCode(b, code) \/ WrongCode(b, code) \/ VerifyCode(b, code)
      PROVE EnrolInv'
  BY <1>3 DEF TypeOK, EnrolInv, CheckCode, WrongCode, VerifyCode, Accepts, Goto,
     storeVars, boundVars, histVars
<1>4. ASSUME NEW b \in Browsers, ConfirmSecret(b) PROVE EnrolInv'
  BY <1>4 DEF TypeOK, EnrolInv, ConfirmSecret, Goto, boundVars, histVars
<1>5. ASSUME NEW b \in Browsers,
             IssueSession(b) \/ CreateTicket(b) \/ Attach(b) \/ IssueAttached(b)
      PROVE EnrolInv'
  BY <1>5 DEF TypeOK, EnrolInv, IssueSession, IssueAttached, ReadEpoch, Sign,
     CreateTicket, Attach, Goto, storeVars, boundVars, histVars
<1>6. CASE Reset
  BY <1>6, BoundsAssumption DEF TypeOK, EnrolInv, Reset
<1>7. CASE Require \/ Revoke \/ UNCHANGED vars
  BY <1>7 DEF EnrolInv, Require, Revoke, vars, storeVars, boundVars, histVars
<1> QED
  BY <1>1, <1>2, <1>3, <1>4, <1>5, <1>6, <1>7 DEF Next, Request

\* Any number of browsers may enrol at once: the secret that is confirmed is one
\* that the user has (EnsureUnconfirmedSecret, ConfirmSecret).
THEOREM EnrolmentsDoNotCross == Spec => []EnrolmentProven
<1>1. Init => EnrolInv
  BY DEF Init, EnrolInv, NoEntry
<1>2. EnrolInv => EnrolmentProven
  BY DEF EnrolInv, EnrolmentProven, ConfirmedWasProven
<1> QED
  BY <1>1, <1>2, TypeInit, TypeStep, EnrolStep, PTL DEF Spec

-----------------------------------------------------------------------------
(* The sign-in with Microsoft Entra.                                       *)

CONSTANTS Nonce, Salt, Verifier, ReturnURL

VARIABLES oauth, verifier, reload, page, state, sentState

Entra ==
    INSTANCE EntraLogin
    WITH rpc <- reload, pc <- page, cookie <- state, sent <- sentState

LEMMA ConcatLength ==
  ASSUME NEW L, NEW a \in Seq(L), NEW b \in Seq(L)
  PROVE  a \o b \in Seq(L) /\ Len(a \o b) = Len(a) + Len(b)
OBVIOUS

\* What was sent to the provider is longer than the cookie it is looked for in.
LEMMA OwnStateRefused == ~Entra!StateMatches(Entra!State, Entra!SentState)
<1> DEFINE L == {Nonce, Salt, Verifier, ReturnURL, "|", "."}
           dot == <<".">>
           prefix == <<Salt, ".">>
           needle == dot \o Entra!SentState
<1>1. Entra!State \in Seq(L) /\ Len(Entra!State) = 5
  BY DEF Entra!State
<1>2. dot \in Seq(L) /\ Len(dot) = 1
  OBVIOUS
<1>3. prefix \in Seq(L) /\ Len(prefix) = 2 /\ Entra!SentState = prefix \o Entra!State
  BY DEF Entra!SentState
<1> HIDE DEF L, dot, prefix
<1>4. Entra!SentState \in Seq(L) /\ Len(Entra!SentState) = 7
  <2>1. prefix \o Entra!State \in Seq(L) /\ Len(prefix \o Entra!State) = 2 + 5
    BY <1>1, <1>3, ConcatLength
  <2> QED
    BY <1>3, <2>1
<1>5. needle \in Seq(L) /\ Len(needle) = 8
  <2>1. dot \o Entra!SentState \in Seq(L) /\ Len(dot \o Entra!SentState) = 1 + 7
    BY <1>2, <1>4, ConcatLength
  <2> QED
    BY <2>1
<1>6. ASSUME NEW s \in Seq(L) PROVE Len(Entra!Reverse(s)) = Len(s)
  <2>1. Len(s) \in Nat
    OBVIOUS
  <2> QED
    BY <2>1 DEF Entra!Reverse
<1> HIDE DEF needle
<1>7. Len(Entra!Reverse(needle)) = 8 /\ Len(Entra!Reverse(Entra!State)) = 5
  BY <1>1, <1>5, <1>6
<1>8. ~Entra!IsSuffix(needle, Entra!State)
  BY <1>7 DEF Entra!IsSuffix, Entra!IsPrefix
<1> QED
  BY <1>8 DEF needle, dot, Entra!StateMatches

\* What a browser carries, from StartEntraLogin to the check of the callback.
EntraInv ==
    \A b \in Browsers :
      /\ page[b] \in {"provider", "check"} => sentState[b] = Entra!SentState
      /\ state[b] \in {<<>>, Entra!State}
      /\ page[b] \notin {"exchange", "in"}

LEMMA EntraStep ==
  ASSUME Entra!TypeOK, EntraInv, [Entra!Next]_(Entra!vars)
  PROVE  Entra!TypeOK' /\ EntraInv'
<1> HIDE DEF Entra!State, Entra!SentState
<1>1. CASE Entra!Reload \/ Entra!Discover \/ Entra!Clear \/ Entra!SetProvider
  BY <1>1 DEF Entra!TypeOK, EntraInv, Entra!Reload, Entra!Discover, Entra!Clear,
     Entra!SetProvider, Entra!browserVars
<1>2. ASSUME NEW b \in Browsers, Entra!Start(b) \/ Entra!CallbackFails(b)
      PROVE  Entra!TypeOK' /\ EntraInv'
  BY <1>2 DEF Entra!TypeOK, EntraInv, Entra!Start, Entra!CallbackFails, Entra!Goto,
     Entra!Points, Entra!providerVars
<1>3. ASSUME NEW b \in Browsers, Entra!Redirect(b)
      PROVE  Entra!TypeOK' /\ EntraInv'
  BY <1>3 DEF Entra!TypeOK, EntraInv, Entra!Redirect, Entra!Goto, Entra!Points,
     Entra!providerVars
<1>4. ASSUME NEW b \in Browsers, Entra!Callback(b)
      PROVE  Entra!TypeOK' /\ EntraInv'
  BY <1>4 DEF Entra!TypeOK, EntraInv, Entra!Callback, Entra!Goto, Entra!Points,
     Entra!providerVars
<1>5. ASSUME NEW b \in Browsers, Entra!CheckState(b)
      PROVE  Entra!TypeOK' /\ EntraInv'
  <2>1. state[b] = Entra!State /\ sentState[b] = Entra!SentState
    BY <1>5 DEF EntraInv, Entra!CheckState
  <2>2. ~Entra!StateMatches(state[b], sentState[b])
    BY <2>1, OwnStateRefused
  <2>3. page' = [page EXCEPT ![b] = "refused"]
        /\ UNCHANGED <<oauth, verifier, reload, state, sentState>>
    BY <1>5, <2>2 DEF Entra!CheckState, Entra!Goto, Entra!providerVars
  <2> QED
    BY <2>3 DEF Entra!TypeOK, EntraInv, Entra!Points
<1>6. ASSUME NEW b \in Browsers, Entra!Exchange(b)
      PROVE  FALSE
  BY <1>6 DEF EntraInv, Entra!Exchange
<1>7. CASE UNCHANGED Entra!vars
  BY <1>7 DEF Entra!TypeOK, EntraInv, Entra!vars, Entra!providerVars, Entra!browserVars
<1> QED
  BY <1>1, <1>2, <1>3, <1>4, <1>5, <1>6, <1>7 DEF Entra!Next

\* Nobody ever signs in with Entra, whatever the tokens are and whatever Reload
\* does meanwhile: no browser passes the check of its own state, and none comes
\* to the exchange of the code behind it (StartEntraLogin, HandleCallback).
THEOREM NobodySignsIn ==
  Entra!Spec => [](\A b \in Browsers : page[b] \notin {"exchange", "in"})
<1>1. Entra!Init => Entra!TypeOK /\ EntraInv
  BY DEF Entra!Init, Entra!TypeOK, EntraInv, Entra!Points
<1>2. Entra!TypeOK /\ EntraInv /\ [Entra!Next]_(Entra!vars)
        => Entra!TypeOK' /\ EntraInv'
  BY EntraStep
<1>3. EntraInv => \A b \in Browsers : page[b] \notin {"exchange", "in"}
  BY DEF EntraInv
<1> QED
  BY <1>1, <1>2, <1>3, PTL DEF Entra!Spec
=============================================================================
