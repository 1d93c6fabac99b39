-------------------------------- MODULE Links --------------------------------
(* The links a confirmation carries (booking-token.service.ts), the account a *)
(* guest gets by following one (guest-attach.service.ts) and the stay that is *)
(* attached to it. Better Auth writes the account on connections of its own,  *)
(* so a follow is several transactions: any step of another call, a crash or  *)
(* a refusal comes between them, and all of them draw from one pool.          *)
EXTENDS Naturals, FiniteSets, Functions

CONSTANTS
    Stays,       \* bookings
    Addresses,   \* mail addresses; guest_user_email_lower_key: one account each
    Links,       \* rows of booking_link
    Calls,       \* requests that follow an account link at the same time
    Connections, \* database.module.ts, MAX_CONNECTIONS
    Nobody       \* no owner, no address

ASSUME PoolAssumption == Connections \in Nat \ {0}
ASSUME NobodyAssumption == Nobody \notin Stays \cup Addresses \cup Links
ASSUME LinksAssumption == IsFiniteSet(Links)

VARIABLES
    stay,     \* booking: state, contact, owner, surrendered credential; a browser's cookie
    link,     \* booking_link, the address it was mailed to, and whether the stay was held
    account,  \* guest_user by address
    maker,    \* the link whose call made the account, for the properties
    call,     \* where each follow is
    answers   \* what the pages were told

vars == <<stay, link, account, maker, call, answers>>

Idle == [at |-> "IDLE", link |-> Nobody, address |-> Nobody, signsIn |-> FALSE]

TypeOK ==
    /\ stay \in [Stays -> [state : {"UNMADE", "HELD", "CONFIRMED"}, contact : Addresses \cup {Nobody},
                           owner : Addresses \cup {Nobody}, surrendered : BOOLEAN, cookie : BOOLEAN]]
    /\ link \in [Links -> [stay : Stays \cup {Nobody}, purpose : {"STAY_REISSUE", "ACCOUNT_CREATE"},
                           to : Addresses \cup {Nobody}, onHold : BOOLEAN,
                           status : {"OPEN", "CONSUMED", "EXPIRED"}]]
    /\ account \in [Addresses -> {"NONE", "UNVERIFIED", "VERIFIED"}]
    /\ maker \in [Addresses -> Links \cup {Nobody}]
    /\ call \in [Calls -> [at : {"IDLE", "OFFERED", "MISSING", "MADE", "READY", "BEGUN", "SPENT", "ATTACHED"},
                           link : Links \cup {Nobody}, address : Addresses \cup {Nobody}, signsIn : BOOLEAN]]
    /\ answers \subseteq [link : Links, address : Addresses, signsIn : BOOLEAN]

Init ==
    /\ stay = [s \in Stays |-> [state |-> "UNMADE", contact |-> Nobody, owner |-> Nobody,
                                surrendered |-> FALSE, cookie |-> FALSE]]
    /\ link = [l \in Links |-> [stay |-> Nobody, purpose |-> "STAY_REISSUE", to |-> Nobody,
                                onHold |-> FALSE, status |-> "OPEN"]]
    /\ account = [a \in Addresses |-> "NONE"]
    /\ maker = [a \in Addresses |-> Nobody]
    /\ call = [c \in Calls |-> Idle]
    /\ answers = {}

-----------------------------------------------------------------------------
(* The pool and the rows *)

\* Mutant: the transaction is opened before Better Auth is asked.
HeldTooLong == {"OFFERED", "MISSING", "MADE", "READY", "BEGUN", "SPENT"}

\* Where a call holds a connection from one step to the next. Every other statement
\* gives its connection straight back.
InTransaction == {"BEGUN", "SPENT"}

FreeConnection == Cardinality({c \in Calls : call[c].at \in InTransaction}) < Connections

\* liveLink
Live(l, purpose) ==
    /\ link[l].stay # Nobody
    /\ link[l].purpose = purpose
    /\ link[l].status = "OPEN"
    /\ ~stay[link[l].stay].surrendered

\* Rows to come. Which one a mint takes is nobody's matter: ids are random.
Unminted == {l \in Links : link[l].stay = Nobody}

\* mintLink
Row(s, purpose, state) ==
    [stay |-> s, purpose |-> purpose, to |-> stay[s].contact, onHold |-> state = "HELD",
     status |-> "OPEN"]

\* requireEmailVerification: only a verified account signs in.
SignedIn == {a \in Addresses : account[a] = "VERIFIED"}

\* attachToAccount's comparison, under the booking's row lock.
MayOwn(s, a) == stay[s].owner \in {Nobody, a}

\* attachToAccount's writes: the owner, and then the credential.
Attached(s, a) == [stay EXCEPT ![s].owner = a, ![s].surrendered = TRUE]

-----------------------------------------------------------------------------
(* The stay before anybody follows anything *)

\* createHold: a signed-in guest's hold is filed under the account. The browser
\* of either is handed the credential.
CreateHold(s, owner) ==
    /\ FreeConnection
    /\ stay[s].state = "UNMADE"
    /\ owner \in {Nobody} \cup SignedIn
    /\ stay' = [stay EXCEPT ![s].state = "HELD", ![s].owner = owner, ![s].cookie = TRUE]
    /\ UNCHANGED <<link, account, maker, call, answers>>

\* The desk's booking is filed under nobody, mailed to nobody and given no cookie.
CreateConfirmed(s, contact) ==
    /\ FreeConnection
    /\ stay[s].state = "UNMADE"
    /\ stay' = [stay EXCEPT ![s].state = "CONFIRMED", ![s].contact = contact]
    /\ UNCHANGED <<link, account, maker, call, answers>>

\* scopedTo: the credential while it stands, or the session of the owner.
OwnStay(s) ==
    \/ stay[s].cookie /\ ~stay[s].surrendered
    \/ stay[s].owner \in SignedIn

\* Mutant: the address may be rewritten after the mail went to it.
MayRenameLater == {"HELD", "CONFIRMED"}

MayRename == {"HELD"}

SetHoldContact(s, a) ==
    /\ FreeConnection
    /\ stay[s].state \in MayRename
    /\ OwnStay(s)
    /\ stay' = [stay EXCEPT ![s].contact = a]
    /\ UNCHANGED <<link, account, maker, call, answers>>

\* announce: the links a confirmation's mail carries.
Offered(s) ==
    IF stay[s].contact = Nobody \/ stay[s].surrendered THEN {}
    ELSE IF account[stay[s].contact] # "NONE" THEN {"STAY_REISSUE"}
    ELSE {"STAY_REISSUE", "ACCOUNT_CREATE"}

\* confirm: the links are rows of the transaction that confirms.
Confirm(s) ==
    /\ FreeConnection
    /\ stay[s].state = "HELD"
    /\ Cardinality(Unminted) >= Cardinality(Offered(s))
    /\ LET row == CHOOSE f \in [Offered(s) -> Unminted] : IsInjective(f) IN
       link' = [l \in Links |->
                  IF \E p \in Offered(s) : row[p] = l
                  THEN Row(s, CHOOSE p \in Offered(s) : row[p] = l, "CONFIRMED")
                  ELSE link[l]]
    /\ stay' = [stay EXCEPT ![s].state = "CONFIRMED"]
    /\ UNCHANGED <<account, maker, call, answers>>

\* account-link-resend.service.ts, at the desk.
Resend(s) ==
    /\ FreeConnection
    /\ stay[s].state # "UNMADE"
    /\ stay[s].contact # Nobody
    /\ stay[s].owner = Nobody
    /\ ~stay[s].surrendered
    /\ account[stay[s].contact] = "NONE"
    /\ Unminted # {}
    /\ link' = [link EXCEPT ![CHOOSE l \in Unminted : TRUE] = Row(s, "ACCOUNT_CREATE", stay[s].state)]
    /\ UNCHANGED <<stay, account, maker, call, answers>>

\* expires_at passes; a spent row is refused whatever its age.
Expire(l) ==
    /\ link[l].stay # Nobody
    /\ link[l].status = "OPEN"
    /\ link' = [link EXCEPT ![l].status = "EXPIRED"]
    /\ UNCHANGED <<stay, account, maker, call, answers>>

-----------------------------------------------------------------------------
(* One statement or one transaction: the guest's other doors *)

\* redeemStayLink: spent by the asking, and the browser has the cookie again.
RedeemStayLink(l) ==
    /\ FreeConnection
    /\ Live(l, "STAY_REISSUE")
    /\ link' = [link EXCEPT ![l].status = "CONSUMED"]
    /\ stay' = [stay EXCEPT ![link[l].stay].cookie = TRUE]
    /\ UNCHANGED <<account, maker, call, answers>>

\* attachProvenStay: a session proves the account and the cookie the stay. The
\* cookie is verified by arithmetic, whether or not it was given up.
AttachProvenStay(s, a) ==
    /\ FreeConnection
    /\ stay[s].cookie
    /\ a \in SignedIn
    /\ MayOwn(s, a)
    /\ stay' = Attached(s, a)
    /\ UNCHANGED <<link, account, maker, call, answers>>

\* The realm's own sign-up, and the verification it mails.
SignUp(a) ==
    /\ FreeConnection
    /\ account[a] = "NONE"
    /\ account' = [account EXCEPT ![a] = "UNVERIFIED"]
    /\ UNCHANGED <<stay, link, maker, call, answers>>

VerifyAddress(a) ==
    /\ FreeConnection
    /\ account[a] = "UNVERIFIED"
    /\ account' = [account EXCEPT ![a] = "VERIFIED"]
    /\ UNCHANGED <<stay, link, maker, call, answers>>

-----------------------------------------------------------------------------
(* accountFromLink, statement by statement *)

At(c, at) == call[c].at = at

\* offeredBy: read on a connection given straight back. A dead link is refused here.
ReadLink(c, l) ==
    /\ FreeConnection
    /\ At(c, "IDLE")
    /\ Live(l, "ACCOUNT_CREATE")
    /\ call' = [call EXCEPT ![c] = [at |-> "OFFERED", link |-> l,
                                    address |-> stay[link[l].stay].contact, signsIn |-> FALSE]]
    /\ UNCHANGED <<stay, link, account, maker, answers>>

\* accountForAddress
FindAccount(c) ==
    /\ FreeConnection
    /\ At(c, "OFFERED")
    /\ call' = [call EXCEPT ![c].at = IF account[call[c].address] = "NONE" THEN "MISSING" ELSE "READY"]
    /\ UNCHANGED <<stay, link, account, maker, answers>>

\* Mutant: the loser of the race verifies and signs in too.
CreateUserRaced(c) ==
    /\ FreeConnection
    /\ At(c, "MISSING")
    /\ LET a == call[c].address IN
       /\ account' = [account EXCEPT ![a] = IF @ = "NONE" THEN "UNVERIFIED" ELSE @]
       /\ maker' = [maker EXCEPT ![a] = IF account[a] = "NONE" THEN call[c].link ELSE @]
       /\ call' = [call EXCEPT ![c].at = "MADE"]
    /\ UNCHANGED <<stay, link, answers>>

\* createdFor: the unique index decides between two that found nothing.
CreateUser(c) ==
    /\ FreeConnection
    /\ At(c, "MISSING")
    /\ LET a == call[c].address IN
       \/ /\ account[a] = "NONE"
          /\ account' = [account EXCEPT ![a] = "UNVERIFIED"]
          /\ maker' = [maker EXCEPT ![a] = call[c].link]
          /\ call' = [call EXCEPT ![c].at = "MADE"]
       \/ /\ account[a] # "NONE"
          /\ call' = [call EXCEPT ![c].at = "READY"]
          /\ UNCHANGED <<account, maker>>
    /\ UNCHANGED <<stay, link, answers>>

\* verifyAndSignIn: Better Auth's own transaction, which may decline to sign in; the
\* cookies wait for the attach.
VerifyAndSignIn(c) ==
    /\ FreeConnection
    /\ At(c, "MADE")
    /\ account' = [account EXCEPT ![call[c].address] = "VERIFIED"]
    /\ \E signsIn \in BOOLEAN :
         call' = [call EXCEPT ![c].at = "READY", ![c].signsIn = signsIn]
    /\ UNCHANGED <<stay, link, maker, answers>>

\* transactions.run
BeginAttach(c) ==
    /\ FreeConnection
    /\ At(c, "READY")
    /\ call' = [call EXCEPT ![c].at = "BEGUN"]
    /\ UNCHANGED <<stay, link, account, maker, answers>>

\* The row of the link is locked until the other transaction ends.
RowIsFree(c) == ~ \E d \in Calls : At(d, "SPENT") /\ call[d].link = call[c].link

\* Mutant: what was read is trusted, and spent without asking again.
SpendUnread(c) ==
    /\ At(c, "BEGUN")
    /\ RowIsFree(c)
    /\ call' = [call EXCEPT ![c].at = "SPENT"]
    /\ UNCHANGED <<stay, link, account, maker, answers>>

\* redeemAccountLink: it waits for the row of the link and tests it again.
Spend(c) ==
    /\ At(c, "BEGUN")
    /\ RowIsFree(c)
    /\ call' = [call EXCEPT ![c] = IF Live(call[c].link, "ACCOUNT_CREATE")
                                   THEN [@ EXCEPT !.at = "SPENT"] ELSE Idle]
    /\ UNCHANGED <<stay, link, account, maker, answers>>

\* attachToAccount under the booking's row, and the commit: the link is spent and
\* the stay attached together, or neither.
Attach(c) ==
    /\ At(c, "SPENT")
    /\ LET l == call[c].link  s == link[l].stay  a == call[c].address IN
       \/ /\ MayOwn(s, a)
          /\ stay' = Attached(s, a)
          /\ link' = [link EXCEPT ![l].status = "CONSUMED"]
          /\ call' = [call EXCEPT ![c].at = "ATTACHED"]
       \/ /\ ~MayOwn(s, a)
          /\ call' = [call EXCEPT ![c] = Idle]
          /\ UNCHANGED <<stay, link>>
    /\ UNCHANGED <<account, maker, answers>>

\* guest-attach.controller.ts: the cookies are appended once all of it is in.
Answer(c) ==
    /\ At(c, "ATTACHED")
    /\ answers' = answers \cup {[link |-> call[c].link, address |-> call[c].address,
                                 signsIn |-> call[c].signsIn]}
    /\ call' = [call EXCEPT ![c] = Idle]
    /\ UNCHANGED <<stay, link, account, maker>>

\* The process, a connection or the patience of a caller is gone; PostgreSQL rolls
\* back what was open, and what Better Auth wrote stays.
Fail(c) ==
    /\ ~At(c, "IDLE")
    /\ call' = [call EXCEPT ![c] = Idle]
    /\ UNCHANGED <<stay, link, account, maker, answers>>

Proceed(c) ==
    \/ FindAccount(c) \/ CreateUser(c) \/ VerifyAndSignIn(c)
    \/ BeginAttach(c) \/ Spend(c) \/ Attach(c) \/ Answer(c)

Next ==
    \/ \E s \in Stays :
         \/ \E owner \in Addresses \cup {Nobody} : CreateHold(s, owner)
         \/ \E contact \in Addresses \cup {Nobody} : CreateConfirmed(s, contact)
         \/ \E a \in Addresses : SetHoldContact(s, a) \/ AttachProvenStay(s, a)
         \/ Confirm(s) \/ Resend(s)
    \/ \E l \in Links : Expire(l) \/ RedeemStayLink(l)
    \/ \E a \in Addresses : SignUp(a) \/ VerifyAddress(a)
    \/ \E c \in Calls : Proceed(c) \/ Fail(c) \/ \E l \in Links : ReadLink(c, l)

Spec == Init /\ [][Next]_vars

-----------------------------------------------------------------------------
(* What the guest is owed *)

\* A page is told once per link that the stay is attached. The stay is then owned by
\* the account of the address that link was mailed to, for good, and its anonymous
\* credential gone; a session comes only with the link whose call made the account
\* (accountFromLink, accountFor). Excepted is the address of a link the desk sent
\* for a hold: its guest may name another one before paying.
AnswersAreAttaches ==
    /\ \A r \in answers :
         LET s == stay[link[r.link].stay] IN
         /\ link[r.link].status = "CONSUMED"
         /\ s.owner = r.address /\ s.surrendered
         /\ r.address = link[r.link].to \/ link[r.link].onHold
         /\ r.signsIn => maker[r.address] = r.link
         /\ \A c \in Calls : At(c, "ATTACHED") => call[c].link # r.link
    /\ \A c, d \in Calls :
         At(c, "ATTACHED") /\ At(d, "ATTACHED") /\ c # d => call[c].link # call[d].link

\* The guards of the steps of a follow: outside a transaction a step needs a
\* connection, the first one inside it the row of the link, and the rest nothing.
CanGoOn(c) ==
    \/ call[c].at \in {"OFFERED", "MISSING", "MADE", "READY"} /\ FreeConnection
    \/ At(c, "BEGUN") /\ RowIsFree(c)
    \/ call[c].at \in {"SPENT", "ATTACHED"}

SomeFollowGoesOn == (\E c \in Calls : ~At(c, "IDLE")) => \E c \in Calls : CanGoOn(c)

\* The pool never runs dry of its own calls (guest-attach.service.ts, "Why the
\* account is created between two transactions"): while a link is being followed,
\* one of the follows can go on without any of them giving up. The guards are
\* what the proof is of; that they are the steps' is checked with them.
PoolNeverStarves ==
    /\ SomeFollowGoesOn
    /\ \A c \in Calls : CanGoOn(c) <=> ENABLED Proceed(c)
=============================================================================
