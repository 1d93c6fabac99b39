----------------------------- MODULE LinksProofs -----------------------------
(* What the page of a followed link said stays so, for any number of stays,
   addresses, links, follows and connections.

   The induction carries what was true of the rows when each step of a follow
   was reached: a link never changes its stay, its purpose or its address; who
   made an account is decided once; the row of a link admits one follow between
   its test and the commit; and an owner, once there, is never another.       *)
EXTENDS Links, FiniteSetTheorems, TLAPS

(* A row that was minted is of a stay with an address, which is the one it was
   mailed to unless it was sent for a hold.                                   *)
Minted(l) ==
    link[l].stay # Nobody =>
        LET s == link[l].stay IN
        /\ s \in Stays /\ stay[s].state # "UNMADE" /\ stay[s].contact \in Addresses
        /\ ~link[l].onHold => stay[s].state = "CONFIRMED" /\ link[l].to = stay[s].contact

(* Whoever made an account made it once. *)
Made(a) == maker[a] # Nobody => account[a] # "NONE"

(* What a link was read for. *)
Follows(l, a) ==
    /\ l \in Links /\ link[l].stay # Nobody /\ link[l].purpose = "ACCOUNT_CREATE"
    /\ a \in Addresses
    /\ a = link[l].to \/ link[l].onHold

(* The link is spent, and the stay is the account's. *)
Stands(l, a) ==
    /\ link[l].status = "CONSUMED"
    /\ stay[link[l].stay].owner = a /\ stay[link[l].stay].surrendered

Reached(c) ==
    ~At(c, "IDLE") =>
        /\ Follows(call[c].link, call[c].address)
        /\ At(c, "MADE") \/ call[c].signsIn => maker[call[c].address] = call[c].link
        /\ At(c, "SPENT") => link[call[c].link].status # "CONSUMED"
        /\ At(c, "ATTACHED") => Stands(call[c].link, call[c].address)

Told(r) ==
    /\ Follows(r.link, r.address) /\ Stands(r.link, r.address)
    /\ r.signsIn => maker[r.address] = r.link
    /\ \A c \in Calls : At(c, "ATTACHED") => call[c].link # r.link

(* One follow of a link at a time between the test and the commit, and one after. *)
Alone ==
    \A c, d \in Calls : \A at \in {"SPENT", "ATTACHED"} :
        c # d /\ At(c, at) /\ At(d, at) => call[c].link # call[d].link

Inv ==
    /\ TypeOK
    /\ \A l \in Links : Minted(l)
    /\ \A a \in Addresses : Made(a)
    /\ \A c \in Calls : Reached(c)
    /\ \A r \in answers : Told(r)
    /\ Alone

LEMMA InitInv == Init => Inv
<1> SUFFICES ASSUME Init PROVE Inv
  OBVIOUS
<1>1. TypeOK
  BY DEF Init, TypeOK, Idle
<1> QED BY <1>1 DEF Init, Inv, Minted, Made, Reached, Told, Alone, At, Idle

-----------------------------------------------------------------------------
(* What a step outside a follow may do to the rows. *)

(* No row of a link that was minted is rewritten, but for its status, and a spent
   one stays so; stays keep their owner, their address once they are confirmed,
   and a credential that was given up.                                        *)
RowsStand ==
    /\ \A l \in Links : link[l].stay # Nobody =>
         /\ link'[l].stay = link[l].stay /\ link'[l].purpose = link[l].purpose
         /\ link'[l].to = link[l].to /\ link'[l].onHold = link[l].onHold
         /\ link[l].status = "CONSUMED" => link'[l].status = "CONSUMED"
    /\ \A s \in Stays : stay[s].owner # Nobody /\ stay[s].state # "UNMADE" => stay'[s].owner = stay[s].owner
    /\ \A s \in Stays : stay[s].state # "UNMADE" =>
         /\ stay[s].surrendered => stay'[s].surrendered
         /\ stay'[s].state # "UNMADE"
         /\ stay[s].contact \in Addresses => stay'[s].contact \in Addresses
    /\ \A s \in Stays : stay[s].state = "CONFIRMED" =>
         stay'[s].state = "CONFIRMED" /\ stay'[s].contact = stay[s].contact

AccountsStand ==
    \A a \in Addresses : /\ account[a] # "NONE" => account'[a] # "NONE" /\ maker'[a] = maker[a]
                         /\ maker'[a] = maker[a] \/ account'[a] # "NONE"

(* What was read, and what was answered, goes on standing. *)
LEMMA StillStands ==
  ASSUME Inv, RowsStand, NEW l \in Links, NEW a \in Addresses, Follows(l, a)
  PROVE  /\ Follows(l, a)'
         /\ Stands(l, a) => Stands(l, a)'
<1>1. /\ link[l].stay \in Stays /\ stay[link[l].stay].state # "UNMADE" /\ link[l].stay # Nobody
  BY DEF Inv, Minted, Follows
<1>2. a # Nobody
  BY NobodyAssumption
<1> QED BY <1>1, <1>2 DEF RowsStand, Follows, Stands

LEMMA MintedKept ==
  ASSUME Inv, RowsStand, NEW l \in Links, link[l].stay # Nobody
  PROVE  Minted(l)'
BY DEF Inv, Minted, RowsStand

LEMMA MadeKept ==
  ASSUME Inv, AccountsStand
  PROVE  \A a \in Addresses : Made(a)'
BY DEF Inv, Made, AccountsStand

(* Who made the account of a session that is begun. *)
LEMMA MakerKept ==
  ASSUME Inv, AccountsStand, NEW a \in Addresses, NEW l \in Links, maker[a] = l
  PROVE  maker'[a] = l
BY NobodyAssumption DEF Inv, Made, AccountsStand

(* The calls that are not the one that steps. *)
LEMMA ReachedKept ==
  ASSUME Inv, RowsStand, AccountsStand, NEW c \in Calls, call'[c] = call[c],
         At(c, "SPENT") => link'[call[c].link].status # "CONSUMED"
  PROVE  Reached(c)'
<1> SUFFICES ASSUME ~At(c, "IDLE") PROVE Reached(c)'
  BY DEF Reached, At
<1>1. Reached(c) /\ call[c].link \in Links /\ call[c].address \in Addresses
  BY DEF Inv, Reached, Follows
<1>2. Follows(call[c].link, call[c].address)' /\ (At(c, "ATTACHED") => Stands(call[c].link, call[c].address)')
  BY <1>1, StillStands DEF Reached
<1>3. At(c, "MADE") \/ call[c].signsIn => maker'[call[c].address] = call[c].link
  BY <1>1, MakerKept DEF Reached
<1> QED BY <1>2, <1>3 DEF Reached, At, Follows, Stands

LEMMA ToldKept ==
  ASSUME Inv, RowsStand, AccountsStand, NEW r \in answers,
         \A c \in Calls : At(c, "ATTACHED")' => call'[c].link # r.link
  PROVE  Told(r)'
<1>1. Told(r) /\ r.link \in Links /\ r.address \in Addresses
  BY DEF Inv, Told, Follows
<1>2. Follows(r.link, r.address)' /\ Stands(r.link, r.address)'
  BY <1>1, StillStands DEF Told
<1>3. r.signsIn => maker'[r.address] = r.link
  BY <1>1, MakerKept DEF Told
<1> QED BY <1>2, <1>3 DEF Told, Follows, Stands

(* A step in which nobody who follows a link gets on. *)
LEMMA Outside ==
  ASSUME Inv, RowsStand, AccountsStand, TypeOK', call' = call, answers' = answers,
         \A l \in Links : link[l].stay = Nobody => Minted(l)',
         \A l \in Links : link[l].purpose = "ACCOUNT_CREATE" /\ link'[l].status = "CONSUMED" =>
           link[l].status = "CONSUMED"
  PROVE  Inv'
<1>1. \A l \in Links : Minted(l)'
  BY MintedKept
<1>2. \A c \in Calls : At(c, "SPENT") => link'[call[c].link].status # "CONSUMED"
  BY DEF Inv, Reached, Follows, At
<1>3. \A c \in Calls : Reached(c)'
  BY <1>2, ReachedKept
<1>4. \A r \in answers' : Told(r)'
  BY ToldKept DEF Inv, Told, At
<1>5. Alone'
  BY DEF Inv, Alone, At
<1> QED BY <1>1, <1>3, <1>4, <1>5, MadeKept DEF Inv


-----------------------------------------------------------------------------
(* The rows that are minted. *)

(* An injection of at most two purposes into the rows to come. *)
LEMMA RowsForAll ==
  ASSUME NEW S \in SUBSET Links, NEW P \in SUBSET {"STAY_REISSUE", "ACCOUNT_CREATE"},
         Cardinality(S) >= Cardinality(P)
  PROVE  \E f \in [P -> S] : IsInjective(f)
<1>1. IsFiniteSet(S) /\ Cardinality(S) \in Nat
  BY LinksAssumption, FS_Subset, FS_CardinalityType
<1>2. CASE P = {}
  <2> DEFINE none == [p \in {} |-> p]
  <2>1. none \in [P -> S] /\ IsInjective(none)
    BY <1>2 DEF IsInjective
  <2> QED BY <2>1
<1>3. CASE \E p \in P : P = {p}
  <2>1. PICK p \in P : P = {p}
    BY <1>3
  <2>2. Cardinality(P) = 1
    BY <2>1, FS_Singleton
  <2>3. S # {}
    BY <1>1, <2>2, FS_EmptySet
  <2>4. PICK l \in S : TRUE
    BY <2>3
  <2>5. [q \in P |-> l] \in [P -> S] /\ IsInjective([q \in P |-> l])
    BY <2>1, <2>4 DEF IsInjective
  <2> QED BY <2>5
<1>4. CASE P = {"STAY_REISSUE", "ACCOUNT_CREATE"}
  <2>1. Cardinality(P) = 2
    <3>1. Cardinality({"STAY_REISSUE"}) = 1 /\ IsFiniteSet({"STAY_REISSUE"})
      BY FS_Singleton
    <3>2. Cardinality({"STAY_REISSUE"} \cup {"ACCOUNT_CREATE"}) = Cardinality({"STAY_REISSUE"}) + 1
      BY <3>1, FS_AddElement
    <3> QED BY <1>4, <3>1, <3>2
  <2>2. S # {}
    BY <1>1, <2>1, FS_EmptySet
  <2>3. PICK l \in S : TRUE
    BY <2>2
  <2>4. S # {l}
    BY <2>1, FS_Singleton
  <2>5. PICK k \in S : k # l
    BY <2>3, <2>4
  <2> DEFINE f == [q \in P |-> IF q = "STAY_REISSUE" THEN l ELSE k]
  <2>6. f \in [P -> S] /\ IsInjective(f)
    BY <1>4, <2>3, <2>5 DEF IsInjective
  <2> QED BY <2>6
<1> QED BY <1>2, <1>3, <1>4

(* The rows of the two tables. *)
StayRow == [state : {"UNMADE", "HELD", "CONFIRMED"}, contact : Addresses \cup {Nobody},
            owner : Addresses \cup {Nobody}, surrendered : BOOLEAN, cookie : BOOLEAN]

LinkRow == [stay : Stays \cup {Nobody}, purpose : {"STAY_REISSUE", "ACCOUNT_CREATE"},
            to : Addresses \cup {Nobody}, onHold : BOOLEAN,
            status : {"OPEN", "CONSUMED", "EXPIRED"}]

LEMMA RowTypes ==
  TypeOK => stay \in [Stays -> StayRow] /\ link \in [Links -> LinkRow]
BY DEF TypeOK, StayRow, LinkRow

(* A row that is minted anew, and none other. *)
NewRow(l, s, state) ==
    \E p \in {"STAY_REISSUE", "ACCOUNT_CREATE"} :
        link[l].stay = Nobody /\ link'[l] = Row(s, p, state)

LEMMA ConfirmMints ==
  ASSUME Inv, NEW s \in Stays, Confirm(s)
  PROVE  /\ stay[s].state = "HELD" /\ stay' = [stay EXCEPT ![s].state = "CONFIRMED"]
         /\ link' \in [Links -> LinkRow]
         /\ \A l \in Links : link'[l] # link[l] => stay[s].contact \in Addresses /\ NewRow(l, s, "CONFIRMED")
<1> DEFINE P == Offered(s)
           row == CHOOSE f \in [P -> Unminted] : IsInjective(f)
<1>1. P \in SUBSET {"STAY_REISSUE", "ACCOUNT_CREATE"} /\ Unminted \in SUBSET Links
  BY DEF Offered, Unminted
<1>2. row \in [P -> Unminted]
  <2>1. \E f \in [P -> Unminted] : IsInjective(f)
    BY <1>1, RowsForAll DEF Confirm
  <2> QED BY <2>1
<1>3. link' = [l \in Links |-> IF \E p \in P : row[p] = l
                               THEN Row(s, CHOOSE p \in P : row[p] = l, "CONFIRMED") ELSE link[l]]
  BY DEF Confirm
<1> HIDE DEF row
<1>4. \A l \in Links : link'[l] = link[l] \/ \E p \in P : row[p] = l /\ link'[l] = Row(s, p, "CONFIRMED")
  BY <1>3
<1>5. P # {} => stay[s].contact \in Addresses
  BY DEF Offered, Inv, TypeOK
<1>6. \A p \in P : Row(s, p, "CONFIRMED") \in LinkRow
  BY <1>1, <1>5 DEF Row, LinkRow
<1>7. link' \in [Links -> LinkRow]
  <2>1. \A l \in Links : link'[l] \in LinkRow
    BY <1>4, <1>6, RowTypes DEF Inv
  <2> QED BY <1>3, <2>1
<1>8. \A l \in Links : link'[l] # link[l] => stay[s].contact \in Addresses /\ NewRow(l, s, "CONFIRMED")
  BY <1>1, <1>2, <1>4, <1>5 DEF NewRow, Unminted
<1> QED BY <1>7, <1>8 DEF Confirm

LEMMA ConfirmSteps ==
  ASSUME Inv, NEW s \in Stays, Confirm(s)
  PROVE  Inv'
<1>0. TypeOK /\ s # Nobody
  BY NobodyAssumption DEF Inv
<1>1. /\ stay[s].state = "HELD" /\ stay' = [stay EXCEPT ![s].state = "CONFIRMED"]
      /\ \A l \in Links : link'[l] # link[l] => stay[s].contact \in Addresses /\ NewRow(l, s, "CONFIRMED")
      /\ account' = account /\ maker' = maker /\ call' = call /\ answers' = answers
  BY ConfirmMints DEF Confirm
<1>2. TypeOK'
  <2>1. [stay[s] EXCEPT !.state = "CONFIRMED"] \in StayRow
    BY <1>0, RowTypes DEF StayRow
  <2>2. stay' \in [Stays -> StayRow]
    BY <1>0, <1>1, <2>1, RowTypes
  <2>3. link' \in [Links -> LinkRow]
    BY ConfirmMints
  <2> QED BY <1>0, <1>1, <2>2, <2>3 DEF TypeOK, StayRow, LinkRow
<1>3. /\ stay'[s].state = "CONFIRMED" /\ stay'[s].contact = stay[s].contact
      /\ stay'[s].owner = stay[s].owner /\ stay'[s].surrendered = stay[s].surrendered
      /\ \A t \in Stays : t # s => stay'[t] = stay[t]
  BY <1>0, <1>1 DEF TypeOK
<1>4. RowsStand
  BY <1>1, <1>3 DEF RowsStand, NewRow
<1>5. \A l \in Links : link[l].stay = Nobody => Minted(l)'
  <2> SUFFICES ASSUME NEW l \in Links, link'[l].stay # Nobody, link[l].stay = Nobody
               PROVE  Minted(l)'
    BY DEF Minted
  <2>1. NewRow(l, s, "CONFIRMED") /\ stay[s].contact \in Addresses
    BY <1>1
  <2>2. link'[l].stay = s /\ link'[l].to = stay[s].contact
    BY <2>1 DEF NewRow, Row
  <2> QED BY <1>3, <2>1, <2>2 DEF Minted
<1>6. \A l \in Links : link'[l].status = "CONSUMED" => link[l].status = "CONSUMED"
  BY <1>1 DEF NewRow, Row
<1> QED BY <1>1, <1>2, <1>4, <1>5, <1>6, Outside DEF AccountsStand

LEMMA ResendSteps ==
  ASSUME Inv, NEW s \in Stays, Resend(s)
  PROVE  Inv'
<1>0. TypeOK /\ s # Nobody
  BY NobodyAssumption DEF Inv
<1>1. PICK k \in Unminted : link' = [link EXCEPT ![k] = Row(s, "ACCOUNT_CREATE", stay[s].state)]
  BY DEF Resend
<1>2. /\ stay' = stay /\ account' = account /\ maker' = maker /\ call' = call /\ answers' = answers
      /\ stay[s].contact \in Addresses /\ stay[s].state \in {"HELD", "CONFIRMED"}
  BY <1>0 DEF Resend, TypeOK
<1>3. k \in Links /\ link[k].stay = Nobody
  BY DEF Unminted
<1>4. /\ Row(s, "ACCOUNT_CREATE", stay[s].state) \in
           [stay : Stays \cup {Nobody}, purpose : {"STAY_REISSUE", "ACCOUNT_CREATE"},
            to : Addresses \cup {Nobody}, onHold : BOOLEAN, status : {"OPEN", "CONSUMED", "EXPIRED"}]
      /\ link'[k] = Row(s, "ACCOUNT_CREATE", stay[s].state)
      /\ \A l \in Links : l # k => link'[l] = link[l]
  BY <1>0, <1>1, <1>2, <1>3 DEF TypeOK, Row
<1>5. TypeOK'
  BY <1>0, <1>1, <1>2, <1>3, <1>4 DEF TypeOK
<1>6. RowsStand
  BY <1>2, <1>3, <1>4 DEF RowsStand
<1>7. \A l \in Links : link[l].stay = Nobody => Minted(l)'
  <2> SUFFICES ASSUME NEW l \in Links, link'[l].stay # Nobody, link[l].stay = Nobody
               PROVE  Minted(l)'
    BY DEF Minted
  <2>1. l = k
    BY <1>4
  <2>2. /\ link'[l].stay = s /\ link'[l].to = stay[s].contact
        /\ link'[l].onHold = (stay[s].state = "HELD")
    BY <1>4, <2>1 DEF Row
  <2> QED BY <1>2, <2>2 DEF Minted
<1>8. \A l \in Links : link'[l].status = "CONSUMED" => link[l].status = "CONSUMED"
  BY <1>4 DEF Row
<1> QED BY <1>2, <1>5, <1>6, <1>7, <1>8, Outside DEF AccountsStand

-----------------------------------------------------------------------------
(* The other doors. *)

(* A door writes the row of one stay, and of no link. *)
LEMMA DoorSteps ==
  ASSUME Inv, NEW s \in Stays, NEW row \in StayRow, stay' = [stay EXCEPT ![s] = row],
         UNCHANGED <<link, account, maker, call, answers>>,
         stay[s].state # "UNMADE" =>
           /\ row.state = stay[s].state
           /\ stay[s].surrendered => row.surrendered
           /\ stay[s].owner # Nobody => row.owner = stay[s].owner
           /\ stay[s].contact \in Addresses => row.contact \in Addresses
           /\ stay[s].state = "CONFIRMED" => row.contact = stay[s].contact
  PROVE  Inv'
<1>0. TypeOK /\ stay \in [Stays -> StayRow]
  BY RowTypes DEF Inv
<1>1. stay'[s] = row /\ \A t \in Stays : t # s => stay'[t] = stay[t]
  BY <1>0
<1>2. TypeOK'
  BY <1>0 DEF TypeOK, StayRow
<1>3. RowsStand
  BY <1>1 DEF RowsStand
<1>4. \A l \in Links : link[l].stay = Nobody => Minted(l)'
  BY DEF Minted
<1> QED BY <1>2, <1>3, <1>4, Outside DEF AccountsStand

LEMMA StaySteps ==
  ASSUME Inv, NEW s \in Stays,
         \/ \E owner \in Addresses \cup {Nobody} : CreateHold(s, owner)
         \/ \E contact \in Addresses \cup {Nobody} : CreateConfirmed(s, contact)
         \/ \E a \in Addresses : SetHoldContact(s, a) \/ AttachProvenStay(s, a)
  PROVE  Inv'
<1>0. stay \in [Stays -> StayRow] /\ stay[s] \in StayRow
  BY RowTypes DEF Inv
<1>1. ASSUME NEW owner \in Addresses \cup {Nobody}, CreateHold(s, owner) PROVE Inv'
  <2> DEFINE row == [stay[s] EXCEPT !.state = "HELD", !.owner = owner, !.cookie = TRUE]
  <2>1. row \in StayRow /\ stay' = [stay EXCEPT ![s] = row]
    BY <1>0, <1>1 DEF CreateHold, StayRow
  <2> QED BY <1>1, <2>1, DoorSteps DEF CreateHold
<1>2. ASSUME NEW contact \in Addresses \cup {Nobody}, CreateConfirmed(s, contact) PROVE Inv'
  <2> DEFINE row == [stay[s] EXCEPT !.state = "CONFIRMED", !.contact = contact]
  <2>1. row \in StayRow /\ stay' = [stay EXCEPT ![s] = row]
    BY <1>0, <1>2 DEF CreateConfirmed, StayRow
  <2> QED BY <1>2, <2>1, DoorSteps DEF CreateConfirmed
<1>3. ASSUME NEW a \in Addresses, SetHoldContact(s, a) PROVE Inv'
  <2> DEFINE row == [stay[s] EXCEPT !.contact = a]
  <2>1. row \in StayRow /\ stay' = [stay EXCEPT ![s] = row]
    BY <1>0, <1>3 DEF SetHoldContact, StayRow
  <2>2. /\ row.state = stay[s].state /\ row.contact = a /\ row.owner = stay[s].owner
        /\ row.surrendered = stay[s].surrendered /\ stay[s].state = "HELD"
    BY <1>0, <1>3 DEF SetHoldContact, StayRow, MayRename
  <2> HIDE DEF row
  <2> QED BY <1>3, <2>1, <2>2, DoorSteps DEF SetHoldContact
<1>4. ASSUME NEW a \in Addresses, AttachProvenStay(s, a) PROVE Inv'
  <2> DEFINE row == [stay[s] EXCEPT !.owner = a, !.surrendered = TRUE]
  <2>1. row \in StayRow /\ stay' = [stay EXCEPT ![s] = row]
    BY <1>0, <1>4 DEF AttachProvenStay, Attached, StayRow
  <2>2. /\ row.state = stay[s].state /\ row.contact = stay[s].contact /\ row.owner = a
        /\ row.surrendered /\ stay[s].owner \in {Nobody, a}
    BY <1>0, <1>4 DEF AttachProvenStay, MayOwn, StayRow
  <2> HIDE DEF row
  <2> QED BY <1>4, <2>1, <2>2, DoorSteps DEF AttachProvenStay
<1> QED BY <1>1, <1>2, <1>3, <1>4

(* The end of a link: passed, or redeemed for the cookie. *)
LEMMA EndSteps ==
  ASSUME Inv, NEW l \in Links, NEW status \in {"CONSUMED", "EXPIRED"},
         link' = [link EXCEPT ![l].status = status], link[l].status = "OPEN",
         status = "CONSUMED" => link[l].purpose = "STAY_REISSUE",
         stay' \in [Stays -> StayRow],
         \A s \in Stays : /\ stay'[s].state = stay[s].state /\ stay'[s].contact = stay[s].contact
                          /\ stay'[s].owner = stay[s].owner /\ stay'[s].surrendered = stay[s].surrendered,
         UNCHANGED <<account, maker, call, answers>>
  PROVE  Inv'
<1>0. TypeOK /\ link \in [Links -> LinkRow]
  BY RowTypes DEF Inv
<1>1. \A k \in Links : /\ link'[k].stay = link[k].stay /\ link'[k].purpose = link[k].purpose
                       /\ link'[k].to = link[k].to /\ link'[k].onHold = link[k].onHold
                       /\ link'[k].status = IF k = l THEN status ELSE link[k].status
  BY <1>0 DEF LinkRow
<1>2. link' \in [Links -> LinkRow]
  BY <1>0 DEF LinkRow
<1>3. TypeOK'
  BY <1>0, <1>2 DEF TypeOK, StayRow, LinkRow
<1>4. RowsStand
  BY <1>1 DEF RowsStand
<1>5. \A k \in Links : link[k].stay = Nobody => Minted(k)'
  BY <1>1 DEF Minted
<1>6. \A k \in Links : link[k].purpose = "ACCOUNT_CREATE" /\ link'[k].status = "CONSUMED" =>
        link[k].status = "CONSUMED"
  BY <1>1
<1> QED BY <1>3, <1>4, <1>5, <1>6, Outside DEF AccountsStand

LEMMA RedeemSteps ==
  ASSUME Inv, NEW l \in Links, RedeemStayLink(l)
  PROVE  Inv'
<1>0. stay \in [Stays -> StayRow] /\ link[l].stay \in Stays
  BY RowTypes DEF Inv, TypeOK, RedeemStayLink, Live
<1>1. stay' = [stay EXCEPT ![link[l].stay].cookie = TRUE]
  BY DEF RedeemStayLink
<1>2. /\ stay' \in [Stays -> StayRow]
      /\ \A s \in Stays : /\ stay'[s].state = stay[s].state /\ stay'[s].contact = stay[s].contact
                          /\ stay'[s].owner = stay[s].owner /\ stay'[s].surrendered = stay[s].surrendered
  <2>1. [stay[link[l].stay] EXCEPT !.cookie = TRUE] \in StayRow
    BY <1>0 DEF StayRow
  <2>2. stay' = [stay EXCEPT ![link[l].stay] = [stay[link[l].stay] EXCEPT !.cookie = TRUE]]
    BY <1>0, <1>1
  <2>3. stay' \in [Stays -> StayRow]
    BY <1>0, <2>1, <2>2
  <2>4. stay[link[l].stay] \in StayRow
    BY <1>0
  <2>5. \A s \in Stays : s # link[l].stay => stay'[s] = stay[s]
    BY <1>0, <2>2
  <2>6. stay'[link[l].stay] = [stay[link[l].stay] EXCEPT !.cookie = TRUE]
    BY <1>0, <2>2
  <2> QED BY <2>3, <2>4, <2>5, <2>6 DEF StayRow
<1> QED BY <1>2, EndSteps DEF RedeemStayLink, Live

LEMMA ExpireSteps ==
  ASSUME Inv, NEW l \in Links, Expire(l)
  PROVE  Inv'
BY RowTypes, EndSteps DEF Expire, Inv

LEMMA AccountSteps ==
  ASSUME Inv, NEW a \in Addresses, SignUp(a) \/ VerifyAddress(a)
  PROVE  Inv'
<1>0. TypeOK
  BY DEF Inv
<1>1. /\ stay' = stay /\ link' = link /\ maker' = maker /\ call' = call /\ answers' = answers
  BY DEF SignUp, VerifyAddress
<1>2. TypeOK'
  BY <1>0 DEF SignUp, VerifyAddress, TypeOK
<1>3. AccountsStand
  BY <1>0 DEF SignUp, VerifyAddress, TypeOK, AccountsStand
<1>4. RowsStand
  BY <1>1 DEF RowsStand
<1> QED BY <1>1, <1>2, <1>3, <1>4, Outside DEF Minted

-----------------------------------------------------------------------------
(* The steps of a follow. *)

(* A step of one follow that writes no link. *)
LEMMA Inside ==
  ASSUME Inv, AccountsStand, TypeOK', stay' = stay, link' = link, NEW c \in Calls,
         \A d \in Calls : d # c => call'[d] = call[d],
         Reached(c)', answers' = answers,
         ~At(c, "ATTACHED")',
         At(c, "SPENT")' => \A d \in Calls : d # c /\ At(d, "SPENT") => call[d].link # call'[c].link
  PROVE  Inv'
<1>1. RowsStand
  BY DEF RowsStand
<1>2. \A l \in Links : Minted(l)'
  BY DEF Inv, Minted
<1>3. \A d \in Calls : Reached(d)'
  <2> SUFFICES ASSUME NEW d \in Calls, d # c PROVE Reached(d)'
    OBVIOUS
  <2>1. At(d, "SPENT") => link'[call[d].link].status # "CONSUMED"
    BY DEF Inv, Reached, At
  <2> QED BY <1>1, <2>1, ReachedKept
<1>4. \A r \in answers' : Told(r)'
  <2> SUFFICES ASSUME NEW r \in answers PROVE Told(r)'
    OBVIOUS
  <2>1. \A d \in Calls : At(d, "ATTACHED")' => call'[d].link # r.link
    BY DEF Inv, Told, At
  <2> QED BY <1>1, <2>1, ToldKept
<1>5. Alone'
  BY DEF Inv, Alone, At
<1> QED BY <1>2, <1>3, <1>4, <1>5, MadeKept DEF Inv

LEMMA GivesUp ==
  ASSUME Inv, NEW c \in Calls, call' = [call EXCEPT ![c] = Idle],
         UNCHANGED <<stay, link, account, maker, answers>>
  PROVE  Inv'
<1>0. TypeOK /\ call'[c] = Idle /\ \A d \in Calls : d # c => call'[d] = call[d]
  BY DEF Inv, TypeOK
<1>1. TypeOK'
  BY <1>0 DEF TypeOK, Idle
<1>2. Reached(c)' /\ ~At(c, "ATTACHED")' /\ ~At(c, "SPENT")'
  BY <1>0 DEF Reached, At, Idle
<1> QED BY <1>0, <1>1, <1>2, Inside DEF AccountsStand

LEMMA ReadLinkSteps ==
  ASSUME Inv, NEW c \in Calls, NEW l \in Links, ReadLink(c, l)
  PROVE  Inv'
<1>0. TypeOK /\ Minted(l)
  BY DEF Inv
<1>1. /\ link[l].stay # Nobody /\ link[l].purpose = "ACCOUNT_CREATE"
      /\ UNCHANGED <<stay, link, account, maker, answers>>
      /\ call' = [call EXCEPT ![c] = [at |-> "OFFERED", link |-> l,
                                      address |-> stay[link[l].stay].contact, signsIn |-> FALSE]]
  BY DEF ReadLink, Live
<1>2. stay[link[l].stay].contact \in Addresses
  BY <1>0, <1>1 DEF Minted
<1>3. /\ call'[c].at = "OFFERED" /\ call'[c].link = l /\ call'[c].address = stay[link[l].stay].contact
      /\ ~call'[c].signsIn
      /\ \A d \in Calls : d # c => call'[d] = call[d]
  BY <1>0, <1>1 DEF TypeOK
<1>4. TypeOK'
  BY <1>0, <1>1, <1>2 DEF TypeOK
<1>5. link[l].onHold \in BOOLEAN
  BY <1>0 DEF TypeOK
<1>6. Reached(c)'
  BY <1>0, <1>1, <1>2, <1>3, <1>5 DEF Reached, At, Follows, Minted
<1>7. ~At(c, "ATTACHED")' /\ ~At(c, "SPENT")'
  BY <1>3 DEF At
<1> QED BY <1>1, <1>3, <1>4, <1>6, <1>7, Inside DEF AccountsStand

(* A follow that gets on to a step before the transaction's test of the link. *)
LEMMA GetsOn ==
  ASSUME Inv, NEW c \in Calls, ~At(c, "IDLE"), AccountsStand, TypeOK',
         stay' = stay, link' = link, answers' = answers,
         \A d \in Calls : d # c => call'[d] = call[d],
         call'[c].link = call[c].link, call'[c].address = call[c].address,
         call'[c].at \in {"MISSING", "MADE", "READY", "BEGUN"},
         \/ call'[c].at # "MADE" /\ (call'[c].signsIn => call[c].signsIn)
         \/ maker'[call[c].address] = call[c].link
  PROVE  Inv'
<1>1. Follows(call[c].link, call[c].address) /\ call[c].link \in Links /\ call[c].address \in Addresses
  BY DEF Inv, Reached, Follows
<1>2. (At(c, "MADE") \/ call[c].signsIn)' => maker'[call[c].address] = call[c].link
  <2>1. call[c].signsIn => maker'[call[c].address] = call[c].link
    BY <1>1, MakerKept DEF Inv, Reached
  <2> QED BY <2>1 DEF At
<1>3. Reached(c)'
  BY <1>1, <1>2 DEF Reached, At, Follows
<1>4. ~At(c, "ATTACHED")' /\ ~At(c, "SPENT")'
  BY DEF At
<1> QED BY <1>3, <1>4, Inside

CallRow ==
    [at : {"IDLE", "OFFERED", "MISSING", "MADE", "READY", "BEGUN", "SPENT", "ATTACHED"},
     link : Links \cup {Nobody}, address : Addresses \cup {Nobody}, signsIn : BOOLEAN]

LEMMA CallTypes ==
  ASSUME Inv, NEW c \in Calls
  PROVE  /\ call \in [Calls -> CallRow]
         /\ ~At(c, "IDLE") => /\ call[c].link \in Links /\ call[c].address \in Addresses
                              /\ Follows(call[c].link, call[c].address)
BY DEF Inv, TypeOK, CallRow, Reached, Follows

LEMMA FindAccountSteps ==
  ASSUME Inv, NEW c \in Calls, FindAccount(c)
  PROVE  Inv'
<1>0. TypeOK /\ call \in [Calls -> CallRow] /\ ~At(c, "IDLE")
  BY CallTypes DEF Inv, FindAccount, At
<1>1. /\ \A d \in Calls : d # c => call'[d] = call[d]
      /\ call'[c].link = call[c].link /\ call'[c].address = call[c].address
      /\ call'[c].signsIn = call[c].signsIn /\ call'[c].at \in {"MISSING", "READY"}
      /\ call' \in [Calls -> CallRow]
  BY <1>0 DEF FindAccount, CallRow
<1>2. TypeOK'
  BY <1>0, <1>1 DEF TypeOK, FindAccount, CallRow
<1> QED BY <1>0, <1>1, <1>2, GetsOn DEF FindAccount, AccountsStand

LEMMA CreateUserSteps ==
  ASSUME Inv, NEW c \in Calls, CreateUser(c)
  PROVE  Inv'
<1>0. /\ TypeOK /\ call \in [Calls -> CallRow] /\ ~At(c, "IDLE")
      /\ call[c].link \in Links /\ call[c].address \in Addresses
  BY CallTypes DEF Inv, CreateUser, At
<1>1. CASE account[call[c].address] = "NONE"
  <2>1. /\ \A d \in Calls : d # c => call'[d] = call[d]
        /\ call'[c].link = call[c].link /\ call'[c].address = call[c].address
        /\ call'[c].signsIn = call[c].signsIn /\ call'[c].at = "MADE"
        /\ call' \in [Calls -> CallRow]
    BY <1>0, <1>1 DEF CreateUser, CallRow
  <2>2. /\ account' = [account EXCEPT ![call[c].address] = "UNVERIFIED"]
        /\ maker' = [maker EXCEPT ![call[c].address] = call[c].link]
    BY <1>1 DEF CreateUser
  <2>3. TypeOK'
    BY <1>0, <2>1, <2>2 DEF TypeOK, CreateUser, CallRow
  <2>4. AccountsStand /\ maker'[call[c].address] = call[c].link
    BY <1>0, <1>1, <2>2 DEF TypeOK, AccountsStand
  <2> QED BY <1>0, <2>1, <2>3, <2>4, GetsOn DEF CreateUser
<1>2. CASE account[call[c].address] # "NONE"
  <2>1. /\ \A d \in Calls : d # c => call'[d] = call[d]
        /\ call'[c].link = call[c].link /\ call'[c].address = call[c].address
        /\ call'[c].signsIn = call[c].signsIn /\ call'[c].at = "READY"
        /\ call' \in [Calls -> CallRow] /\ account' = account /\ maker' = maker
    BY <1>0, <1>2 DEF CreateUser, CallRow
  <2>2. TypeOK'
    BY <1>0, <2>1 DEF TypeOK, CreateUser, CallRow
  <2> QED BY <1>0, <2>1, <2>2, GetsOn DEF CreateUser, AccountsStand
<1> QED BY <1>1, <1>2

LEMMA VerifyAndSignInSteps ==
  ASSUME Inv, NEW c \in Calls, VerifyAndSignIn(c)
  PROVE  Inv'
<1>0. /\ TypeOK /\ call \in [Calls -> CallRow] /\ At(c, "MADE") /\ ~At(c, "IDLE")
      /\ call[c].link \in Links /\ call[c].address \in Addresses
  BY CallTypes DEF Inv, VerifyAndSignIn, At
<1>1. PICK signsIn \in BOOLEAN : call' = [call EXCEPT ![c].at = "READY", ![c].signsIn = signsIn]
  BY DEF VerifyAndSignIn
<1> DEFINE row == [call[c] EXCEPT !.at = "READY", !.signsIn = signsIn]
<1>2. /\ \A d \in Calls : d # c => call'[d] = call[d]
      /\ call'[c].link = call[c].link /\ call'[c].address = call[c].address /\ call'[c].at = "READY"
      /\ call' \in [Calls -> CallRow]
  <2>0. call \in [Calls -> CallRow]
    BY <1>0
  <2>1. call' = [call EXCEPT ![c] = row]
    BY <1>1, <2>0
  <2>2. call[c] \in CallRow
    BY <2>0
  <2>3. /\ row \in CallRow /\ row.at = "READY"
        /\ row.link = call[c].link /\ row.address = call[c].address
    BY <2>2 DEF CallRow
  <2>4. call'[c] = row /\ (\A d \in Calls : d # c => call'[d] = call[d])
    BY <2>0, <2>1
  <2>5. call' \in [Calls -> CallRow]
    BY <2>0, <2>1, <2>3
  <2> HIDE DEF row
  <2> QED BY <2>3, <2>4, <2>5
<1>3. maker' = maker /\ maker[call[c].address] = call[c].link
  BY <1>0 DEF VerifyAndSignIn, Inv, Reached
<1>4. AccountsStand
  BY <1>0, <1>3 DEF VerifyAndSignIn, TypeOK, AccountsStand
<1>5. TypeOK'
  BY <1>0, <1>2 DEF TypeOK, VerifyAndSignIn, CallRow
<1> QED BY <1>0, <1>2, <1>3, <1>4, <1>5, GetsOn DEF VerifyAndSignIn

LEMMA BeginAttachSteps ==
  ASSUME Inv, NEW c \in Calls, BeginAttach(c)
  PROVE  Inv'
<1>0. TypeOK /\ call \in [Calls -> CallRow] /\ ~At(c, "IDLE")
  BY CallTypes DEF Inv, BeginAttach, At
<1>1. /\ \A d \in Calls : d # c => call'[d] = call[d]
      /\ call'[c].link = call[c].link /\ call'[c].address = call[c].address
      /\ call'[c].signsIn = call[c].signsIn /\ call'[c].at = "BEGUN"
      /\ call' \in [Calls -> CallRow]
  BY <1>0 DEF BeginAttach, CallRow
<1>2. TypeOK'
  BY <1>0, <1>1 DEF TypeOK, BeginAttach, CallRow
<1> QED BY <1>0, <1>1, <1>2, GetsOn DEF BeginAttach, AccountsStand

(* The link is tested under its row's lock, and found as it was read. *)
LEMMA SpendSteps ==
  ASSUME Inv, NEW c \in Calls, Spend(c)
  PROVE  Inv'
<1>0. /\ TypeOK /\ call \in [Calls -> CallRow] /\ ~At(c, "IDLE") /\ Reached(c)
      /\ Follows(call[c].link, call[c].address)
  BY CallTypes DEF Inv, Spend, At
<1>1. CASE ~Live(call[c].link, "ACCOUNT_CREATE")
  BY <1>1, GivesUp DEF Spend
<1>2. CASE Live(call[c].link, "ACCOUNT_CREATE")
  <2>1. call' = [call EXCEPT ![c] = [@ EXCEPT !.at = "SPENT"]]
    BY <1>2 DEF Spend
  <2>2. /\ \A d \in Calls : d # c => call'[d] = call[d]
        /\ call'[c].link = call[c].link /\ call'[c].address = call[c].address
        /\ call'[c].signsIn = call[c].signsIn /\ call'[c].at = "SPENT"
        /\ call' \in [Calls -> CallRow]
    BY <1>0, <2>1 DEF CallRow
  <2>3. TypeOK'
    BY <1>0, <2>2 DEF TypeOK, Spend, CallRow
  <2>4. link[call[c].link].status # "CONSUMED"
    BY <1>2 DEF Live
  <2>5. Reached(c)'
    BY <1>0, <2>2, <2>4 DEF Reached, At, Follows, Spend
  <2>6. \A d \in Calls : d # c /\ At(d, "SPENT") => call[d].link # call'[c].link
    BY <2>2 DEF Spend, RowIsFree
  <2>7. ~At(c, "ATTACHED")'
    BY <2>2 DEF At
  <2> QED BY <2>2, <2>3, <2>5, <2>6, <2>7, Inside DEF Spend, AccountsStand
<1> QED BY <1>1, <1>2

(* The commit of a follow: nobody else has the row of its link, and nothing that
   stands is of that link yet.                                                *)
LEMMA AttachSteps ==
  ASSUME Inv, NEW c \in Calls, Attach(c)
  PROVE  Inv'
<1>a. PICK l, s, a : l = call[c].link /\ s = link[l].stay /\ a = call[c].address
  OBVIOUS
<1>0. /\ TypeOK /\ call \in [Calls -> CallRow] /\ At(c, "SPENT") /\ ~At(c, "IDLE") /\ Reached(c)
      /\ Follows(l, a) /\ l \in Links /\ a \in Addresses
  BY <1>a, CallTypes DEF Inv, Attach, At
<1>1. CASE ~MayOwn(s, a)
  BY <1>a, <1>1, GivesUp DEF Attach
<1>2. CASE MayOwn(s, a)
  <2>0. s \in Stays /\ Minted(l) /\ stay[s].state # "UNMADE"
    BY <1>a, <1>0 DEF Inv, Minted, Follows
  <2>1. /\ stay' = [stay EXCEPT ![s].owner = a, ![s].surrendered = TRUE]
        /\ link' = [link EXCEPT ![l].status = "CONSUMED"]
        /\ call' = [call EXCEPT ![c].at = "ATTACHED"]
        /\ account' = account /\ maker' = maker /\ answers' = answers
    BY <1>a, <1>2 DEF Attach, Attached
  <2>2. /\ \A d \in Calls : d # c => call'[d] = call[d]
        /\ call'[c].link = l /\ call'[c].address = a
        /\ call'[c].signsIn = call[c].signsIn /\ call'[c].at = "ATTACHED"
        /\ call' \in [Calls -> CallRow]
    <3>1. call \in [Calls -> CallRow] /\ call[c] \in CallRow /\ call[c].link = l /\ call[c].address = a
      BY <1>a, <1>0
    <3>2. [call[c] EXCEPT !.at = "ATTACHED"] \in CallRow
      BY <3>1 DEF CallRow
    <3>3. call' = [call EXCEPT ![c] = [call[c] EXCEPT !.at = "ATTACHED"]]
      BY <2>1, <3>1
    <3>4. call' \in [Calls -> CallRow] /\ (\A d \in Calls : d # c => call'[d] = call[d])
      BY <3>1, <3>2, <3>3
    <3>5. call'[c] = [call[c] EXCEPT !.at = "ATTACHED"]
      BY <3>1, <3>3
    <3> QED BY <3>1, <3>4, <3>5 DEF CallRow
  <2>3. /\ \A t \in Stays : t # s => stay'[t] = stay[t]
        /\ stay'[s].owner = a /\ stay'[s].surrendered
        /\ stay'[s].state = stay[s].state /\ stay'[s].contact = stay[s].contact
        /\ stay' \in [Stays -> StayRow]
    <3> DEFINE row == [stay[s] EXCEPT !.owner = a, !.surrendered = TRUE]
    <3>1. stay \in [Stays -> StayRow] /\ stay[s] \in StayRow
      BY <1>0, <2>0, RowTypes
    <3>2. /\ row \in StayRow /\ row.owner = a /\ row.surrendered
          /\ row.state = stay[s].state /\ row.contact = stay[s].contact
      BY <1>0, <3>1 DEF StayRow
    <3>3. stay' = [stay EXCEPT ![s] = row]
      BY <2>1, <3>1
    <3> HIDE DEF row
    <3> QED BY <2>0, <3>1, <3>2, <3>3
  <2>4. /\ \A k \in Links : /\ link'[k].stay = link[k].stay /\ link'[k].purpose = link[k].purpose
                            /\ link'[k].to = link[k].to /\ link'[k].onHold = link[k].onHold
                            /\ link'[k].status = IF k = l THEN "CONSUMED" ELSE link[k].status
        /\ link' \in [Links -> LinkRow]
    BY <1>0, <2>1, RowTypes DEF LinkRow
  <2>5. TypeOK'
    BY <1>0, <2>1, <2>2, <2>3, <2>4 DEF TypeOK, CallRow, StayRow, LinkRow
  <2>6. stay[s].owner \in {Nobody, a}
    BY <1>2 DEF MayOwn
  <2>7. RowsStand
    <3>1. \A t \in Stays : t = s \/ stay'[t] = stay[t]
      BY <2>3
    <3> QED BY <2>3, <2>4, <2>6, <3>1 DEF RowsStand
  <2>8. AccountsStand
    BY <2>1 DEF AccountsStand
  <2>9. \A k \in Links : Minted(k)'
    <3>1. \A k \in Links : link[k].stay = Nobody => Minted(k)'
      BY <2>4 DEF Minted
    <3> QED BY <2>7, <3>1, MintedKept
  <2>10. link[l].status # "CONSUMED"
    BY <1>a, <1>0 DEF Reached
  <2>11. Reached(c)'
    <3>1. Follows(l, a)'
      BY <1>0, <2>7, StillStands
    <3>2. Stands(l, a)'
      BY <1>0, <1>a, <2>3, <2>4 DEF Stands
    <3>3. call[c].signsIn => maker[a] = l
      BY <1>a, <1>0 DEF Reached
    <3> QED BY <2>1, <2>2, <3>1, <3>2, <3>3 DEF Reached, At, Follows, Stands
  <2>12. \A d \in Calls : d # c => Reached(d)'
    <3> SUFFICES ASSUME NEW d \in Calls, d # c PROVE Reached(d)'
      OBVIOUS
    <3>1. At(d, "SPENT") => call[d].link # l
      BY <1>a, <1>0 DEF Inv, Alone
    <3>2. At(d, "SPENT") => link'[call[d].link].status # "CONSUMED"
      <4> SUFFICES ASSUME At(d, "SPENT") PROVE link'[call[d].link].status # "CONSUMED"
        OBVIOUS
      <4>1. call[d].link \in Links /\ link[call[d].link].status # "CONSUMED"
        BY DEF Inv, Reached, Follows, At
      <4> QED BY <2>4, <3>1, <4>1
    <3> QED BY <2>2, <2>7, <2>8, <3>2, ReachedKept
  <2>13. \A r \in answers' : Told(r)'
    <3> SUFFICES ASSUME NEW r \in answers PROVE Told(r)'
      BY <2>1
    <3>1. r.link # l /\ Told(r)
      BY <2>10 DEF Inv, Told, Stands
    <3>2. \A d \in Calls : At(d, "ATTACHED")' => call'[d].link # r.link
      BY <2>2, <3>1 DEF Told, At
    <3> QED BY <2>7, <2>8, <3>2, ToldKept
  <2>14. Alone'
    <3>1. \A d \in Calls : At(d, "ATTACHED") => call[d].link # l
      BY <2>10 DEF Inv, Reached, Stands, At
    <3> QED BY <2>2, <3>1 DEF Inv, Alone, At
  <2> QED BY <2>5, <2>8, <2>9, <2>11, <2>12, <2>13, <2>14, MadeKept DEF Inv
<1> QED BY <1>1, <1>2

LEMMA AnswerSteps ==
  ASSUME Inv, NEW c \in Calls, Answer(c)
  PROVE  Inv'
<1>a. PICK new : new = [link |-> call[c].link, address |-> call[c].address, signsIn |-> call[c].signsIn]
  OBVIOUS
<1>0. /\ TypeOK /\ call \in [Calls -> CallRow] /\ At(c, "ATTACHED") /\ ~At(c, "IDLE") /\ Reached(c)
      /\ Follows(call[c].link, call[c].address) /\ call[c].link \in Links /\ call[c].address \in Addresses
  BY CallTypes DEF Inv, Answer, At
<1>1. /\ answers' = answers \cup {new} /\ call' = [call EXCEPT ![c] = Idle]
      /\ stay' = stay /\ link' = link /\ account' = account /\ maker' = maker
  BY <1>a DEF Answer
<1>2. call'[c] = Idle /\ \A d \in Calls : d # c => call'[d] = call[d]
  BY <1>0, <1>1
<1>3. TypeOK'
  <2>1. call[c].signsIn \in BOOLEAN
    BY <1>0 DEF CallRow
  <2>2. new \in [link : Links, address : Addresses, signsIn : BOOLEAN]
    BY <1>0, <1>a, <2>1
  <2> QED BY <1>0, <1>1, <2>2 DEF TypeOK, Idle
<1>4. RowsStand /\ AccountsStand
  BY <1>1 DEF RowsStand, AccountsStand
<1>5. \A k \in Links : Minted(k)'
  BY <1>1 DEF Inv, Minted
<1>6. \A d \in Calls : Reached(d)'
  <2> SUFFICES ASSUME NEW d \in Calls, d # c PROVE Reached(d)'
    BY <1>2 DEF Reached, At, Idle
  <2>1. At(d, "SPENT") => link'[call[d].link].status # "CONSUMED"
    BY <1>1 DEF Inv, Reached, At
  <2> QED BY <1>2, <1>4, <2>1, ReachedKept
<1>7. \A d \in Calls : At(d, "ATTACHED")' => call'[d].link # new.link
  BY <1>0, <1>a, <1>2 DEF Inv, Alone, At, Idle
<1>8. Told(new)'
  <2>1. Stands(call[c].link, call[c].address) /\ (call[c].signsIn => maker[call[c].address] = call[c].link)
    BY <1>0 DEF Reached
  <2> QED BY <1>0, <1>a, <1>1, <1>7, <2>1 DEF Told, Follows, Stands
<1>9. \A r \in answers : Told(r)'
  <2> SUFFICES ASSUME NEW r \in answers PROVE Told(r)'
    OBVIOUS
  <2>1. \A d \in Calls : At(d, "ATTACHED")' => call'[d].link # r.link
    BY <1>2 DEF Inv, Told, At, Idle
  <2> QED BY <1>4, <2>1, ToldKept
<1>10. \A r \in answers' : Told(r)'
  BY <1>1, <1>8, <1>9
<1>11. Alone'
  BY <1>2 DEF Inv, Alone, At, Idle
<1> QED BY <1>3, <1>4, <1>5, <1>6, <1>10, <1>11, MadeKept DEF Inv

LEMMA NextInv == Inv /\ [Next]_vars => Inv'
<1> SUFFICES ASSUME Inv, [Next]_vars PROVE Inv'
  OBVIOUS
<1>1. ASSUME NEW c \in Calls, Proceed(c) PROVE Inv'
  BY <1>1, FindAccountSteps, CreateUserSteps, VerifyAndSignInSteps, BeginAttachSteps, SpendSteps,
     AttachSteps, AnswerSteps DEF Proceed
<1>2. ASSUME NEW c \in Calls, Fail(c) PROVE Inv'
  BY <1>2, GivesUp DEF Fail
<1>3. CASE UNCHANGED vars
  <2>1. RowsStand /\ AccountsStand /\ TypeOK'
    BY <1>3 DEF vars, RowsStand, AccountsStand, Inv, TypeOK
  <2>2. \A l \in Links : link[l].stay = Nobody => Minted(l)'
    BY <1>3 DEF vars, Minted
  <2> QED BY <1>3, <2>1, <2>2, Outside DEF vars
<1> QED BY <1>1, <1>2, <1>3, StaySteps, ConfirmSteps, ResendSteps, ExpireSteps, RedeemSteps,
          AccountSteps, ReadLinkSteps DEF Next

(* guest-attach.service.ts: whatever a follow is interrupted by, repeated with or
   raced by, a page says once per link that the stay is attached, it is, to the
   account of the address the link was mailed to, and it stays so.            *)
THEOREM AnswersStand == Spec => []AnswersAreAttaches
<1>1. Inv => AnswersAreAttaches
  BY DEF Inv, Told, Follows, Stands, Alone, AnswersAreAttaches
<1> QED BY <1>1, InitInv, NextInv, PTL DEF Spec

-----------------------------------------------------------------------------
(* The pool *)

(* guest-attach.service.ts, "Why the account is created between two
   transactions": the connections the follows keep are those of transactions
   that have one only to wait for each other's links, never for a connection,
   so that one of them can always go on, however many follows there are and
   however few connections.                                                 *)
THEOREM FollowsNeverStarveEachOther == Spec => []SomeFollowGoesOn
<1>1. ASSUME Inv, NEW c \in Calls, ~At(c, "IDLE") PROVE \E d \in Calls : CanGoOn(d)
  <2>0. \A d \in Calls : call[d].at \in {"IDLE", "OFFERED", "MISSING", "MADE", "READY",
                                         "BEGUN", "SPENT", "ATTACHED"}
    BY <1>1, CallTypes DEF Inv, CallRow
  <2>1. CASE \E d \in Calls : At(d, "SPENT")
    BY <2>1 DEF CanGoOn, At
  <2>2. CASE (\A d \in Calls : ~At(d, "SPENT")) /\ \E d \in Calls : At(d, "BEGUN")
    BY <2>2 DEF CanGoOn, RowIsFree
  <2>3. CASE \A d \in Calls : ~At(d, "SPENT") /\ ~At(d, "BEGUN")
    <3>1. {d \in Calls : call[d].at \in InTransaction} = {}
      BY <2>3 DEF At, InTransaction
    <3>2. Cardinality({d \in Calls : call[d].at \in InTransaction}) = 0
      BY <3>1, FS_EmptySet, Zenon
    <3>3. FreeConnection
      <4>1. Connections > 0
        BY PoolAssumption
      <4> QED BY <3>2, <4>1 DEF FreeConnection
    <3> QED BY <1>1, <2>0, <2>3, <3>3 DEF CanGoOn, At
  <2> QED BY <2>1, <2>2, <2>3
<1>2. Inv => SomeFollowGoesOn
  BY <1>1 DEF SomeFollowGoesOn
<1> QED BY <1>2, InitInv, NextInv, PTL DEF Spec
=============================================================================
