----------------------------- MODULE FolioProofs -----------------------------
(* The safety properties of Folio, for any stays, dates, prices and figures, and
   for accounts of any length.

   The induction is over the ledger: an account only grows at its end, a line
   names lines before it (Backward), and what a write appends is one of four
   shapes: lines that name nothing, a sale with what is levied on it, a policy
   charge, or the reversal of a whole sale. What an account comes to plays no part
   in it: a closed account is never written to, so it stays where the close found
   it. In this invariant (Inv) amounts are left untyped, as members of some set.

   The rest is about the money. A sum is a fold, so that there is one has to be
   shown first (FoldExists); then the operators of Tariff are bounded, the nights
   of a stay telescope to its quote, and a second invariant (Money), over the
   first, types every amount and bounds what each line says.                  *)
EXTENDS Folio, FiniteSetTheorems, SequenceTheorems, NaturalsInduction,
        WellFoundedInduction, TLAPS

LineOver(A) ==
  [type : Types, amount : A, of : Nat, reverses : Nat, on : Nat, swept : BOOLEAN]

Ledger(l) == \E A : l \in Seq(LineOver(A))

-----------------------------------------------------------------------------
(* One account, as a sequence of lines. *)

Reverses(l, i) == \E j \in DOMAIN l : l[j].reverses = i

Stand(l, type) == {i \in DOMAIN l : l[i].type = type /\ ~Reverses(l, i)}

Backward(l) ==
  \A i \in DOMAIN l : l[i].of \in 0 .. (i - 1) /\ l[i].reverses \in 0 .. (i - 1)

Flat(l) == \A i \in DOMAIN l : l[i].of # 0 => l[l[i].of].of = 0

Nights(l) ==
  \A i, j \in DOMAIN l :
    /\ l[i].swept /\ l[j].swept
    /\ l[i].type = "ROOM_CHARGE" /\ l[j].type = "ROOM_CHARGE"
    /\ l[i].on = l[j].on
    => i = j

NoTax(l) ==
  \A i \in DOMAIN l : l[i].of # 0 /\ Reverses(l, l[i].of) => Reverses(l, i)

OnePolicy(l) == \A i, j \in Stand(l, "POLICY_CHARGE") : i = j

Sound(l) ==
  Ledger(l) /\ Backward(l) /\ Flat(l) /\ Nights(l) /\ NoTax(l) /\ OnePolicy(l)

(* A ledger with lines appended to it. *)
LEMMA Appended ==
  ASSUME NEW l, NEW new, Ledger(l), Ledger(new)
  PROVE  /\ Ledger(l \o new)
         /\ Len(l) \in Nat /\ Len(new) \in Nat
         /\ DOMAIN l = 1 .. Len(l) /\ DOMAIN new = 1 .. Len(new)
         /\ DOMAIN (l \o new) = 1 .. (Len(l) + Len(new))
         /\ \A i \in 1 .. Len(l) : (l \o new)[i] = l[i]
         /\ \A k \in 1 .. Len(new) : (l \o new)[Len(l) + k] = new[k]
<1>1. PICK A : l \in Seq(LineOver(A))
  BY DEF Ledger
<1>2. PICK B : new \in Seq(LineOver(B))
  BY DEF Ledger
<1> DEFINE S == LineOver(A \cup B)
<1>3. l \in Seq(S) /\ new \in Seq(S)
  <2>1. LineOver(A) \subseteq S /\ LineOver(B) \subseteq S
    BY DEF LineOver
  <2> HIDE DEF S
  <2> QED BY <1>1, <1>2, <2>1, SeqMonotonic
<1> HIDE DEF S
<1>4. /\ l \o new \in Seq(S) /\ Len(l \o new) = Len(l) + Len(new)
      /\ \A i \in 1 .. Len(l) + Len(new) :
           (l \o new)[i] = IF i <= Len(l) THEN l[i] ELSE new[i - Len(l)]
  BY <1>3, ConcatProperties
<1>5. /\ Len(l) \in Nat /\ DOMAIN l = 1 .. Len(l)
      /\ Len(new) \in Nat /\ DOMAIN new = 1 .. Len(new)
      /\ DOMAIN (l \o new) = 1 .. Len(l \o new)
  BY <1>3, <1>4, LenProperties
<1>6. Ledger(l \o new)
  BY <1>4 DEF Ledger, S
<1>7. \A i \in 1 .. Len(l) : (l \o new)[i] = l[i]
  BY <1>4, <1>5
<1>8. \A k \in 1 .. Len(new) : (l \o new)[Len(l) + k] = new[k]
  BY <1>4, <1>5
<1> QED BY <1>4, <1>5, <1>6, <1>7, <1>8

(* What a write may append: lines that look back, and none that is an earlier
   night over again; a sale that is taken back is taken back whole; and a policy
   charge only where none stands.                                             *)
LEMMA AppendedSound ==
  ASSUME NEW l, NEW new, Sound(l), Ledger(new),
         \A k \in DOMAIN new : /\ new[k].of \in 0 .. (Len(l) + k - 1)
                               /\ new[k].reverses \in 0 .. (Len(l) + k - 1),
         \A k \in DOMAIN new : new[k].of # 0 => (l \o new)[new[k].of].of = 0,
         \A k, m \in DOMAIN new : new[k].swept /\ new[m].swept
           /\ new[k].type = "ROOM_CHARGE" /\ new[m].type = "ROOM_CHARGE" => k = m,
         \A k \in DOMAIN new : new[k].swept /\ new[k].type = "ROOM_CHARGE" =>
           \A i \in DOMAIN l :
             l[i].swept /\ l[i].type = "ROOM_CHARGE" => l[i].on # new[k].on,
         \A k \in DOMAIN new : new[k].of # 0 => ~Reverses(l \o new, new[k].of),
         \A i \in DOMAIN l : l[i].of # 0 /\ Reverses(new, l[i].of) =>
           Reverses(l \o new, i),
         \A k, m \in DOMAIN new :
           new[k].type = "POLICY_CHARGE" /\ new[m].type = "POLICY_CHARGE" => k = m,
         \A k \in DOMAIN new :
           new[k].type = "POLICY_CHARGE" => Stand(l, "POLICY_CHARGE") = {}
  PROVE  Sound(l \o new)
<1> DEFINE n == Len(l)
           both == l \o new
<1>1. /\ Ledger(both) /\ n \in Nat /\ Len(new) \in Nat
      /\ DOMAIN l = 1 .. n /\ DOMAIN new = 1 .. Len(new)
      /\ DOMAIN both = 1 .. (n + Len(new))
      /\ \A i \in 1 .. n : both[i] = l[i]
      /\ \A k \in 1 .. Len(new) : both[n + k] = new[k]
  BY Appended DEF Sound
<1>2. \A i \in DOMAIN both : i \in DOMAIN l \/ (\E k \in DOMAIN new : i = n + k)
  <2> SUFFICES ASSUME NEW i \in 1 .. (n + Len(new)), i \notin 1 .. n
               PROVE  \E k \in 1 .. Len(new) : i = n + k
    BY <1>1
  <2> i - n \in 1 .. Len(new) /\ i = n + (i - n)
    BY <1>1
  <2> QED OBVIOUS
<1>3. \A i \in DOMAIN l : i \in DOMAIN both /\ both[i] = l[i] /\ i \in Nat /\ i <= n
  BY <1>1
<1>4. \A k \in DOMAIN new : n + k \in DOMAIN both /\ both[n + k] = new[k] /\ n + k > n
                            /\ k \in Nat
  BY <1>1
<1>5. n \in Nat
  BY <1>1
<1> HIDE DEF n, both
<1>6. \A i : Reverses(both, i) <=> (Reverses(l, i) \/ Reverses(new, i))
  BY <1>2, <1>3, <1>4 DEF Reverses
<1>7. Backward(both)
  BY <1>2, <1>3, <1>4 DEF Backward, Sound, n
<1>11. Flat(both)
  <2> SUFFICES ASSUME NEW i \in DOMAIN both, both[i].of # 0
               PROVE  both[both[i].of].of = 0
    BY DEF Flat
  <2>1. CASE i \in DOMAIN l
    <3>1. l[i].of \in DOMAIN l
      BY <2>1, <1>1, <1>3 DEF Sound, Backward, n
    <3> QED BY <2>1, <3>1, <1>3 DEF Sound, Flat
  <2>2. ASSUME NEW k \in DOMAIN new, i = n + k PROVE both[both[i].of].of = 0
    BY <2>2, <1>4 DEF both
  <2> QED BY <2>1, <2>2, <1>2
<1>8. Nights(both)
  <2> SUFFICES ASSUME NEW i \in DOMAIN both, NEW j \in DOMAIN both,
                      both[i].swept, both[j].swept, both[i].type = "ROOM_CHARGE",
                      both[j].type = "ROOM_CHARGE", both[i].on = both[j].on
               PROVE  i = j
    BY DEF Nights
  <2>1. CASE i \in DOMAIN l /\ j \in DOMAIN l
    BY <2>1, <1>3 DEF Sound, Nights
  <2>2. ASSUME NEW k \in DOMAIN new, i = n + k, NEW m \in DOMAIN new, j = n + m
        PROVE  i = j
    BY <2>2, <1>4
  <2>3. ASSUME i \in DOMAIN l, NEW m \in DOMAIN new, j = n + m PROVE FALSE
    BY <2>3, <1>3, <1>4
  <2>4. ASSUME j \in DOMAIN l, NEW k \in DOMAIN new, i = n + k PROVE FALSE
    BY <2>4, <1>3, <1>4
  <2> QED BY <2>1, <2>2, <2>3, <2>4, <1>2
<1>9. NoTax(both)
  <2> SUFFICES ASSUME NEW i \in DOMAIN both, both[i].of # 0, Reverses(both, both[i].of)
               PROVE  Reverses(both, i)
    BY DEF NoTax
  <2>1. CASE i \in DOMAIN l
    BY <2>1, <1>3, <1>6 DEF Sound, NoTax, both
  <2>2. ASSUME NEW k \in DOMAIN new, i = n + k PROVE FALSE
    BY <2>2, <1>4 DEF both
  <2> QED BY <2>1, <2>2, <1>2
<1>10. OnePolicy(both)
  <2> SUFFICES ASSUME NEW i \in Stand(both, "POLICY_CHARGE"),
                      NEW j \in Stand(both, "POLICY_CHARGE")
               PROVE  i = j
    BY DEF OnePolicy
  <2>1. i \in DOMAIN l => i \in Stand(l, "POLICY_CHARGE")
    BY <1>3, <1>6 DEF Stand
  <2>2. j \in DOMAIN l => j \in Stand(l, "POLICY_CHARGE")
    BY <1>3, <1>6 DEF Stand
  <2>3. ASSUME NEW k \in DOMAIN new, i = n + k \/ j = n + k
        PROVE  new[k].type = "POLICY_CHARGE"
    BY <2>3, <1>4 DEF Stand
  <2>4. CASE i \in DOMAIN l /\ j \in DOMAIN l
    BY <2>1, <2>2, <2>4 DEF Sound, OnePolicy
  <2>5. ASSUME NEW k \in DOMAIN new, i = n + k, NEW m \in DOMAIN new, j = n + m
        PROVE  i = j
    BY <2>5, <2>3
  <2>6. ASSUME i \in DOMAIN l, NEW m \in DOMAIN new, j = n + m PROVE FALSE
    BY <2>6, <2>3, <2>1
  <2>7. ASSUME j \in DOMAIN l, NEW k \in DOMAIN new, i = n + k PROVE FALSE
    BY <2>7, <2>3, <2>2
  <2>8. i \in DOMAIN both /\ j \in DOMAIN both
    BY DEF Stand
  <2> QED BY <2>4, <2>5, <2>6, <2>7, <2>8, <1>2
<1> QED BY <1>1, <1>7, <1>11, <1>8, <1>9, <1>10 DEF Sound, both, n

-----------------------------------------------------------------------------
(* The shapes of what is appended. *)

Plain(line) == line.of = 0 /\ line.reverses = 0 /\ ~line.swept

LEMMA PlainSound ==
  ASSUME NEW l, NEW new, Sound(l), Ledger(new), \A k \in DOMAIN new : Plain(new[k]),
         \A k \in DOMAIN new : new[k].type # "POLICY_CHARGE"
  PROVE  Sound(l \o new)
<1>1. /\ Len(l) \in Nat /\ Len(new) \in Nat
      /\ DOMAIN l = 1 .. Len(l) /\ DOMAIN new = 1 .. Len(new)
  BY Appended DEF Sound
<1>2. \A k \in DOMAIN new : /\ new[k].of \in 0 .. (Len(l) + k - 1)
                            /\ new[k].reverses \in 0 .. (Len(l) + k - 1)
  BY <1>1 DEF Plain
<1>3. \A i \in DOMAIN l : l[i].of # 0 => ~Reverses(new, l[i].of)
  BY DEF Plain, Reverses
<1> QED BY <1>2, <1>3, AppendedSound DEF Plain

LEMMA PolicySound ==
  ASSUME NEW l, NEW new, Sound(l), Ledger(new), \A k \in DOMAIN new : Plain(new[k]),
         \A k \in DOMAIN new : new[k].type = "POLICY_CHARGE" => k = 1,
         Stand(l, "POLICY_CHARGE") = {}
  PROVE  Sound(l \o new)
<1>1. /\ Len(l) \in Nat /\ Len(new) \in Nat
      /\ DOMAIN l = 1 .. Len(l) /\ DOMAIN new = 1 .. Len(new)
  BY Appended DEF Sound
<1>2. \A k \in DOMAIN new : /\ new[k].of \in 0 .. (Len(l) + k - 1)
                            /\ new[k].reverses \in 0 .. (Len(l) + k - 1)
  BY <1>1 DEF Plain
<1>3. \A i \in DOMAIN l : l[i].of # 0 => ~Reverses(new, l[i].of)
  BY DEF Plain, Reverses
<1> QED BY <1>2, <1>3, AppendedSound DEF Plain

(* A sale: the charge, and two lines levied on it. *)
IsSale(new, n) ==
  /\ Len(new) = 3 /\ new[1].of = 0 /\ new[2].of = n + 1 /\ new[3].of = n + 1
  /\ \A k \in 1 .. 3 : new[k].reverses = 0 /\ new[k].type # "POLICY_CHARGE"
  /\ new[2].type # "ROOM_CHARGE" /\ new[3].type # "ROOM_CHARGE"

LEMMA SaleSound ==
  ASSUME NEW l, NEW new, Sound(l), Ledger(new), IsSale(new, Len(l)),
         new[1].swept /\ new[1].type = "ROOM_CHARGE" => \A i \in DOMAIN l :
           l[i].swept /\ l[i].type = "ROOM_CHARGE" => l[i].on # new[1].on
  PROVE  Sound(l \o new)
<1>1. /\ Len(l) \in Nat /\ Len(new) = 3
      /\ DOMAIN l = 1 .. Len(l) /\ DOMAIN new = 1 .. 3
      /\ DOMAIN (l \o new) = 1 .. (Len(l) + 3)
      /\ \A i \in 1 .. Len(l) : (l \o new)[i] = l[i]
      /\ \A k \in 1 .. 3 : (l \o new)[Len(l) + k] = new[k]
  <2>1. Ledger(l)
    BY DEF Sound
  <2>3. Len(new) = 3
    BY DEF IsSale
  <2>2. /\ Ledger(l \o new)
        /\ Len(l) \in Nat /\ Len(new) \in Nat
        /\ DOMAIN l = 1 .. Len(l) /\ DOMAIN new = 1 .. Len(new)
        /\ DOMAIN (l \o new) = 1 .. (Len(l) + Len(new))
        /\ \A i \in 1 .. Len(l) : (l \o new)[i] = l[i]
        /\ \A k \in 1 .. Len(new) : (l \o new)[Len(l) + k] = new[k]
    BY <2>1, Appended
  <2> QED BY <2>2, <2>3
<1>2. \A k \in DOMAIN new : k = 1 \/ k = 2 \/ k = 3
  BY <1>1
<1>3. \A k \in DOMAIN new : /\ new[k].of \in 0 .. (Len(l) + k - 1)
                            /\ new[k].reverses \in 0 .. (Len(l) + k - 1)
                            /\ new[k].reverses = 0 /\ new[k].type # "POLICY_CHARGE"
                            /\ new[k].type = "ROOM_CHARGE" => k = 1
                            /\ new[k].of # 0 => new[k].of = Len(l) + 1
  BY <1>1, <1>2 DEF IsSale
<1>4. \A i \in DOMAIN l : l[i].of # 0 => ~Reverses(new, l[i].of)
  BY <1>3 DEF Reverses
<1>5. ~Reverses(l \o new, Len(l) + 1)
  <2> SUFFICES ASSUME NEW j \in 1 .. (Len(l) + 3), (l \o new)[j].reverses = Len(l) + 1
               PROVE  FALSE
    BY <1>1 DEF Reverses
  <2>1. CASE j \in 1 .. Len(l)
    BY <2>1, <1>1 DEF Sound, Backward
  <2>2. CASE j \notin 1 .. Len(l)
    <3>1. j - Len(l) \in 1 .. 3 /\ j = Len(l) + (j - Len(l))
      BY <2>2, <1>1
    <3>2. (l \o new)[j].reverses = 0
      BY <3>1, <1>1, <1>3
    <3> QED BY <3>2, <1>1
  <2> QED BY <2>1, <2>2
<1>6. (l \o new)[Len(l) + 1].of = 0
  BY <1>1 DEF IsSale
<1> HIDE DEF IsSale
<1> QED BY <1>6, <1>3, <1>4, <1>5, AppendedSound

(* The reversal of a line with everything levied on it. *)
LEMMA ReversalSound ==
  ASSUME NEW l, NEW new, Sound(l), Ledger(new), NEW i \in DOMAIN l,
         \A k \in DOMAIN new : /\ new[k].of = 0 /\ ~new[k].swept
                               /\ new[k].type = "REVERSAL"
                               /\ new[k].reverses \in DOMAIN l
                               /\ new[k].reverses = i \/ l[new[k].reverses].of = i,
         \A j \in DOMAIN l : j = i \/ l[j].of = i => Reverses(new, j)
  PROVE  Sound(l \o new)
<1>1. /\ Len(l) \in Nat /\ Len(new) \in Nat
      /\ DOMAIN l = 1 .. Len(l) /\ DOMAIN new = 1 .. Len(new)
      /\ DOMAIN (l \o new) = 1 .. (Len(l) + Len(new))
      /\ \A k \in 1 .. Len(new) : (l \o new)[Len(l) + k] = new[k]
  BY Appended DEF Sound
<1>2. ASSUME NEW k \in DOMAIN new
      PROVE  /\ new[k].of \in 0 .. (Len(l) + k - 1)
             /\ new[k].reverses \in 0 .. (Len(l) + k - 1)
  <2> k \in 1 .. Len(new) /\ new[k].reverses \in 1 .. Len(l) /\ new[k].of = 0
    BY <1>1
  <2> QED BY <1>1
<1>3. ASSUME NEW j, Reverses(new, j) PROVE Reverses(l \o new, j)
  <2>1. PICK k \in DOMAIN new : new[k].reverses = j
    BY <1>3 DEF Reverses
  <2>2. Len(l) + k \in DOMAIN (l \o new) /\ (l \o new)[Len(l) + k] = new[k]
    BY <1>1
  <2> QED BY <2>1, <2>2 DEF Reverses
(* What is levied on a line is levied on a sale: nothing is levied on it. *)
<1>4. ASSUME NEW j \in DOMAIN l, l[j].of # 0, Reverses(new, l[j].of)
      PROVE  Reverses(l \o new, j)
  <2>1. l[j].of = i \/ l[l[j].of].of = i
    BY <1>4 DEF Reverses
  <2>2. i # 0
    BY <1>1
  <2>3. l[j].of = i
    BY <1>4, <2>1, <2>2 DEF Sound, Flat
  <2> QED BY <1>3, <2>3
<1> QED BY <1>2, <1>4, AppendedSound

-----------------------------------------------------------------------------
(* The induction over the whole of Folio. *)

Rows ==
  \A p \in payments : /\ p \in [stay : Stays, line : Nat, status : {"SUCCESS", "REFUNDED"}]
                      /\ p.line \in DOMAIN lines[p.stay]

Tables ==
  /\ today \in Nat
  /\ account \in [Stays -> {"NONE", "OPEN", "CLOSED"}]
  /\ lines = [s \in Stays |-> lines[s]]
  /\ Rows

Inv ==
  /\ Tables
  /\ \A s \in Stays : Sound(lines[s])
  /\ DrawerFollowsItsLine
  /\ ClosedAccountsAgree

LEMMA EmptyLedger == Sound(<<>>)
<1>1. Ledger(<<>>)
  BY EmptySeq DEF Ledger
<1>2. DOMAIN <<>> = {}
  OBVIOUS
<1> QED BY <1>1, <1>2 DEF Sound, Backward, Flat, Nights, NoTax, OnePolicy, Stand

LEMMA InitInv == Init => Inv
<1> SUFFICES ASSUME Init PROVE Inv
  OBVIOUS
<1>1. Tables
  BY DEF Init, Tables, Rows
<1>2. \A s \in Stays : Sound(lines[s])
  BY EmptyLedger DEF Init
<1>3. DrawerFollowsItsLine /\ ClosedAccountsAgree
  BY DEF Init, DrawerFollowsItsLine, ClosedAccountsAgree
<1> QED BY <1>1, <1>2, <1>3 DEF Inv

(* What a write leaves: one open account, longer by what was written. *)
LEMMA Written ==
  ASSUME Inv, NEW s \in Stays, NEW new, Write(s, new)
  PROVE  /\ account[s] # "CLOSED"
         /\ account' \in [Stays -> {"NONE", "OPEN", "CLOSED"}]
         /\ lines' = [t \in Stays |-> lines'[t]]
         /\ lines'[s] = lines[s] \o new
         /\ \A t \in Stays \ {s} : lines'[t] = lines[t] /\ account'[t] = account[t]
         /\ account'[s] = "OPEN" /\ today' = today
BY DEF Inv, Tables, Write, Accepts, stays

(* Closed accounts are not written to. *)
LEMMA WriteAgrees ==
  ASSUME Inv, NEW s \in Stays, NEW new, Write(s, new)
  PROVE  ClosedAccountsAgree'
BY Written DEF Inv, ClosedAccountsAgree, Balance

(* Lines that reverse nothing leave every reversal as it is. *)
LEMMA WriteReverses ==
  ASSUME NEW l, NEW new, Ledger(l), Ledger(new), NEW i
  PROVE  Reverses(l \o new, i) <=> Reverses(l, i) \/ Reverses(new, i)
<1>1. /\ Len(l) \in Nat /\ Len(new) \in Nat
      /\ DOMAIN l = 1 .. Len(l) /\ DOMAIN new = 1 .. Len(new)
      /\ DOMAIN (l \o new) = 1 .. (Len(l) + Len(new))
      /\ \A j \in 1 .. Len(l) : (l \o new)[j] = l[j]
      /\ \A k \in 1 .. Len(new) : (l \o new)[Len(l) + k] = new[k]
  BY Appended
<1>2. ASSUME Reverses(l \o new, i) PROVE Reverses(l, i) \/ Reverses(new, i)
  <2>1. PICK j \in 1 .. (Len(l) + Len(new)) : (l \o new)[j].reverses = i
    BY <1>1, <1>2 DEF Reverses
  <2>2. CASE j \in 1 .. Len(l)
    BY <2>1, <2>2, <1>1 DEF Reverses
  <2>3. CASE j \notin 1 .. Len(l)
    <3>1. j - Len(l) \in 1 .. Len(new) /\ j = Len(l) + (j - Len(l))
      BY <2>1, <2>3, <1>1
    <3> QED BY <2>1, <3>1, <1>1 DEF Reverses
  <2> QED BY <2>2, <2>3
<1>3. ASSUME Reverses(l, i) PROVE Reverses(l \o new, i)
  <2>1. PICK j \in DOMAIN l : l[j].reverses = i
    BY <1>3 DEF Reverses
  <2>2. j \in DOMAIN (l \o new) /\ (l \o new)[j] = l[j]
    BY <1>1
  <2> QED BY <2>1, <2>2 DEF Reverses
<1>4. ASSUME Reverses(new, i) PROVE Reverses(l \o new, i)
  <2>1. PICK k \in DOMAIN new : new[k].reverses = i
    BY <1>4 DEF Reverses
  <2>2. Len(l) + k \in DOMAIN (l \o new) /\ (l \o new)[Len(l) + k] = new[k]
    BY <1>1
  <2> QED BY <2>1, <2>2 DEF Reverses
<1> QED BY <1>2, <1>3, <1>4

(* The payment rows of a step that appends to some accounts and reverses
   nothing on any of them.                                                    *)
LEMMA RowsKept ==
  ASSUME Inv, lines' = [s \in Stays |-> lines'[s]], payments' = payments,
         \A s \in Stays : lines'[s] = lines[s] \/ \E new :
           /\ lines'[s] = lines[s] \o new /\ Ledger(new)
           /\ \A k \in DOMAIN new : new[k].reverses = 0
  PROVE  Rows' /\ DrawerFollowsItsLine'
<1> SUFFICES ASSUME NEW p \in payments
             PROVE  /\ p \in [stay : Stays, line : Nat, status : {"SUCCESS", "REFUNDED"}]
                    /\ p.line \in DOMAIN lines'[p.stay]
                    /\ (p.status = "REFUNDED") <=> Reversed(p.stay, p.line)'
  BY DEF Rows, DrawerFollowsItsLine
<1>1. /\ p \in [stay : Stays, line : Nat, status : {"SUCCESS", "REFUNDED"}]
      /\ p.stay \in Stays /\ p.line \in DOMAIN lines[p.stay]
      /\ (p.status = "REFUNDED") <=> Reverses(lines[p.stay], p.line)
      /\ Ledger(lines[p.stay])
  BY DEF Inv, Tables, Rows, DrawerFollowsItsLine, Reversed, Reverses, Sound
<1>2. CASE lines'[p.stay] = lines[p.stay]
  BY <1>1, <1>2 DEF Reversed, Reverses
<1>3. ASSUME NEW new, lines'[p.stay] = lines[p.stay] \o new, Ledger(new),
             \A k \in DOMAIN new : new[k].reverses = 0
      PROVE  /\ p.line \in DOMAIN lines'[p.stay]
             /\ (p.status = "REFUNDED") <=> Reversed(p.stay, p.line)'
  <2>1. /\ Len(lines[p.stay]) \in Nat /\ Len(new) \in Nat
        /\ DOMAIN lines[p.stay] = 1 .. Len(lines[p.stay])
        /\ DOMAIN lines'[p.stay] = 1 .. (Len(lines[p.stay]) + Len(new))
    BY <1>1, <1>3, Appended
  <2>2. p.line # 0 /\ p.line \in DOMAIN lines'[p.stay]
    BY <1>1, <2>1
  <2>3. ~Reverses(new, p.line)
    BY <1>3, <2>2 DEF Reverses
  <2>4. Reverses(lines'[p.stay], p.line) <=> Reverses(lines[p.stay], p.line)
    BY <1>1, <1>3, <2>3, WriteReverses
  <2> QED BY <1>1, <2>2, <2>4 DEF Reversed, Reverses
<1> QED BY <1>1, <1>2, <1>3

LEMMA WriteInv ==
  ASSUME Inv, NEW s \in Stays, NEW new, Write(s, new), Ledger(new),
         Sound(lines[s] \o new), \A k \in DOMAIN new : new[k].reverses = 0,
         payments' = payments
  PROVE  Inv'
<1>1. /\ lines' = [t \in Stays |-> lines'[t]] /\ lines'[s] = lines[s] \o new
      /\ \A t \in Stays \ {s} : lines'[t] = lines[t]
      /\ account' \in [Stays -> {"NONE", "OPEN", "CLOSED"}] /\ today' = today
  BY Written
<1>2. \A t \in Stays : lines'[t] = lines[t] \/ t = s
  BY <1>1
<1>3. Rows' /\ DrawerFollowsItsLine'
  BY <1>1, <1>2, RowsKept
<1>4. Tables'
  BY <1>1, <1>3 DEF Inv, Tables
<1>5. \A t \in Stays : Sound(lines'[t])
  BY <1>1, <1>2 DEF Inv
<1> QED BY <1>3, <1>4, <1>5, WriteAgrees DEF Inv

(* A step that leaves the ledger alone. *)
LEMMA LedgerKept ==
  ASSUME Inv, UNCHANGED ledger, today' \in Nat
  PROVE  Inv'
<1>1. Tables'
  BY DEF Inv, Tables, Rows, ledger
<1>2. ClosedAccountsAgree'
  BY DEF Inv, ClosedAccountsAgree, Balance, ledger
<1>3. DrawerFollowsItsLine'
  BY DEF Inv, DrawerFollowsItsLine, Reversed, ledger
<1> QED BY <1>1, <1>2, <1>3 DEF Inv, ledger

-----------------------------------------------------------------------------
(* What each operation writes. *)

LEMMA OneLine ==
  ASSUME NEW type \in Types, NEW amount
  PROVE  /\ Ledger(<<Posted(type, amount)>>)
         /\ DOMAIN <<Posted(type, amount)>> = {1}
         /\ Plain(Posted(type, amount)) /\ Posted(type, amount).type = type
<1>1. Posted(type, amount) \in LineOver({amount})
  BY DEF Posted, LineOver
<1>2. <<Posted(type, amount)>> \in Seq(LineOver({amount}))
  BY <1>1
<1> QED BY <1>2 DEF Ledger, Posted, Plain

LEMMA SaleShape ==
  ASSUME Inv, NEW s \in Stays, NEW gross, NEW charge \in LineOver({0}),
         charge.of = 0, charge.reverses = 0, charge.type # "POLICY_CHARGE"
  PROVE  /\ Ledger(Sale(s, charge, gross)) /\ IsSale(Sale(s, charge, gross), Len(lines[s]))
         /\ DOMAIN Sale(s, charge, gross) = 1 .. 3
         /\ Sale(s, charge, gross)[1].type = charge.type
         /\ Sale(s, charge, gross)[1].on = charge.on
         /\ Sale(s, charge, gross)[1].swept = charge.swept
<1>1. Len(lines[s]) \in Nat
  BY LenProperties DEF Inv, Sound, Ledger
<1> DEFINE net == Decompose(gross, Rules).net
           fee == Decompose(gross, Rules).service
           vat == Decompose(gross, Rules).vat
           first == [charge EXCEPT !.amount = net]
           levied == [Posted("VAT", 0) EXCEPT !.of = Len(lines[s]) + 1]
           second == [levied EXCEPT !.type = "SERVICE_CHARGE_FEE", !.amount = fee]
           third == [levied EXCEPT !.amount = vat]
<1>2. Sale(s, charge, gross) = <<first, second, third>>
  BY DEF Sale
<1> HIDE DEF net, fee, vat
<1>3. first \in LineOver({net, fee, vat}) /\ first.of = 0 /\ first.reverses = 0
      /\ first.type = charge.type /\ first.on = charge.on /\ first.swept = charge.swept
  BY DEF LineOver
<1>4. /\ levied \in [type : Types, amount : Int, of : Nat, reverses : {0}, on : {0},
                      swept : BOOLEAN]
      /\ levied.of = Len(lines[s]) + 1 /\ levied.type = "VAT"
  <2>1. /\ Posted("VAT", 0) \in [type : Types, amount : Int, of : Nat, reverses : {0},
                                 on : {0}, swept : BOOLEAN]
        /\ Posted("VAT", 0).type = "VAT"
    BY DEF Posted, Types
  <2> QED BY <1>1, <2>1
<1> HIDE DEF levied
<1>10. /\ second.type = "SERVICE_CHARGE_FEE" /\ third.type = "VAT"
       /\ second.of = Len(lines[s]) + 1 /\ third.of = Len(lines[s]) + 1
       /\ second.reverses = 0 /\ third.reverses = 0
  BY <1>4
<1>5. second \in LineOver({net, fee, vat}) /\ third \in LineOver({net, fee, vat})
  BY <1>1, <1>4 DEF LineOver, Types
<1> HIDE DEF first, second, third
<1>6. <<first, second, third>> \in Seq(LineOver({net, fee, vat}))
  BY <1>3, <1>5
<1>7. Ledger(Sale(s, charge, gross))
  BY <1>2, <1>6 DEF Ledger
<1>8. /\ Len(Sale(s, charge, gross)) = 3 /\ DOMAIN Sale(s, charge, gross) = 1 .. 3
      /\ Sale(s, charge, gross)[1] = first /\ Sale(s, charge, gross)[2] = second
      /\ Sale(s, charge, gross)[3] = third
  BY <1>2
<1>9. IsSale(Sale(s, charge, gross), Len(lines[s]))
  <2>1. \A k \in 1 .. 3 : k = 1 \/ k = 2 \/ k = 3
    OBVIOUS
  <2> QED BY <1>3, <1>10, <1>8, <2>1 DEF IsSale
<1> QED BY <1>3, <1>7, <1>8, <1>9

LEMMA PostChargeInv ==
  ASSUME Inv, NEW s \in Stays, NEW gross \in Figures, PostCharge(s, gross)
  PROVE  Inv'
<1>1. PICK type \in {"ROOM_CHARGE", "SERVICE_ITEM"} : Write(s, Sale(s, Posted(type, 0), gross))
  BY DEF PostCharge
<1> DEFINE charge == Posted(type, 0)
           sale == Sale(s, charge, gross)
<1>2. /\ charge \in LineOver({0}) /\ charge.of = 0 /\ charge.reverses = 0
      /\ charge.type # "POLICY_CHARGE" /\ charge.swept = FALSE
  BY DEF Posted, LineOver, Types
<1> HIDE DEF charge
<1>3. /\ Ledger(sale) /\ IsSale(sale, Len(lines[s]))
      /\ DOMAIN sale = 1 .. 3 /\ sale[1].swept = FALSE
  BY <1>2, SaleShape
<1> HIDE DEF sale
<1>4. Sound(lines[s] \o sale)
  BY <1>3, SaleSound DEF Inv
<1>5. \A k \in DOMAIN sale : sale[k].reverses = 0
  BY <1>3 DEF IsSale
<1> QED BY <1>1, <1>3, <1>4, <1>5, WriteInv DEF PostCharge, charge, sale

(* A payment or a refund, whoever posts it. *)
LEMMA TakingInv ==
  ASSUME Inv, NEW s \in Stays, NEW type \in {"PAYMENT", "REFUND"}, NEW amount,
         Write(s, <<Posted(type, amount)>>), payments' = payments
  PROVE  Inv'
<1> DEFINE new == <<Posted(type, amount)>>
<1>1. Ledger(new) /\ DOMAIN new = {1} /\ Plain(new[1]) /\ new[1].type = type
  BY OneLine DEF Types
<1> HIDE DEF new
<1>2. \A k \in DOMAIN new : /\ Plain(new[k]) /\ new[k].reverses = 0
                            /\ new[k].type # "POLICY_CHARGE"
  BY <1>1 DEF Plain
<1>3. Sound(lines[s] \o new)
  BY <1>1, <1>2, PlainSound DEF Inv
<1> QED BY <1>1, <1>2, <1>3, WriteInv DEF new

(* The desk's own payment: its row names the line that was just written. *)
LEMMA PostPaymentInv ==
  ASSUME Inv, NEW s \in Stays, NEW a \in Figures, PostPayment(s, a)
  PROVE  Inv'
<1> DEFINE new == <<Posted("PAYMENT", -a)>>
           row == [stay |-> s, line |-> Len(lines[s]) + 1, status |-> "SUCCESS"]
<1>1. /\ Ledger(new) /\ DOMAIN new = {1} /\ Plain(new[1]) /\ new[1].type = "PAYMENT"
  BY OneLine DEF Types
<1>2. Write(s, new) /\ payments' = payments \cup {row}
  BY DEF PostPayment
<1>3. row.stay = s /\ row.line = Len(lines[s]) + 1 /\ row.status = "SUCCESS"
  OBVIOUS
<1>4. row \in [stay : {s}, line : {Len(lines[s]) + 1}, status : {"SUCCESS"}]
  OBVIOUS
<1> HIDE DEF new, row
<1>5. \A k \in DOMAIN new : /\ Plain(new[k]) /\ new[k].reverses = 0
                            /\ new[k].type # "POLICY_CHARGE"
  BY <1>1 DEF Plain
<1>6. Sound(lines[s] \o new)
  BY <1>1, <1>5, PlainSound DEF Inv
<1>7. /\ lines' = [t \in Stays |-> lines'[t]] /\ lines'[s] = lines[s] \o new
      /\ \A t \in Stays \ {s} : lines'[t] = lines[t]
      /\ today' = today /\ account' \in [Stays -> {"NONE", "OPEN", "CLOSED"}]
  BY <1>2, Written
<1>8. /\ Len(lines[s]) \in Nat /\ Len(new) \in Nat
      /\ DOMAIN lines[s] = 1 .. Len(lines[s]) /\ DOMAIN new = 1 .. Len(new)
      /\ DOMAIN lines'[s] = 1 .. (Len(lines[s]) + Len(new))
  BY <1>1, <1>7, Appended DEF Inv, Sound
<1>9. row.line \in DOMAIN lines'[s] /\ ~Reverses(lines'[s], row.line)
  <2>1. 1 \in 1 .. Len(new)
    BY <1>1, <1>8
  <2>2. row.line \in DOMAIN lines'[s]
    BY <1>3, <1>8, <2>1
  <2>3. ~Reverses(lines[s], row.line)
    BY <1>3, <1>8 DEF Reverses, Inv, Sound, Backward
  <2>4. ~Reverses(new, row.line)
    BY <1>3, <1>5, <1>8 DEF Reverses
  <2> QED BY <1>1, <1>7, <2>2, <2>3, <2>4, WriteReverses DEF Inv, Sound
<1>10. ASSUME NEW p \in payments
       PROVE  /\ p \in [stay : Stays, line : Nat, status : {"SUCCESS", "REFUNDED"}]
              /\ p.line \in DOMAIN lines'[p.stay]
              /\ (p.status = "REFUNDED") <=> Reverses(lines'[p.stay], p.line)
  <2>1. /\ p \in [stay : Stays, line : Nat, status : {"SUCCESS", "REFUNDED"}]
        /\ p.stay \in Stays /\ p.line \in DOMAIN lines[p.stay]
        /\ (p.status = "REFUNDED") <=> Reverses(lines[p.stay], p.line)
    BY DEF Inv, Tables, Rows, DrawerFollowsItsLine, Reversed, Reverses
  <2>2. CASE p.stay # s
    BY <1>7, <2>1, <2>2
  <2>3. CASE p.stay = s
    <3>1. p.line \in DOMAIN lines'[s] /\ p.line # 0
      BY <1>8, <2>1, <2>3
    <3>2. ~Reverses(new, p.line)
      BY <1>5, <3>1 DEF Reverses
    <3>3. Reverses(lines[s] \o new, p.line) <=> Reverses(lines[s], p.line)
      BY <1>1, <3>2, WriteReverses DEF Inv, Sound
    <3>4. Reverses(lines'[s], p.line) <=> Reverses(lines[s], p.line)
      BY <1>7, <3>3
    <3> QED BY <2>1, <2>3, <3>1, <3>4
  <2> QED BY <2>2, <2>3
<1>11. row \in [stay : Stays, line : Nat, status : {"SUCCESS", "REFUNDED"}]
  BY <1>4, <1>8
<1>12. Rows'
  BY <1>2, <1>3, <1>9, <1>10, <1>11 DEF Rows
<1>13. DrawerFollowsItsLine'
  BY <1>2, <1>3, <1>9, <1>10 DEF DrawerFollowsItsLine, Reversed, Reverses
<1>14. \A t \in Stays : Sound(lines'[t])
  BY <1>6, <1>7 DEF Inv
<1> QED BY <1>2, <1>7, <1>12, <1>13, <1>14, WriteAgrees DEF Inv, Tables

LEMMA PolicyChargeShape ==
  ASSUME NEW s \in Stays
  PROVE  \E amount : PolicyCharge(s) \in LineOver({amount}) /\ Plain(PolicyCharge(s))
<1> DEFINE charge == Posted("POLICY_CHARGE", 0)
<1>1. charge \in LineOver({0}) /\ Plain(charge)
  BY DEF Posted, LineOver, Types, Plain
<1> HIDE DEF charge
<1>2. \A x : /\ [charge EXCEPT !.amount = x] \in LineOver({x})
             /\ Plain([charge EXCEPT !.amount = x])
  BY <1>1 DEF LineOver, Plain
<1>3. \E x : PolicyCharge(s) = [charge EXCEPT !.amount = x]
  BY DEF PolicyCharge, charge
<1> QED BY <1>2, <1>3

LEMMA PostPolicyRefundInv ==
  ASSUME Inv, NEW s \in Stays, PostPolicyRefund(s)
  PROVE  Inv'
<1>1. PICK amount : PolicyCharge(s) \in LineOver({amount}) /\ Plain(PolicyCharge(s))
  BY PolicyChargeShape DEF PostPolicyRefund
<1> DEFINE charge == PolicyCharge(s)
<1>2. PICK back : Write(s, <<charge, Posted("REFUND", back)>>) \/ Write(s, <<charge>>)
  BY DEF PostPolicyRefund
<1>3. /\ charge \in LineOver({amount}) /\ Plain(charge)
  BY <1>1
<1>4. /\ Posted("REFUND", back) \in LineOver({back}) /\ Plain(Posted("REFUND", back))
      /\ Posted("REFUND", back).type = "REFUND"
  BY DEF Posted, LineOver, Types, Plain
<1>5. Stand(lines[s], "POLICY_CHARGE") = {} /\ payments' = payments
  BY DEF PostPolicyRefund, PolicyApplies, Standing, Stand, Reversed, Reverses
<1> DEFINE refund == Posted("REFUND", back)
<1> HIDE DEF charge, refund
<1>6. ASSUME Write(s, <<charge>>) PROVE Inv'
  <2> DEFINE new == <<charge>>
  <2>1. Ledger(new) /\ DOMAIN new = {1} /\ new[1] = charge
    BY <1>3 DEF Ledger
  <2> HIDE DEF new
  <2>2. \A k \in DOMAIN new : Plain(new[k]) /\ new[k].reverses = 0 /\ k = 1
    BY <1>3, <2>1 DEF Plain
  <2>3. Sound(lines[s] \o new)
    BY <1>5, <2>1, <2>2, PolicySound DEF Inv
  <2> QED BY <1>5, <1>6, <2>1, <2>2, <2>3, WriteInv DEF new
<1>7. ASSUME Write(s, <<charge, refund>>) PROVE Inv'
  <2> DEFINE new == <<charge, refund>>
  <2>1. /\ Ledger(new) /\ DOMAIN new = {1, 2} /\ new[1] = charge /\ new[2] = refund
    <3>1. charge \in LineOver({amount, back}) /\ refund \in LineOver({amount, back})
      BY <1>3, <1>4 DEF LineOver, refund
    <3> QED BY <3>1 DEF Ledger
  <2> HIDE DEF new
  <2>2. \A k \in DOMAIN new : /\ Plain(new[k]) /\ new[k].reverses = 0
                              /\ new[k].type = "POLICY_CHARGE" => k = 1
    BY <1>3, <1>4, <2>1 DEF Plain, refund
  <2>3. Sound(lines[s] \o new)
    BY <1>5, <2>1, <2>2, PolicySound DEF Inv
  <2> QED BY <1>5, <1>7, <2>1, <2>2, <2>3, WriteInv DEF new
<1> QED BY <1>2, <1>6, <1>7 DEF charge, refund

(* A set listed: every member once, and nothing else. *)
LEMMA Listed ==
  ASSUME NEW S, IsFiniteSet(S)
  PROVE  /\ Cardinality(S) \in Nat
         /\ \A k \in 1 .. Cardinality(S) : SetToSeq(S)[k] \in S
         /\ \A j \in S : \E k \in 1 .. Cardinality(S) : SetToSeq(S)[k] = j
<1>1. Cardinality(S) \in Nat /\ ExistsBijection(1 .. Cardinality(S), S)
  BY FS_CardinalityType
<1> DEFINE n == Cardinality(S)
           f == SetToSeq(S)
<1>2. PICK g : g \in Bijection(1 .. n, S)
  BY <1>1 DEF ExistsBijection
<1>3. g \in [1 .. n -> S] /\ IsInjective(g)
  BY <1>2 DEF Bijection, Injection, IsInjective
<1>4. f \in [1 .. n -> S] /\ IsInjective(f)
  BY <1>3 DEF SetToSeq
<1>5. f \in Injection(1 .. n, S)
  BY <1>4 DEF Injection, IsInjective
<1>6. IsFiniteSet(1 .. n) /\ Cardinality(1 .. n) = n
  BY <1>1, FS_Interval
<1> HIDE DEF n, f
<1>7. f \in Surjection(1 .. n, S)
  BY <1>5, <1>6, FS_Injection DEF n
<1> QED BY <1>1, <1>4, <1>7 DEF Surjection, n, f

LEMMA ReversePostingInv ==
  ASSUME Inv, NEW s \in Stays, NEW i \in DOMAIN lines[s], ReversePosting(s, i)
  PROVE  Inv'
<1> DEFINE l == lines[s]
           undone == Undone(s, i)
           n == Cardinality(undone)
           list == SetToSeq(undone)
           new == [k \in 1 .. n |-> Reversal(s, list[k])]
           Amounts == {-l[j].amount : j \in DOMAIN l}
<1>1. /\ Sound(l) /\ Len(l) \in Nat /\ DOMAIN l = 1 .. Len(l)
  BY LenProperties DEF Inv, Sound, Ledger
<1>2. undone = {j \in DOMAIN l : j = i \/ l[j].of = i}
  BY DEF Undone
<1>3. IsFiniteSet(undone)
  <2>1. undone \subseteq 1 .. Len(l) /\ IsFiniteSet(1 .. Len(l))
    BY <1>1, <1>2, FS_Interval
  <2> HIDE DEF undone
  <2> QED BY <2>1, FS_Subset
<1>4. /\ n \in Nat /\ \A k \in 1 .. n : list[k] \in undone
      /\ \A j \in undone : \E k \in 1 .. n : list[k] = j
  <2> HIDE DEF undone
  <2> QED BY <1>3, Listed
<1>5. Write(s, new) /\ payments' = Refunded(s, i)
  BY DEF ReversePosting
<1>6. ASSUME NEW j \in DOMAIN l
      PROVE  /\ Reversal(s, j) \in LineOver(Amounts)
             /\ Reversal(s, j).of = 0 /\ Reversal(s, j).reverses = j
             /\ ~Reversal(s, j).swept /\ Reversal(s, j).type = "REVERSAL"
  <2>1. Reversal(s, j) = [Posted("REVERSAL", -l[j].amount) EXCEPT !.reverses = j]
    BY DEF Reversal
  <2>2. /\ Posted("REVERSAL", -l[j].amount) \in LineOver(Amounts)
        /\ Posted("REVERSAL", -l[j].amount).of = 0
        /\ Posted("REVERSAL", -l[j].amount).swept = FALSE
        /\ Posted("REVERSAL", -l[j].amount).type = "REVERSAL"
    BY DEF Posted, LineOver, Types
  <2>3. j \in Nat
    BY <1>1
  <2> HIDE DEF Amounts, l
  <2> QED BY <2>1, <2>2, <2>3 DEF LineOver
<1> HIDE DEF n, list, undone, l, Amounts
<1>7. \A k \in 1 .. n : list[k] \in DOMAIN l
  BY <1>2, <1>4
<1>8. Ledger(new) /\ DOMAIN new = 1 .. n
  <2>1. new \in [1 .. n -> LineOver(Amounts)]
    BY <1>6, <1>7
  <2> HIDE DEF new
  <2>2. new \in Seq(LineOver(Amounts))
    BY <1>4, <2>1
  <2> QED BY <2>1, <2>2 DEF Ledger
<1>9. \A k \in 1 .. n : new[k] = Reversal(s, list[k])
  OBVIOUS
<1> HIDE DEF new
<1>10. \A j : Reverses(new, j) <=> j \in undone
  BY <1>2, <1>4, <1>6, <1>7, <1>8, <1>9 DEF Reverses
<1>11. ASSUME NEW k \in DOMAIN new
       PROVE  /\ new[k].of = 0 /\ ~new[k].swept /\ new[k].type = "REVERSAL"
              /\ new[k].reverses \in DOMAIN l
              /\ new[k].reverses = i \/ l[new[k].reverses].of = i
  <2>1. new[k] = Reversal(s, list[k]) /\ list[k] \in undone /\ list[k] \in DOMAIN l
    BY <1>4, <1>7, <1>8, <1>9
  <2> QED BY <1>2, <1>6, <2>1
<1>12. Sound(l \o new)
  BY <1>1, <1>2, <1>8, <1>10, <1>11, ReversalSound DEF l
<1>13. /\ lines' = [t \in Stays |-> lines'[t]] /\ lines'[s] = l \o new
       /\ \A t \in Stays \ {s} : lines'[t] = lines[t]
       /\ today' = today /\ account' \in [Stays -> {"NONE", "OPEN", "CLOSED"}]
  BY <1>5, Written DEF l
<1>14. DOMAIN l \subseteq DOMAIN lines'[s]
  <2>1. /\ Len(l) \in Nat /\ Len(new) \in Nat /\ DOMAIN l = 1 .. Len(l)
        /\ DOMAIN (l \o new) = 1 .. (Len(l) + Len(new))
    BY <1>1, <1>8, Appended DEF Sound
  <2> QED BY <1>13, <2>1
<1>15. \A j : Reverses(lines'[s], j) <=> Reverses(l, j) \/ j \in undone
  BY <1>1, <1>8, <1>10, <1>13, WriteReverses DEF Sound
(* A row is marked refunded exactly when its line is among the undone. *)
<1>16. ASSUME NEW q \in payments'
       PROVE  /\ q \in [stay : Stays, line : Nat, status : {"SUCCESS", "REFUNDED"}]
              /\ q.line \in DOMAIN lines'[q.stay]
              /\ (q.status = "REFUNDED") <=> Reverses(lines'[q.stay], q.line)
  <2>1. PICK p \in payments :
          q = IF p.stay = s /\ p.line \in undone THEN [p EXCEPT !.status = "REFUNDED"] ELSE p
    BY <1>5 DEF Refunded, undone
  <2>2. /\ p \in [stay : Stays, line : Nat, status : {"SUCCESS", "REFUNDED"}]
        /\ p.stay \in Stays /\ p.line \in DOMAIN lines[p.stay]
        /\ (p.status = "REFUNDED") <=> Reverses(lines[p.stay], p.line)
    BY DEF Inv, Tables, Rows, DrawerFollowsItsLine, Reversed, Reverses
  <2>3. CASE p.stay = s /\ p.line \in undone
    <3>1. /\ q \in [stay : Stays, line : Nat, status : {"SUCCESS", "REFUNDED"}]
          /\ q.stay = s /\ q.line = p.line /\ q.status = "REFUNDED"
      BY <2>1, <2>2, <2>3
    <3>2. q.line \in DOMAIN lines'[q.stay]
      BY <1>14, <2>2, <2>3, <3>1 DEF l
    <3>3. Reverses(lines'[q.stay], q.line)
      BY <1>15, <2>3, <3>1
    <3> QED BY <3>1, <3>2, <3>3
  <2>4. CASE p.stay = s /\ p.line \notin undone
    <3>1. q = p
      BY <2>1, <2>4
    <3>2. q.line \in DOMAIN lines'[q.stay]
      BY <1>14, <2>2, <2>4, <3>1 DEF l
    <3>3. Reverses(lines'[s], p.line) <=> Reverses(lines[s], p.line)
      BY <1>15, <2>4 DEF l
    <3> QED BY <2>2, <2>4, <3>1, <3>2, <3>3
  <2>5. CASE p.stay # s
    BY <1>13, <2>1, <2>2, <2>5
  <2> QED BY <2>3, <2>4, <2>5
<1>17. Rows' /\ DrawerFollowsItsLine'
  BY <1>16 DEF Rows, DrawerFollowsItsLine, Reversed, Reverses
<1>18. \A t \in Stays : Sound(lines'[t])
  BY <1>12, <1>13 DEF Inv, l
<1>19. Tables'
  BY <1>13, <1>17 DEF Inv, Tables
<1> QED BY <1>5, <1>17, <1>18, <1>19, WriteAgrees DEF Inv

LEMMA ChargeRoomsInv ==
  ASSUME Inv, ChargeRooms
  PROVE  Inv'
<1>1. NightCharge \in LineOver({0}) /\ NightCharge.of = 0 /\ NightCharge.reverses = 0
      /\ NightCharge.type = "ROOM_CHARGE" /\ NightCharge.on = today
  <2>1. /\ Posted("ROOM_CHARGE", 0) \in LineOver({0})
        /\ Posted("ROOM_CHARGE", 0).of = 0 /\ Posted("ROOM_CHARGE", 0).reverses = 0
        /\ Posted("ROOM_CHARGE", 0).type = "ROOM_CHARGE"
    BY DEF Posted, LineOver, Types
  <2> QED BY <2>1 DEF NightCharge, LineOver, Inv, Tables
<1>2. /\ lines' = [s \in Stays |->
                    IF s \in Due THEN lines[s] \o Tonight(s) ELSE lines[s]]
      /\ account' = [s \in Stays |-> IF s \in Due THEN "OPEN" ELSE account[s]]
      /\ payments' = payments /\ today' = today
      /\ \A s \in Due : account[s] # "CLOSED" /\ s \in Stays
  BY DEF ChargeRooms, Accepts, stays, Due
<1>3. ASSUME NEW s \in Due
      PROVE  /\ Ledger(Tonight(s)) /\ Sound(lines[s] \o Tonight(s))
             /\ \A k \in DOMAIN Tonight(s) : Tonight(s)[k].reverses = 0
  <2>1. s \in Stays /\ ~ChargedTonight(s)
    BY DEF Due
  <2>2. /\ Ledger(Tonight(s)) /\ IsSale(Tonight(s), Len(lines[s]))
        /\ DOMAIN Tonight(s) = 1 .. 3
        /\ Tonight(s)[1].on = today
    BY <1>1, <2>1, SaleShape DEF Tonight
  <2>3. \A i \in DOMAIN lines[s] : lines[s][i].swept /\ lines[s][i].type = "ROOM_CHARGE"
          => lines[s][i].on # today
    BY <2>1 DEF ChargedTonight
  <2>4. Sound(lines[s] \o Tonight(s))
    BY <2>1, <2>2, <2>3, SaleSound DEF Inv
  <2> QED BY <2>2, <2>4 DEF IsSale
<1>4. \A s \in Stays : Sound(lines'[s])
  BY <1>2, <1>3 DEF Inv
<1>5. Rows' /\ DrawerFollowsItsLine'
  <2>1. lines' = [s \in Stays |-> lines'[s]]
    BY <1>2
  <2>2. ASSUME NEW s \in Stays
        PROVE  lines'[s] = lines[s] \/ \E new :
                 /\ lines'[s] = lines[s] \o new /\ Ledger(new)
                 /\ \A k \in DOMAIN new : new[k].reverses = 0
    BY <1>2, <1>3
  <2> QED BY <1>2, <2>1, <2>2, RowsKept
<1>6. Tables'
  BY <1>2, <1>5 DEF Inv, Tables
<1>7. ClosedAccountsAgree'
  <2> SUFFICES ASSUME NEW s \in Stays, account'[s] = "CLOSED" PROVE Sum(lines'[s]) = 0
    BY DEF ClosedAccountsAgree, Balance
  <2>1. s \notin Due /\ account[s] = "CLOSED" /\ lines'[s] = lines[s]
    BY <1>2
  <2> QED BY <2>1 DEF Inv, ClosedAccountsAgree, Balance
<1> QED BY <1>4, <1>5, <1>6, <1>7 DEF Inv

LEMMA CloseInv ==
  ASSUME Inv, NEW s \in Stays, Close(s)
  PROVE  Inv'
<1>1. /\ account' = [account EXCEPT ![s] = "CLOSED"] /\ Balance(s) = 0
      /\ lines' = lines /\ payments' = payments /\ today' = today
  BY DEF Close, stays
<1>2. Tables'
  BY <1>1 DEF Inv, Tables, Rows
<1>3. DrawerFollowsItsLine'
  BY <1>1 DEF Inv, DrawerFollowsItsLine, Reversed
<1>4. ClosedAccountsAgree'
  BY <1>1 DEF Inv, Tables, ClosedAccountsAgree, Balance
<1> QED BY <1>1, <1>2, <1>3, <1>4 DEF Inv

LEMMA LifeInv ==
  ASSUME Inv, NEW s \in Stays, Life(s)
  PROVE  Inv'
<1>1. UNCHANGED ledger /\ today' = today
  BY DEF Life, Cancel, CheckIn, MarkNoShow, Becomes, Rebook, ReadBalance, FinishCheckOut, stays
<1> QED BY <1>1, LedgerKept DEF Inv, Tables

LEMMA NextInv == Inv /\ [Next]_vars => Inv'
<1> SUFFICES ASSUME Inv, [Next]_vars PROVE Inv'
  OBVIOUS
<1>1. ASSUME NEW s \in Stays, Desk(s) PROVE Inv'
  <2>1. ASSUME NEW a \in Figures, PostCharge(s, a) PROVE Inv'
    BY <2>1, PostChargeInv
  <2>2. ASSUME NEW a \in Figures, PostPayment(s, a) PROVE Inv'
    BY <2>2, PostPaymentInv
  <2>3. ASSUME NEW a \in Figures, PostGatewayPayment(s, a) PROVE Inv'
    BY <2>3, TakingInv DEF PostGatewayPayment
  <2>4. ASSUME NEW a \in Figures, PostOverrideRefund(s, a) PROVE Inv'
    BY <2>4, TakingInv DEF PostOverrideRefund
  <2>5. ASSUME NEW i \in DOMAIN lines[s], ReversePosting(s, i) PROVE Inv'
    BY <2>5, ReversePostingInv
  <2>6. CASE PostPolicyRefund(s)
    BY <2>6, PostPolicyRefundInv
  <2>7. CASE Close(s)
    BY <2>7, CloseInv
  <2> QED BY <1>1, <2>1, <2>2, <2>3, <2>4, <2>5, <2>6, <2>7 DEF Desk
<1>2. ASSUME NEW s \in Stays, Life(s) PROVE Inv'
  BY <1>2, LifeInv
<1>3. CASE ChargeRooms
  BY <1>3, ChargeRoomsInv
<1>4. CASE Rollover
  BY <1>4, LedgerKept DEF Rollover, Inv, Tables
<1>5. CASE UNCHANGED vars
  BY <1>5, LedgerKept DEF vars, stays, Inv, Tables
<1> QED BY <1>1, <1>2, <1>3, <1>4, <1>5 DEF Next

THEOREM Invariance == Spec => []Inv
BY InitInv, NextInv, PTL DEF Spec

-----------------------------------------------------------------------------
(* Whatever is posted, reversed, swept or charged, in any order and at any
   length, an account that was closed at nothing comes to nothing.            *)
THEOREM ClosedAccountsCorrect == Spec => []ClosedAccountsAgree
<1>1. Inv => ClosedAccountsAgree
  BY DEF Inv
<1> QED BY <1>1, Invariance, PTL

(* The sweep charges a night of a stay once, whatever is reversed in between. *)
THEOREM NightsCorrect == Spec => []NightChargedOnce
<1>1. Inv => NightChargedOnce
  BY DEF Inv, Sound, Nights, NightChargedOnce
<1> QED BY <1>1, Invariance, PTL

(* No tax stands on a sale that was taken back. *)
THEOREM TaxesCorrect == Spec => []NoTaxOnAnUndoneSale
<1>1. Inv => NoTaxOnAnUndoneSale
  BY DEF Inv, Sound, NoTax, NoTaxOnAnUndoneSale, Reversed, Reverses
<1> QED BY <1>1, Invariance, PTL

(* The desk's payment rows say REFUNDED exactly when their line was reversed. *)
THEOREM DrawerFollowsCorrect == Spec => []DrawerFollowsItsLine
<1>1. Inv => DrawerFollowsItsLine
  BY DEF Inv
<1> QED BY <1>1, Invariance, PTL

(* However many desks apply the grid, one charge of it stands. *)
THEOREM PolicyCorrect == Spec => []OnePolicyChargeStands
<1>1. Inv => OnePolicyChargeStands
  <2> SUFFICES ASSUME Inv, NEW s \in Stays
               PROVE  Cardinality(Standing(s, "POLICY_CHARGE")) <= 1
    BY DEF OnePolicyChargeStands
  <2> DEFINE S == Standing(s, "POLICY_CHARGE")
  <2>1. \A i, j \in S : i = j
    BY DEF Inv, Sound, OnePolicy, Stand, Standing, Reversed, Reverses
  <2> HIDE DEF S
  <2>2. ASSUME S = {} PROVE Cardinality(S) <= 1
    <3>1. Cardinality({}) = 0
      BY FS_EmptySet
    <3> QED BY <2>2, <3>1
  <2>3. ASSUME NEW i \in S PROVE Cardinality(S) <= 1
    <3>1. S = {i}
      BY <2>1, <2>3
    <3>2. Cardinality({i}) = 1
      BY FS_Singleton
    <3> QED BY <3>1, <3>2
  <2> QED BY <2>2, <2>3 DEF S
<1> QED BY <1>1, Invariance, PTL

-----------------------------------------------------------------------------
(* The arithmetic of a sale. *)

LEMMA TruncatedIsOdd ==
  ASSUME NEW a \in Int, NEW b \in Nat \ {0}
  PROVE  Truncated(a, b) \in Int /\ Truncated(-a, b) = -Truncated(a, b)
<1>1. 0 \div b = 0
  OBVIOUS
<1>2. a \div b \in Int /\ (-a) \div b \in Int /\ -(-a) = a
  OBVIOUS
<1> QED BY <1>1, <1>2 DEF Truncated

LEMMA MinusTimes == \A x, y \in Int : (-x) * y = -(x * y) /\ x * y \in Int
OBVIOUS

TaxRules == [service : 0 .. BasisPoints, vat : 0 .. BasisPoints, vatOnService : BOOLEAN]

LEMMA NetBaseIsOdd ==
  ASSUME NEW gross \in Int, NEW rules \in TaxRules
  PROVE  NetBase(gross, rules) \in Int /\ NetBase(-gross, rules) = -NetBase(gross, rules)
<1> DEFINE B == BasisPoints
           over == (B + rules.service) * (B + rules.vat)
           beside == B + rules.service + rules.vat
<1>1. B \in Nat \ {0} /\ rules.service \in Nat /\ rules.vat \in Nat
  BY BasisPointsAssumption DEF TaxRules
<1>2. over \in Nat \ {0} /\ beside \in Nat \ {0}
  <2>1. \A x, y \in Nat \ {0} : x * y \in Nat \ {0}
    OBVIOUS
  <2>2. B + rules.service \in Nat \ {0} /\ B + rules.vat \in Nat \ {0}
    BY <1>1
  <2> QED BY <1>1, <2>1, <2>2
<1>3. /\ gross * B \in Int /\ (-gross) * B = -(gross * B)
      /\ gross * B * B \in Int /\ (-gross) * B * B = -(gross * B * B)
  BY <1>1, MinusTimes
<1> HIDE DEF over, beside
<1>4. /\ Truncated(gross * B * B, over) \in Int
      /\ Truncated(-(gross * B * B), over) = -Truncated(gross * B * B, over)
  BY <1>2, <1>3, TruncatedIsOdd
<1>5. /\ Truncated(gross * B, beside) \in Int
      /\ Truncated(-(gross * B), beside) = -Truncated(gross * B, beside)
  BY <1>2, <1>3, TruncatedIsOdd
<1> QED BY <1>3, <1>4, <1>5 DEF NetBase, over, beside

(* tax-decomposition.ts: at any rates, the three lines of a sale sum to the price
   the guest agreed to, and those of its reversal are their exact opposites.  *)
THEOREM LinesSumToTheGrossAlways ==
  ASSUME NEW gross \in Int, NEW rules \in TaxRules
  PROVE  /\ LET d == Decompose(gross, rules) IN d.net + d.service + d.vat = gross
         /\ Decompose(-gross, rules) =
              [net |-> -Decompose(gross, rules).net,
               service |-> -Decompose(gross, rules).service,
               vat |-> -Decompose(gross, rules).vat]
<1> DEFINE B == BasisPoints
           base == NetBase(gross, rules)
           service == Truncated(base * rules.service, B)
           taxed == IF rules.vatOnService THEN base + service ELSE base
           vat == Truncated(taxed * rules.vat, B)
           ubase == NetBase(-gross, rules)
           uservice == Truncated(ubase * rules.service, B)
           utaxed == IF rules.vatOnService THEN ubase + uservice ELSE ubase
           uvat == Truncated(utaxed * rules.vat, B)
<1>1. B \in Nat \ {0} /\ rules.service \in Int /\ rules.vat \in Int
  BY BasisPointsAssumption DEF TaxRules
<1>2. base \in Int /\ ubase = -base
  BY NetBaseIsOdd
<1>3. service \in Int /\ uservice = -service
  <2>1. base * rules.service \in Int /\ ubase * rules.service = -(base * rules.service)
    BY <1>1, <1>2, MinusTimes
  <2> QED BY <1>1, <2>1, TruncatedIsOdd
<1> HIDE DEF base, ubase, service, uservice
<1>4. taxed \in Int /\ utaxed = -taxed
  BY <1>2, <1>3
<1> HIDE DEF taxed, utaxed
<1>5. vat \in Int /\ uvat = -vat
  <2>1. taxed * rules.vat \in Int /\ utaxed * rules.vat = -(taxed * rules.vat)
    BY <1>1, <1>4, MinusTimes
  <2> QED BY <1>1, <2>1, TruncatedIsOdd
<1> HIDE DEF vat, uvat
<1>6. Decompose(gross, rules) =
        [net |-> gross - service - vat, service |-> service, vat |-> vat]
  BY DEF Decompose, base, service, taxed, vat
<1>7. Decompose(-gross, rules) =
        [net |-> -gross - uservice - uvat, service |-> uservice, vat |-> uvat]
  BY DEF Decompose, ubase, uservice, utaxed, uvat
<1>8. /\ (gross - service - vat) + service + vat = gross
      /\ -gross - uservice - uvat = -(gross - service - vat)
  BY <1>3, <1>5
<1> QED BY <1>3, <1>5, <1>6, <1>7, <1>8

(* stay-quote.ts: whatever a promotion says on either scale, it takes no less than
   nothing off the room and no more than the room.                            *)
THEOREM ReductionsStayWithinTheRoomAlways ==
  ASSUME NEW room \in Nat,
         NEW promotion \in [type : {"PERCENTAGE"}, value : -99 .. -1]
                            \cup [type : {"FIXED_AMOUNT"}, value : {v \in Int : v < 0}]
  PROVE  Reduction(room, promotion) \in 0 .. room
<1>1. CASE promotion.type = "FIXED_AMOUNT"
  BY <1>1 DEF Reduction
<1>2. CASE promotion.type = "PERCENTAGE"
  <2> DEFINE left == 100 + promotion.value
             kept == room * left
  <2>1. left \in 1 .. 99
    BY <1>2
  <2> HIDE DEF left
  <2>2. kept \in Nat /\ kept <= room * 100
    <3>1. room * left + room * (100 - left) = room * 100
      BY <2>1
    <3>2. \A x, y \in Nat : x * y \in Nat
      OBVIOUS
    <3>3. room * left \in Nat /\ room * (100 - left) \in Nat
      BY <2>1, <3>2
    <3> QED BY <3>1, <3>3
  <2> HIDE DEF kept
  <2>3. kept \div 100 \in 0 .. room
    BY <2>2
  <2>4. Reduction(room, promotion) = room - kept \div 100
    BY <1>2 DEF Reduction, kept, left
  <2> QED BY <2>3, <2>4
<1> QED BY <1>1, <1>2

-----------------------------------------------------------------------------
(* Sums, and the order of a party's charges. *)

(* Sums. A fold runs over the subsets of its indices, so that it is one has to be
   shown for every length: there is no shortest sequence without a running sum. *)
LEMMA LeastOf ==
  ASSUME NEW S \in SUBSET Nat, S # {}
  PROVE  \E m \in S : \A k \in S : m <= k
<1> DEFINE Below == OpToRel(<, Nat)
<1>1. IsWellFoundedOn(Below, Nat)
  BY NatLessThanWellFounded
<1>2. \A x, y \in Nat : x < y => <<x, y>> \in Below
  BY DEF OpToRel
<1> HIDE DEF Below
<1>3. PICK m \in S : \A k \in S : ~(<<k, m>> \in Below)
  BY <1>1, WFMin
<1>4. ASSUME NEW k \in S, ~(m <= k) PROVE FALSE
  <2>1. k \in Nat /\ m \in Nat /\ k < m
    BY <1>4
  <2> QED BY <1>2, <1>3, <2>1
<1> QED BY <1>4

(* Induction up to n, over a set. *)
LEMMA UpTo ==
  ASSUME NEW n \in Nat, NEW S, 0 \in S, \A k \in 1 .. n : k - 1 \in S => k \in S
  PROVE  \A k \in 0 .. n : k \in S
<1> DEFINE Bad == {k \in 0 .. n : k \notin S}
<1> SUFFICES ASSUME Bad # {} PROVE FALSE
  OBVIOUS
<1>1. Bad \in SUBSET Nat
  OBVIOUS
<1>2. PICK m \in Bad : \A k \in Bad : m <= k
  <2> HIDE DEF Bad
  <2> QED BY <1>1, LeastOf
<1>3. m \in 1 .. n /\ m - 1 \in 0 .. n
  BY <1>2
<1>4. m - 1 \in S
  BY <1>2, <1>3
<1> QED BY <1>3, <1>4

LEMMA LargestOf ==
  ASSUME NEW n \in Nat, NEW S \in SUBSET (1 .. n), S # {}
  PROVE  Max(S) \in S /\ \A y \in S : Max(S) >= y
<1> DEFINE Above == {k \in Nat : \A y \in S : y <= k}
<1>1. n \in Above
  OBVIOUS
<1>2. PICK m \in Above : \A k \in Above : m <= k
  BY <1>1, LeastOf
<1>3. m \in S
  <2>1. SUFFICES ASSUME m \notin S PROVE FALSE
    OBVIOUS
  <2>2. PICK y \in S : TRUE
    OBVIOUS
  <2>3. m - 1 \in Nat /\ \A x \in S : x <= m - 1
    BY <2>1, <2>2
  <2>4. m - 1 \in Above
    BY <2>3
  <2> QED BY <1>2, <2>4
<1>4. \E x \in S : \A y \in S : x >= y
  BY <1>2, <1>3
<1> QED BY <1>4 DEF Max

(* A fold in the order of its indices, and that there is one. *)
Folded(g, base, F, D) ==
  [s \in SUBSET D |-> IF s = {} THEN base ELSE F[<<g[s \ {Max(s)}], Max(s)>>]]

HasFold(B, base, F, n) ==
  \E g \in [SUBSET (1 .. n) -> B] : g = Folded(g, base, F, 1 .. n)

LEMMA FoldGoesOn ==
  ASSUME NEW B, NEW base \in B, NEW F, NEW m \in Nat, \A x \in B : F[<<x, m + 1>>] \in B,
         HasFold(B, base, F, m)
  PROVE  HasFold(B, base, F, m + 1)
<1> DEFINE n == m + 1
<1>0. n \in Nat /\ n # 0 /\ n \in 1 .. n /\ \A x \in 1 .. n : x = n \/ x \in 1 .. m
  OBVIOUS
<1>1. 1 .. m \in SUBSET (1 .. n) /\ n \notin 1 .. m /\ \A x \in B : F[<<x, n>>] \in B
  OBVIOUS
<1> HIDE DEF n
<1>2. PICK g \in [SUBSET (1 .. m) -> B] : g = Folded(g, base, F, 1 .. m)
  BY DEF HasFold
<1>3. \A s \in SUBSET (1 .. m) :
        g[s] \in B /\ g[s] = IF s = {} THEN base ELSE F[<<g[s \ {Max(s)}], Max(s)>>]
  BY <1>2 DEF Folded
<1> DEFINE h == [s \in SUBSET (1 .. n) |-> IF n \in s THEN F[<<g[s \ {n}], n>>] ELSE g[s]]
<1>4. ASSUME NEW s \in SUBSET (1 .. n)
      PROVE  h[s] \in B /\ h[s] = IF s = {} THEN base ELSE F[<<h[s \ {Max(s)}], Max(s)>>]
  <2>1. CASE n \in s
    <3>1. s \ {n} \in SUBSET (1 .. m) /\ s \ {n} \in SUBSET (1 .. n) /\ n \notin s \ {n}
      BY <1>0
    <3>2. Max(s) = n
      <4>1. Max(s) \in s /\ Max(s) >= n
        BY <1>0, <2>1, LargestOf
      <4>2. Max(s) \in 1 .. n
        BY <4>1
      <4> HIDE DEF h
      <4> QED BY <1>0, <4>1, <4>2
    <3>3. h[s] = F[<<g[s \ {n}], n>>] /\ h[s \ {n}] = g[s \ {n}] /\ g[s \ {n}] \in B
      BY <1>3, <2>1, <3>1
    <3> HIDE DEF h
    <3> QED BY <1>1, <2>1, <3>2, <3>3
  <2>2. CASE n \notin s
    <3>1. s \in SUBSET (1 .. m) /\ h[s] = g[s]
      BY <1>0, <2>2
    <3>2. ASSUME s # {} PROVE s \ {Max(s)} \in SUBSET (1 .. n) /\ h[s \ {Max(s)}] = g[s \ {Max(s)}]
      BY <2>2
    <3> HIDE DEF h
    <3> QED BY <1>3, <3>1, <3>2
  <2> QED BY <2>1, <2>2
<1>5. h \in [SUBSET (1 .. n) -> B]
  BY <1>4
<1>6. h = Folded(h, base, F, 1 .. n)
  BY <1>4 DEF Folded
<1> HIDE DEF h
<1> QED BY <1>5, <1>6 DEF HasFold, n

LEMMA FoldExists ==
  ASSUME NEW B, NEW base \in B, NEW n \in Nat, NEW F, \A x \in B, k \in 1 .. n : F[<<x, k>>] \in B
  PROVE  HasFold(B, base, F, n)
<1> DEFINE S == {k \in 0 .. n : HasFold(B, base, F, k)}
<1>1. 0 \in S
  <2> DEFINE g == [s \in SUBSET (1 .. 0) |-> base]
  <2>1. 1 .. 0 = {}
    OBVIOUS
  <2>2. g \in [SUBSET (1 .. 0) -> B] /\ g = Folded(g, base, F, 1 .. 0)
    BY <2>1 DEF Folded
  <2> QED BY <2>2 DEF HasFold
<1>2. ASSUME NEW k \in 1 .. n, k - 1 \in S PROVE k \in S
  <2> DEFINE m == k - 1
  <2>1. m \in Nat /\ k = m + 1 /\ HasFold(B, base, F, m)
    BY <1>2
  <2> HIDE DEF m
  <2>2. HasFold(B, base, F, k)
    BY <2>1, FoldGoesOn
  <2> QED BY <2>2
<1>3. \A k \in 0 .. n : k \in S
  <2> HIDE DEF S
  <2> QED BY <1>1, <1>2, UpTo
<1>4. n \in S
  BY <1>3
<1> QED BY <1>4

(* The first k indices, their largest, and the ones before it. *)
LEMMA UpToItself ==
  ASSUME NEW n \in Nat, NEW k \in 1 .. n
  PROVE  /\ 1 .. k \in SUBSET (1 .. n) /\ 1 .. k # {}
         /\ Max(1 .. k) = k /\ (1 .. k) \ {Max(1 .. k)} = 1 .. (k - 1)
<1>1. 1 .. k \in SUBSET (1 .. n) /\ 1 .. k # {} /\ k \in 1 .. k
  OBVIOUS
<1>2. Max(1 .. k) = k
  <2>1. Max(1 .. k) \in 1 .. k /\ Max(1 .. k) >= k
    BY <1>1, LargestOf
  <2> QED BY <2>1
<1>3. (1 .. k) \ {k} = 1 .. (k - 1)
  OBVIOUS
<1> QED BY <1>1, <1>2, <1>3

(* A running sum of the first n amounts. *)
Runs(f, a, n) == f[0] = 0 /\ \A k \in 1 .. n : f[k] = f[k - 1] + a[k]

LEMMA TotalRuns ==
  ASSUME NEW n \in Nat, NEW a \in [1 .. n -> Int]
  PROVE  \E f : Runs(f, a, n) /\ Total(a) = f[n]
<1> DEFINE it == CHOOSE g : g = [s \in SUBSET DOMAIN a |->
                                   IF s = {} THEN 0 ELSE g[s \ {Max(s)}] + a[Max(s)]]
<1>1. Total(a) = it[DOMAIN a]
  BY Zenon DEF Total, FoldLeft, MapThenFoldSet
<1>2. it = [s \in SUBSET (1 .. n) |-> IF s = {} THEN 0 ELSE it[s \ {Max(s)}] + a[Max(s)]]
  <2> DEFINE F == [x \in Int \X (1 .. n) |-> x[1] + a[x[2]]]
  <2>1. \A x \in Int, k \in 1 .. n : F[<<x, k>>] \in Int
    OBVIOUS
  <2>2. \A x \in Int, k \in 1 .. n : F[<<x, k>>] = x + a[k]
    OBVIOUS
  <2> HIDE DEF F
  <2>3. PICK g \in [SUBSET (1 .. n) -> Int] : g = Folded(g, 0, F, 1 .. n)
    <3>1. 0 \in Int
      OBVIOUS
    <3>2. HasFold(Int, 0, F, n)
      BY <2>1, <3>1, FoldExists
    <3> QED BY <3>2 DEF HasFold
  <2>4. ASSUME NEW s \in SUBSET (1 .. n)
        PROVE  g[s] = IF s = {} THEN 0 ELSE g[s \ {Max(s)}] + a[Max(s)]
    <3>1. g[s] = IF s = {} THEN 0 ELSE F[<<g[s \ {Max(s)}], Max(s)>>]
      BY <2>3 DEF Folded
    <3>2. CASE s # {}
      <4>1. Max(s) \in 1 .. n /\ s \ {Max(s)} \in SUBSET (1 .. n)
        BY <3>2, LargestOf
      <4>2. g[s \ {Max(s)}] \in Int
        BY <2>3, <4>1
      <4> QED BY <2>2, <3>1, <3>2, <4>1, <4>2
    <3> QED BY <3>1, <3>2
  <2>5. DOMAIN a = 1 .. n
    OBVIOUS
  <2>6. g = [s \in SUBSET DOMAIN a |-> IF s = {} THEN 0 ELSE g[s \ {Max(s)}] + a[Max(s)]]
    BY <2>4, <2>5
  <2>7. it = [s \in SUBSET DOMAIN a |-> IF s = {} THEN 0 ELSE it[s \ {Max(s)}] + a[Max(s)]]
    BY <2>6
  <2> HIDE DEF it
  <2> QED BY <2>5, <2>7
<1> HIDE DEF it
<1> DEFINE f == [k \in 0 .. n |-> it[1 .. k]]
<1>3. f[0] = 0
  <2>1. 1 .. 0 = {}
    OBVIOUS
  <2> QED BY <1>2, <2>1
<1>4. ASSUME NEW k \in 1 .. n PROVE f[k] = f[k - 1] + a[k]
  <2>1. it[1 .. k] = it[1 .. (k - 1)] + a[k]
    <3>1. /\ 1 .. k \in SUBSET (1 .. n) /\ 1 .. k # {}
          /\ Max(1 .. k) = k /\ (1 .. k) \ {Max(1 .. k)} = 1 .. (k - 1)
      BY UpToItself
    <3>2. it[1 .. k] = it[(1 .. k) \ {Max(1 .. k)}] + a[Max(1 .. k)]
      BY <1>2, <3>1
    <3> QED BY <3>1, <3>2
  <2>2. f[k] = it[1 .. k] /\ f[k - 1] = it[1 .. (k - 1)]
    OBVIOUS
  <2> HIDE DEF f
  <2> QED BY <2>1, <2>2
<1>5. f[n] = it[1 .. n] /\ DOMAIN a = 1 .. n
  OBVIOUS
<1> HIDE DEF f
<1> QED BY <1>1, <1>3, <1>4, <1>5 DEF Runs

(* Two running sums over the same amounts are the same. *)
LEMMA OneSum ==
  ASSUME NEW a, NEW b, NEW f, NEW g, NEW n \in Nat, Runs(f, a, n), Runs(g, b, n),
         \A k \in 1 .. n : a[k] = b[k]
  PROVE  \A k \in 0 .. n : f[k] = g[k]
<1> DEFINE Bad == {k \in 0 .. n : f[k] # g[k]}
<1> SUFFICES ASSUME Bad # {} PROVE FALSE
  OBVIOUS
<1>1. PICK m \in Bad : \A k \in Bad : m <= k
  <2>1. Bad \in SUBSET Nat
    OBVIOUS
  <2> HIDE DEF Bad
  <2> QED BY <2>1, LeastOf
<1>2. m # 0
  BY DEF Runs
<1>3. f[m - 1] = g[m - 1] /\ m \in 1 .. n
  BY <1>1, <1>2
<1> QED BY <1>3 DEF Runs

LEMMA TotalIs ==
  ASSUME NEW n \in Nat, NEW a \in [1 .. n -> Int], NEW f, Runs(f, a, n)
  PROVE  Total(a) = f[n]
<1>1. PICK g : Runs(g, a, n) /\ Total(a) = g[n]
  BY TotalRuns
<1> QED BY <1>1, OneSum

LEMMA RunsTyped ==
  ASSUME NEW n \in Nat, NEW a \in [1 .. n -> Int], NEW f, Runs(f, a, n)
  PROVE  \A k \in 0 .. n : f[k] \in Int
<1> DEFINE S == {k \in 0 .. n : f[k] \in Int}
<1>1. 0 \in S
  BY DEF Runs
<1>2. ASSUME NEW k \in 1 .. n, k - 1 \in S PROVE k \in S
  BY <1>2 DEF Runs
<1> HIDE DEF S
<1>3. \A k \in 0 .. n : k \in S
  BY <1>1, <1>2, UpTo
<1> QED BY <1>3 DEF S

LEMMA RunsRise ==
  ASSUME NEW n \in Nat, NEW a \in [1 .. n -> Nat], NEW f, Runs(f, a, n)
  PROVE  \A k \in 0 .. n : f[k] \in Nat /\ \A j \in 0 .. k : f[j] \in Nat /\ f[j] <= f[k]
<1> DEFINE S == {k \in 0 .. n : f[k] \in Nat /\ \A j \in 0 .. k : f[j] \in Nat /\ f[j] <= f[k]}
<1>1. 0 \in S
  BY DEF Runs
<1>2. ASSUME NEW k \in 1 .. n, k - 1 \in S PROVE k \in S
  <2>1. f[k - 1] \in Nat /\ \A j \in 0 .. (k - 1) : f[j] \in Nat /\ f[j] <= f[k - 1]
    BY <1>2
  <2>2. f[k] = f[k - 1] + a[k] /\ a[k] \in Nat
    BY DEF Runs
  <2>3. f[k] \in Nat /\ f[k - 1] <= f[k]
    BY <2>1, <2>2
  <2>4. ASSUME NEW j \in 0 .. k PROVE f[j] \in Nat /\ f[j] <= f[k]
    <3>1. CASE j = k
      BY <2>3, <3>1
    <3>2. CASE j # k
      <4>1. j \in 0 .. (k - 1)
        BY <3>2
      <4> QED BY <2>1, <2>3, <4>1
    <3> QED BY <3>1, <3>2
  <2> QED BY <2>3, <2>4
<1> HIDE DEF S
<1>3. \A k \in 0 .. n : k \in S
  BY <1>1, <1>2, UpTo
<1> QED BY <1>3 DEF S

LEMMA SeqRuns ==
  ASSUME NEW A, NEW a \in Seq(A)
  PROVE  Len(a) \in Nat /\ DOMAIN a = 1 .. Len(a) /\ a \in [1 .. Len(a) -> A]
OBVIOUS

LEMMA RunIsSeq ==
  ASSUME NEW A, NEW n \in Nat, NEW a \in [1 .. n -> A]
  PROVE  a \in Seq(A) /\ Len(a) = n /\ DOMAIN a = 1 .. n
OBVIOUS

LEMMA TotalInt ==
  ASSUME NEW a \in Seq(Int)
  PROVE  Total(a) \in Int
<1>1. PICK f : Runs(f, a, Len(a)) /\ Total(a) = f[Len(a)]
  BY SeqRuns, TotalRuns
<1> QED BY <1>1, SeqRuns, RunsTyped

(* A sum is the sum of its first amounts and of the rest. *)
LEMMA TotalSplit ==
  ASSUME NEW a \in Seq(Int), NEW k \in 0 .. Len(a)
  PROVE  Total(a) = Total(SubSeq(a, 1, k)) + Total(SubSeq(a, k + 1, Len(a)))
<1> DEFINE n == Len(a)
           front == SubSeq(a, 1, k)
           rest == SubSeq(a, k + 1, n)
<1>0. n \in Nat /\ DOMAIN a = 1 .. n /\ a \in [1 .. n -> Int]
  BY SeqRuns
<1>1. PICK f : Runs(f, a, n) /\ Total(a) = f[n]
  BY <1>0, TotalRuns
<1>2. \A j \in 0 .. n : f[j] \in Int
  BY <1>0, <1>1, RunsTyped
<1>3. front \in [1 .. k -> Int] /\ \A j \in 1 .. k : front[j] = a[j]
  <2>1. \A j \in 1 .. k : a[j] \in Int
    BY <1>0
  <2>2. front \in Seq(Int) /\ Len(front) = k /\ \A j \in 1 .. k : front[j] = a[j]
    BY <1>0, <2>1, SubSeqProperties
  <2> HIDE DEF front
  <2> QED BY <2>2, LenProperties
<1>4. rest \in [1 .. (n - k) -> Int] /\ \A j \in 1 .. (n - k) : rest[j] = a[k + j]
  <2>0. n \in Int /\ k + 1 \in Int /\ n - (k + 1) + 1 = n - k /\ n - k \in Nat
    BY <1>0
  <2>1. \A j \in (k + 1) .. n : a[j] \in Int
    BY <1>0
  <2>2. /\ rest \in Seq(Int) /\ Len(rest) = IF k + 1 <= n THEN n - (k + 1) + 1 ELSE 0
        /\ \A j \in 1 .. (n - (k + 1) + 1) : rest[j] = a[(k + 1) + j - 1]
    BY <2>0, <2>1, SubSeqProperties
  <2> HIDE DEF rest, n
  <2>3. Len(rest) = n - k
    BY <2>0, <2>2
  <2>4. \A j \in 1 .. (n - k) : (k + 1) + j - 1 = k + j
    BY <2>0
  <2> QED BY <2>0, <2>2, <2>3, <2>4, LenProperties
<1> HIDE DEF n, front, rest
<1>5. Total(front) = f[k]
  <2>1. Runs(f, front, k)
    BY <1>0, <1>1, <1>3 DEF Runs, n
  <2> QED BY <1>3, <2>1, TotalIs
<1>6. Total(rest) = f[n] - f[k]
  <2> DEFINE g == [j \in 0 .. (n - k) |-> f[k + j] - f[k]]
  <2>0. n - k \in Nat
    BY <1>0 DEF n
  <2>1. g[0] = 0
    BY <1>2, <2>0 DEF n
  <2>2. ASSUME NEW j \in 1 .. (n - k) PROVE g[j] = g[j - 1] + rest[j]
    <3>1. g[j] = f[k + j] - f[k] /\ g[j - 1] = f[k + (j - 1)] - f[k]
      BY <2>0
    <3>2. k + j \in 1 .. n /\ k + (j - 1) = (k + j) - 1 /\ (k + j) - 1 \in 0 .. n
      BY <2>0, <1>0 DEF n
    <3>3. f[k + j] = f[(k + j) - 1] + a[k + j]
      BY <1>1, <3>2 DEF Runs
    <3>4. rest[j] = a[k + j] /\ a[k + j] \in Int
      BY <1>0, <1>4, <3>2
    <3>5. f[(k + j) - 1] \in Int /\ f[k] \in Int
      BY <1>2, <3>2 DEF n
    <3> HIDE DEF g
    <3> QED BY <3>1, <3>2, <3>3, <3>4, <3>5
  <2>3. g[n - k] = f[n] - f[k]
    <3>1. n - k \in 0 .. (n - k) /\ k + (n - k) = n
      BY <2>0, <1>0
    <3> QED BY <3>1
  <2> HIDE DEF g
  <2>4. Runs(g, rest, n - k)
    BY <2>1, <2>2 DEF Runs
  <2> QED BY <1>4, <2>0, <2>3, <2>4, TotalIs
<1>7. f[n] \in Int /\ f[k] \in Int
  BY <1>0, <1>2 DEF n
<1> QED BY <1>1, <1>5, <1>6, <1>7 DEF n, front, rest

LEMMA TotalNat ==
  ASSUME NEW a \in Seq(Nat)
  PROVE  Total(a) \in Nat
<1>1. PICK f : Runs(f, a, Len(a)) /\ Total(a) = f[Len(a)]
  BY SeqRuns, TotalRuns
<1> QED BY <1>1, SeqRuns, RunsRise

LEMMA TotalEmpty == Total(<<>>) = 0
<1>1. <<>> \in [1 .. 0 -> Int] /\ 0 \in Nat
  OBVIOUS
<1>2. PICK f : Runs(f, <<>>, 0) /\ Total(<<>>) = f[0]
  BY <1>1, TotalRuns
<1> QED BY <1>2 DEF Runs

(* Putting one more in its place keeps an order: every list of charges has one. *)
HasOrder(a, n) ==
  \E p \in Bijection(1 .. n, 1 .. n) : \A i, j \in 1 .. n : i < j => a[p[i]] <= a[p[j]]

LEMMA OneMoreOrdered ==
  ASSUME NEW m \in Nat, NEW a, \A i \in 1 .. (m + 1) : a[i] \in Nat, HasOrder(a, m)
  PROVE  HasOrder(a, m + 1)
<1> DEFINE n == m + 1
<1>0. n = m + 1 /\ \A i \in 1 .. n : a[i] \in Nat
  OBVIOUS
<1> HIDE DEF n
<1> PICK p \in Bijection(1 .. m, 1 .. m) : \A i, j \in 1 .. m : i < j => a[p[i]] <= a[p[j]]
  BY DEF HasOrder
<1> DEFINE Later == {k \in 1 .. n : k = n \/ a[n] < a[p[k]]}
<1>1. /\ p \in [1 .. m -> 1 .. m]
      /\ \A i, j \in 1 .. m : p[i] = p[j] => i = j
      /\ \A k \in 1 .. m : \E i \in 1 .. m : p[i] = k
  BY DEF Bijection, Injection, Surjection, IsInjective
<1>2. /\ n \in 1 .. n /\ n \in Nat /\ \A k \in 1 .. m : k \in 1 .. n /\ k # n
      /\ \A k \in 1 .. n : k \in 1 .. m \/ k = n
  BY <1>0
<1>3. \A k \in 1 .. m : p[k] \in 1 .. m /\ p[k] \in 1 .. n
  BY <1>1, <1>2
<1>4. a[n] \in Nat /\ \A k \in 1 .. m : a[p[k]] \in Nat
  BY <1>0, <1>2, <1>3
<1>5. PICK r \in Later : \A k \in Later : r <= k
  <2>1. Later \in SUBSET Nat /\ n \in Later
    BY <1>2
  <2> HIDE DEF Later
  <2> QED BY <2>1, LeastOf
<1>6. /\ r \in 1 .. n
      /\ \A k \in 1 .. m : k < r => a[p[k]] <= a[n]
      /\ r \in 1 .. m => a[n] < a[p[r]]
  <2>1. r \in 1 .. n /\ (r \in 1 .. m => a[n] < a[p[r]])
    BY <1>2
  <2>2. ASSUME NEW k \in 1 .. m, k < r PROVE a[p[k]] <= a[n]
    <3>1. ~(a[n] < a[p[k]])
      BY <1>2, <1>5, <2>1, <2>2
    <3> QED BY <1>4, <3>1
  <2> QED BY <2>1, <2>2
<1>7. ASSUME NEW k \in 1 .. m, r <= k PROVE a[n] <= a[p[k]]
  <2>1. r \in 1 .. m /\ a[n] < a[p[r]]
    BY <1>6, <1>7
  <2>2. r = k \/ a[p[r]] <= a[p[k]]
    BY <1>7, <2>1
  <2> QED BY <1>4, <2>1, <2>2
<1> HIDE DEF Later
<1> DEFINE q == [i \in 1 .. n |-> IF i < r THEN p[i] ELSE IF i = r THEN n ELSE p[i - 1]]
<1>8. ASSUME NEW i \in 1 .. n
      PROVE  /\ i < r \/ i = r \/ r < i
             /\ i < r => i \in 1 .. m /\ q[i] = p[i]
             /\ i = r => q[i] = n
             /\ r < i => i - 1 \in 1 .. m /\ r <= i - 1 /\ q[i] = p[i - 1]
  BY <1>0, <1>6
<1>9. q \in [1 .. n -> 1 .. n]
  <2>1. \A i \in 1 .. n : q[i] \in 1 .. n
    <3> HIDE DEF q
    <3> QED BY <1>2, <1>3, <1>8
  <2> QED BY <2>1
<1> HIDE DEF q
<1>10. ASSUME NEW i \in 1 .. n, NEW j \in 1 .. n, q[i] = q[j] PROVE i = j
  <2>1. \A k \in 1 .. m : p[k] # n
    BY <1>2, <1>3
  <2>2. CASE i < r
    <3>1. i \in 1 .. m /\ q[i] = p[i]
      BY <1>8, <2>2
    <3>2. CASE j < r
      <4>1. j \in 1 .. m /\ q[j] = p[j]
        BY <1>8, <3>2
      <4> QED BY <1>1, <1>10, <3>1, <4>1
    <3>3. CASE j = r
      BY <1>8, <1>10, <2>1, <3>1, <3>3
    <3>4. CASE r < j
      <4>1. j - 1 \in 1 .. m /\ r <= j - 1 /\ q[j] = p[j - 1]
        BY <1>8, <3>4
      <4>2. i = j - 1
        BY <1>1, <1>10, <3>1, <4>1
      <4> QED BY <1>6, <2>2, <4>1, <4>2
    <3> QED BY <1>8, <3>2, <3>3, <3>4
  <2>3. CASE i = r
    BY <1>8, <1>10, <2>1, <2>3
  <2>4. CASE r < i
    <3>1. i - 1 \in 1 .. m /\ q[i] = p[i - 1] /\ r <= i - 1
      BY <1>8, <2>4
    <3>2. CASE j < r
      <4>1. j \in 1 .. m /\ q[j] = p[j]
        BY <1>8, <3>2
      <4>2. i - 1 = j
        BY <1>1, <1>10, <3>1, <4>1
      <4> QED BY <1>6, <3>1, <3>2, <4>2
    <3>3. CASE j = r
      BY <1>8, <1>10, <2>1, <3>1, <3>3
    <3>4. CASE r < j
      <4>1. j - 1 \in 1 .. m /\ q[j] = p[j - 1]
        BY <1>8, <3>4
      <4>2. i - 1 = j - 1
        BY <1>1, <1>10, <3>1, <4>1
      <4> QED BY <4>2
    <3> QED BY <1>8, <3>2, <3>3, <3>4
  <2> QED BY <1>8, <2>2, <2>3, <2>4
<1>11. ASSUME NEW k \in 1 .. n PROVE \E i \in 1 .. n : q[i] = k
  <2>1. CASE k = n
    BY <1>6, <1>8, <2>1
  <2>2. CASE k # n
    <3>1. PICK i \in 1 .. m : p[i] = k
      BY <1>1, <1>2, <2>2
    <3>2. CASE i < r
      BY <1>2, <1>8, <3>1, <3>2
    <3>3. CASE r <= i
      <4>1. i + 1 \in 1 .. n /\ r < i + 1 /\ (i + 1) - 1 = i
        BY <1>0, <1>6, <3>3
      <4> QED BY <1>8, <3>1, <4>1
    <3> QED BY <1>6, <3>2, <3>3
  <2> QED BY <2>1, <2>2
<1>12. ASSUME NEW i \in 1 .. n, NEW j \in 1 .. n, i < j PROVE a[q[i]] <= a[q[j]]
  <2>1. CASE j < r
    <3>1. i < r
      BY <1>6, <1>12, <2>1
    <3> QED BY <1>8, <1>12, <2>1, <3>1
  <2>2. CASE j = r
    BY <1>6, <1>8, <1>12, <2>2
  <2>3. CASE r < j /\ i = r
    BY <1>7, <1>8, <2>3
  <2>4. CASE r < j /\ i < r
    <3>1. i \in 1 .. m /\ j - 1 \in 1 .. m /\ i < j - 1 /\ q[i] = p[i] /\ q[j] = p[j - 1]
      BY <1>6, <1>8, <2>4
    <3> QED BY <3>1
  <2>5. CASE r < i
    <3>1. r < j
      BY <1>6, <1>12, <2>5
    <3>2. /\ i - 1 \in 1 .. m /\ j - 1 \in 1 .. m /\ i - 1 < j - 1
          /\ q[i] = p[i - 1] /\ q[j] = p[j - 1]
      BY <1>8, <1>12, <2>5, <3>1
    <3> QED BY <3>2
  <2> QED BY <1>8, <2>1, <2>2, <2>3, <2>4, <2>5
<1>13. q \in Bijection(1 .. n, 1 .. n)
  BY <1>9, <1>10, <1>11 DEF Bijection, Injection, Surjection, IsInjective
<1> QED BY <1>12, <1>13 DEF HasOrder, n

LEMMA OrderExists ==
  ASSUME NEW n \in Nat, NEW a \in [1 .. n -> Nat]
  PROVE  HasOrder(a, n)
<1> DEFINE S == {k \in 0 .. n : HasOrder(a, k)}
<1>1. 0 \in S
  <2> DEFINE p == [i \in 1 .. 0 |-> 0]
  <2>1. 1 .. 0 = {}
    OBVIOUS
  <2>2. p \in Bijection(1 .. 0, 1 .. 0)
    BY <2>1 DEF Bijection, Injection, Surjection, IsInjective
  <2> QED BY <2>1, <2>2 DEF HasOrder
<1>2. ASSUME NEW k \in 1 .. n, k - 1 \in S PROVE k \in S
  <2> DEFINE m == k - 1
  <2>1. m \in Nat /\ k = m + 1 /\ HasOrder(a, m)
    BY <1>2
  <2>2. \A i \in 1 .. k : a[i] \in Nat
    OBVIOUS
  <2> HIDE DEF m
  <2>3. HasOrder(a, k)
    BY <2>1, <2>2, OneMoreOrdered
  <2> QED BY <2>3
<1>3. \A k \in 0 .. n : k \in S
  <2> HIDE DEF S
  <2> QED BY <1>1, <1>2, UpTo
<1>4. n \in S
  BY <1>3
<1> QED BY <1>4

(* What the sort gives: every charge once, the cheap ones first. *)
LEMMA AscendingIs ==
  ASSUME NEW n \in Nat, NEW a \in [1 .. n -> Nat]
  PROVE  /\ Ascending(a) \in [1 .. n -> Nat]
         /\ \A i, j \in 1 .. n : i < j => Ascending(a)[i] <= Ascending(a)[j]
         /\ \E p \in Bijection(1 .. n, 1 .. n) : \A i \in 1 .. n : Ascending(a)[i] = a[p[i]]
<1> DEFINE Fits(p) == \A i, j \in DOMAIN a : i < j => a[p[i]] <= a[p[j]]
           order == CHOOSE p \in Bijection(DOMAIN a, DOMAIN a) : Fits(p)
<1>1. DOMAIN a = 1 .. n
  OBVIOUS
<1>2. order \in Bijection(1 .. n, 1 .. n) /\ Fits(order)
  <2>1. \E p \in Bijection(DOMAIN a, DOMAIN a) : Fits(p)
    BY <1>1, OrderExists DEF HasOrder
  <2> HIDE DEF Fits
  <2> QED BY <1>1, <2>1
<1>3. Ascending(a) = [i \in DOMAIN a |-> a[order[i]]]
  BY Zenon DEF Ascending
<1> HIDE DEF order
<1>4. order \in [1 .. n -> 1 .. n]
  BY <1>2 DEF Bijection, Injection
<1>5. \A i \in 1 .. n : Ascending(a)[i] = a[order[i]]
  BY <1>1, <1>3
<1>6. Ascending(a) \in [1 .. n -> Nat]
  BY <1>1, <1>3, <1>4
<1>7. \A i, j \in 1 .. n : i < j => Ascending(a)[i] <= Ascending(a)[j]
  BY <1>1, <1>2, <1>5
<1> HIDE DEF Fits
<1> QED BY <1>2, <1>5, <1>6, <1>7

-----------------------------------------------------------------------------
(* What a stay costs. *)

LEMMA HalvesAreNat == \A x \in Nat : x \div 2 \in Nat /\ x \div 2 <= x
OBVIOUS

(* What each head would cost as an extra one: the children, then the adults. *)
HeadCharges(party, rate) ==
  [i \in DOMAIN party.ages |-> ChargeForAge(party.ages[i], rate)]
    \o [i \in 1 .. party.adults |-> rate]

LEMMA HeadChargesTyped ==
  ASSUME NEW party \in PartyRows, NEW rate \in Nat
  PROVE  Heads(party) \in Nat /\ HeadCharges(party, rate) \in [1 .. Heads(party) -> Nat]
<1>1. party.adults \in Nat /\ party.ages \in Seq(Nat) /\ Len(party.ages) \in Nat
  BY DEF PartyRows
<1>2. Heads(party) \in Nat
  BY <1>1 DEF Heads
<1> DEFINE children == [i \in DOMAIN party.ages |-> ChargeForAge(party.ages[i], rate)]
           adults == [i \in 1 .. party.adults |-> rate]
<1>3. ASSUME NEW i \in DOMAIN party.ages PROVE ChargeForAge(party.ages[i], rate) \in Nat
  BY <1>1, HalvesAreNat DEF ChargeForAge, ChildFreeBelowAge, ChildHalfRateBelowAge
<1>4. children \in Seq(Nat) /\ Len(children) = Len(party.ages)
  <2>1. DOMAIN party.ages = 1 .. Len(party.ages)
    BY <1>1
  <2>2. children \in [1 .. Len(party.ages) -> Nat]
    BY <1>3, <2>1
  <2> HIDE DEF children
  <2> QED BY <1>1, <2>2, RunIsSeq
<1>5. adults \in Seq(Nat) /\ Len(adults) = party.adults
  <2>1. adults \in [1 .. party.adults -> Nat]
    OBVIOUS
  <2> HIDE DEF adults
  <2> QED BY <1>1, <2>1, RunIsSeq
<1> HIDE DEF children, adults
<1>6. children \o adults \in Seq(Nat) /\ Len(children \o adults) = Len(party.ages) + party.adults
  <2>1. /\ children \o adults \in Seq(Nat)
        /\ Len(children \o adults) = Len(children) + Len(adults)
    BY <1>4, <1>5, ConcatProperties
  <2> QED BY <1>4, <1>5, <2>1
<1>7. children \o adults \in [1 .. Heads(party) -> Nat]
  <2>1. party.adults + Len(party.ages) = Len(children \o adults)
    BY <1>1, <1>6
  <2> QED BY <1>6, <2>1, LenProperties DEF Heads
<1> QED BY <1>2, <1>7 DEF HeadCharges, children, adults

LEMMA FirstOf ==
  ASSUME NEW n \in Nat, NEW a \in [1 .. n -> Int], NEW k \in Int, k <= n
  PROVE  LET first == SubSeq(a, 1, k)
             m == IF 0 < k THEN k ELSE 0
         IN  m \in 0 .. n /\ first \in [1 .. m -> Int] /\ \A i \in 1 .. m : first[i] = a[i]
<1>1. a \in Seq(Int) /\ Len(a) = n
  OBVIOUS
<1>2. CASE 0 < k
  <2>1. \A i \in 1 .. k : a[i] \in Int
    BY <1>1
  <2>2. /\ SubSeq(a, 1, k) \in Seq(Int) /\ Len(SubSeq(a, 1, k)) = k
        /\ \A i \in 1 .. k : SubSeq(a, 1, k)[i] = a[i]
    BY <1>2, <2>1, SubSeqProperties
  <2>3. SubSeq(a, 1, k) \in [1 .. k -> Int]
    BY <2>2, LenProperties
  <2> QED BY <1>2, <2>2, <2>3
<1>3. CASE ~(0 < k)
  <2>1. SubSeq(a, 1, k) = <<>>
    BY <1>1, <1>3
  <2> QED BY <2>1, <1>3
<1> QED BY <1>2, <1>3

LEMMA ExtraPersonsTyped ==
  ASSUME NEW party \in PartyRows, NEW rate \in Nat
  PROVE  ExtraPersons(party, rate) \in Nat
<1> DEFINE n == Heads(party)
           t == Ascending(HeadCharges(party, rate))
           first == SubSeq(t, 1, n - IncludedOccupancy)
<1>1. n \in Nat /\ HeadCharges(party, rate) \in [1 .. n -> Nat]
  BY HeadChargesTyped
<1> HIDE DEF n
<1>2. t \in [1 .. n -> Nat]
  BY <1>1, AscendingIs
<1> HIDE DEF t
<1>3. first \in Seq(Nat)
  <2>1. t \in Seq(Nat) /\ Len(t) = n
    BY <1>1, <1>2
  <2>2. n - IncludedOccupancy \in Int /\ n - IncludedOccupancy <= n
    BY <1>1 DEF IncludedOccupancy
  <2> QED BY <2>1, <2>2
<1>4. ExtraPersons(party, rate) = Total(first)
  BY DEF ExtraPersons, HeadCharges, first, t, n
<1> QED BY <1>3, <1>4, TotalNat

LEMMA TimesNat == \A u, v \in Nat : u * v \in Nat
OBVIOUS

LEMMA TimesLess == \A u, v, x \in Int : (u - v) * x + v * x = u * x
OBVIOUS

(* A share of a price, the fraction dropped, rises with the price. *)
LEMMA SharesRise ==
  ASSUME NEW x \in Nat, NEW y \in Nat, x <= y, NEW c \in Nat
  PROVE  /\ (x * c) \div 100 \in Nat /\ (y * c) \div 100 \in Nat
         /\ (x * c) \div 100 <= (y * c) \div 100
<1>1. x * c \in Nat /\ y * c \in Nat /\ (y - x) * c \in Nat /\ y * c = x * c + (y - x) * c
  <2>1. \A u, v \in Nat : u * v \in Nat
    OBVIOUS
  <2>2. y - x \in Nat /\ x \in Int /\ y \in Int
    OBVIOUS
  <2> QED BY <2>1, <2>2
<1>2. \A u, v \in Nat : u <= v => u \div 100 \in Nat /\ v \div 100 \in Nat /\ u \div 100 <= v \div 100
  OBVIOUS
<1>3. x * c <= y * c
  BY <1>1
<1> QED BY <1>1, <1>2, <1>3

LEMMA PlansRise ==
  ASSUME NEW x \in Nat, NEW y \in Nat, x <= y, NEW percent \in -100 .. 100
  PROVE  /\ PlanAdjusted(x, percent) \in Nat /\ PlanAdjusted(y, percent) \in Nat
         /\ PlanAdjusted(x, percent) <= PlanAdjusted(y, percent)
<1>1. 100 + percent \in Nat
  OBVIOUS
<1> QED BY <1>1, SharesRise DEF PlanAdjusted

(* What a promotion leaves of a room: no less than nothing, and no more of a dearer one. *)
LEMMA LeftoversRise ==
  ASSUME NEW x \in Nat, NEW y \in Nat, x <= y, NEW promotion \in PromotionRows \cup {NoPromotion}
  PROVE  /\ Reduction(x, promotion) \in 0 .. x /\ Reduction(y, promotion) \in 0 .. y
         /\ x - Reduction(x, promotion) <= y - Reduction(y, promotion)
<1>1. CASE promotion = NoPromotion
  BY <1>1 DEF Reduction, NoPromotion
<1>2. CASE promotion \in [type : {"FIXED_AMOUNT"}, value : {v \in Int : v < 0}]
  <2>1. promotion.type = "FIXED_AMOUNT" /\ promotion.value \in Int /\ promotion.value < 0
    BY <1>2
  <2>2. \A room : Reduction(room, promotion) =
                    IF -promotion.value < room THEN -promotion.value ELSE room
    BY <2>1 DEF Reduction
  <2> QED BY <2>1, <2>2
<1>3. CASE promotion \in [type : {"PERCENTAGE"}, value : -99 .. -1]
  <2> DEFINE c == 100 + promotion.value
  <2>1. promotion.type = "PERCENTAGE" /\ c \in Nat /\ c <= 100
    BY <1>3
  <2>2. \A room : Reduction(room, promotion) = room - (room * c) \div 100
    BY <2>1 DEF Reduction
  <2> HIDE DEF c
  <2>3. ASSUME NEW room \in Nat PROVE (room * c) \div 100 \in 0 .. room
    <3>1. room * c \in Nat /\ room * c <= room * 100
      <4>1. \A u, v \in Nat : u * v \in Nat
        OBVIOUS
      <4>2. room * c \in Nat /\ room * (100 - c) \in Nat /\ room * c + room * (100 - c) = room * 100
        BY <2>1, <4>1
      <4> QED BY <4>2
    <3> QED BY <3>1
  <2>4. (x * c) \div 100 <= (y * c) \div 100
    BY <2>1, SharesRise
  <2>5. (x * c) \div 100 \in 0 .. x /\ (y * c) \div 100 \in 0 .. y
    BY <2>3
  <2> QED BY <2>2, <2>4, <2>5
<1> QED BY <1>1, <1>2, <1>3 DEF PromotionRows

LEMMA BreakfastHeadsTyped ==
  ASSUME NEW party \in PartyRows
  PROVE  BreakfastHeads(party) \in Nat
<1> DEFINE eaters == {i \in DOMAIN party.ages : party.ages[i] >= ChildFreeBelowAge}
<1>1. party.adults \in Nat /\ Len(party.ages) \in Nat /\ DOMAIN party.ages = 1 .. Len(party.ages)
  BY DEF PartyRows
<1>2. IsFiniteSet(1 .. Len(party.ages)) /\ eaters \subseteq 1 .. Len(party.ages)
  BY <1>1, FS_Interval
<1> HIDE DEF eaters
<1>3. Cardinality(eaters) \in Nat
  BY <1>2, FS_Subset, FS_CardinalityType
<1> QED BY <1>1, <1>3 DEF BreakfastHeads, eaters

(* A longer stay costs no less, and no stay costs less than nothing. *)
LEMMA StaysRise ==
  ASSUME NEW quote \in QuoteRows, NEW m \in Nat, NEW n \in Nat, m <= n,
         NEW short, NEW long, Len(short) = m, Len(long) = n,
         Total(short) \in Nat, Total(long) \in Nat, Total(short) <= Total(long)
  PROVE  /\ StayTotal(quote, short) \in Nat /\ StayTotal(quote, long) \in Nat
         /\ StayTotal(quote, short) <= StayTotal(quote, long)
<1> DEFINE heads == ExtraPersons(quote.party, quote.extra) + quote.breakfast * BreakfastHeads(quote.party)
           room(nights) == PlanAdjusted(Total(nights), quote.percent)
           off(nights) == Reduction(room(nights), quote.promotion)
<1>1. /\ quote.percent \in -100 .. 100 /\ quote.breakfast \in Nat /\ quote.extra \in Nat
      /\ quote.party \in PartyRows /\ quote.promotion \in PromotionRows \cup {NoPromotion}
  BY DEF QuoteRows
<1>2. heads \in Nat
  <2>1. ExtraPersons(quote.party, quote.extra) \in Nat
    BY <1>1, ExtraPersonsTyped
  <2>2. quote.breakfast * BreakfastHeads(quote.party) \in Nat
    BY <1>1, BreakfastHeadsTyped, TimesNat
  <2> QED BY <2>1, <2>2
<1>3. room(short) \in Nat /\ room(long) \in Nat /\ room(short) <= room(long)
  BY <1>1, PlansRise
<1>4. /\ StayTotal(quote, short) = room(short) - off(short) + m * heads
      /\ StayTotal(quote, long) = room(long) - off(long) + n * heads
  BY DEF StayTotal
<1> HIDE DEF heads, room
<1>5. /\ off(short) \in 0 .. room(short) /\ off(long) \in 0 .. room(long)
      /\ room(short) - off(short) <= room(long) - off(long)
  BY <1>1, <1>3, LeftoversRise
<1> HIDE DEF off
<1>6. m * heads \in Nat /\ n * heads \in Nat /\ m * heads <= n * heads
  <2>2. n - m \in Nat /\ (n - m) * heads + m * heads = n * heads
    BY <1>2, TimesLess
  <2>3. (n - m) * heads \in Nat
    BY <1>2, <2>2, TimesNat
  <2>4. m * heads \in Nat /\ n * heads \in Nat
    BY <1>2, TimesNat
  <2> QED BY <2>2, <2>3, <2>4
<1> QED BY <1>3, <1>4, <1>5, <1>6

(* The first nights of a stay. *)
LEMMA FirstNights ==
  ASSUME NEW nights \in Seq(Nat), NEW k \in 0 .. Len(nights)
  PROVE  /\ SubSeq(nights, 1, k) \in Seq(Nat) /\ Len(SubSeq(nights, 1, k)) = k
         /\ Total(SubSeq(nights, 1, k)) \in Nat
         /\ Total(SubSeq(nights, 1, k)) <= Total(nights)
<1>1. Len(nights) \in Nat /\ nights \in Seq(Int) /\ \A i \in 1 .. Len(nights) : nights[i] \in Nat
  BY SeqMonotonic
<1>2. SubSeq(nights, 1, k) \in Seq(Nat) /\ Len(SubSeq(nights, 1, k)) = k
  <2>1. \A i \in 1 .. k : nights[i] \in Nat
    BY <1>1
  <2> QED BY <1>1, <2>1, SubSeqProperties
<1>3. SubSeq(nights, k + 1, Len(nights)) \in Seq(Nat)
  <2>1. \A i \in (k + 1) .. Len(nights) : nights[i] \in Nat
    BY <1>1
  <2> QED BY <1>1, <2>1, SubSeqProperties
<1>4. Total(nights) = Total(SubSeq(nights, 1, k)) + Total(SubSeq(nights, k + 1, Len(nights)))
  BY <1>1, TotalSplit
<1>5. Total(SubSeq(nights, 1, k)) \in Nat /\ Total(SubSeq(nights, k + 1, Len(nights))) \in Nat
  BY <1>2, <1>3, TotalNat
<1>6. Total(SubSeq(nights, 1, k)) <= Total(nights)
  BY <1>4, <1>5
<1> QED BY <1>2, <1>5, <1>6

LEMMA NoNights ==
  ASSUME NEW quote \in QuoteRows
  PROVE  StayTotal(quote, <<>>) = 0
<1>1. PlanAdjusted(0, quote.percent) = 0
  BY DEF PlanAdjusted, QuoteRows
<1>2. Reduction(0, quote.promotion) = 0
  <2>1. quote.promotion \in PromotionRows \cup {NoPromotion}
    BY DEF QuoteRows
  <2> QED BY <2>1, LeftoversRise
<1> DEFINE heads == ExtraPersons(quote.party, quote.extra) + quote.breakfast * BreakfastHeads(quote.party)
<1>3. heads \in Nat
  <2>1. quote.breakfast \in Nat /\ quote.extra \in Nat /\ quote.party \in PartyRows
    BY DEF QuoteRows
  <2>2. ExtraPersons(quote.party, quote.extra) \in Nat
    BY <2>1, ExtraPersonsTyped
  <2>3. quote.breakfast * BreakfastHeads(quote.party) \in Nat
    BY <2>1, BreakfastHeadsTyped, TimesNat
  <2> QED BY <2>2, <2>3
<1>4. Len(<<>>) = 0 /\ Total(<<>>) = 0
  BY TotalEmpty
<1>5. StayTotal(quote, <<>>) =
        PlanAdjusted(Total(<<>>), quote.percent)
          - Reduction(PlanAdjusted(Total(<<>>), quote.percent), quote.promotion)
          + Len(<<>>) * heads
  BY DEF StayTotal
<1> HIDE DEF heads
<1> QED BY <1>1, <1>2, <1>3, <1>4, <1>5

(* The first k nights of a stay and its first k - 1. *)
LEMMA OneNightLess ==
  ASSUME NEW nights \in Seq(Nat), NEW k \in 1 .. Len(nights)
  PROVE  Front(SubSeq(nights, 1, k)) = SubSeq(nights, 1, k - 1)
<1>1. SubSeq(nights, 1, k) \in Seq(Nat) /\ Len(SubSeq(nights, 1, k)) = k
  BY FirstNights
<1>2. SubSeq(nights, 1, k - 1) \in Seq(Nat) /\ Len(SubSeq(nights, 1, k - 1)) = k - 1
  BY FirstNights
<1>3. Front(SubSeq(nights, 1, k)) = SubSeq(SubSeq(nights, 1, k), 1, k - 1)
  BY <1>1 DEF Front
<1>4. \A i \in 1 .. k : SubSeq(nights, 1, k)[i] = nights[i] /\ nights[i] \in Nat
  <2>1. \A i \in 1 .. k : nights[i] \in Nat
    OBVIOUS
  <2> QED BY <2>1, SubSeqProperties
<1>5. \A i \in 1 .. (k - 1) : SubSeq(nights, 1, k - 1)[i] = nights[i]
  <2>1. \A i \in 1 .. (k - 1) : nights[i] \in Nat
    OBVIOUS
  <2> QED BY <2>1, SubSeqProperties
<1>6. /\ SubSeq(SubSeq(nights, 1, k), 1, k - 1) \in Seq(Nat)
      /\ Len(SubSeq(SubSeq(nights, 1, k), 1, k - 1)) = k - 1
      /\ \A i \in 1 .. (k - 1) : SubSeq(SubSeq(nights, 1, k), 1, k - 1)[i] = nights[i]
  <2>1. \A i \in 1 .. (k - 1) : SubSeq(nights, 1, k)[i] = nights[i] /\ nights[i] \in Nat
    BY <1>4
  <2> QED BY <1>1, <2>1, SubSeqProperties
<1> QED BY <1>2, <1>3, <1>5, <1>6, SeqEqual

(* stay-quote.ts, room-charge-sweep.ts: a night is what the stay through it costs
   less the stay through the one before, and so the nights sum to the quote, to the
   dong, wherever the divisions left the odd one; and no night costs less than
   nothing, however little a plan and a promotion leave.                      *)
THEOREM NightsSumToTheQuoteAlways ==
  ASSUME NEW quote \in QuoteRows, NEW nights \in Seq(Nat)
  PROVE  LET night == [k \in DOMAIN nights |-> NightPrice(quote, SubSeq(nights, 1, k))]
         IN  night \in Seq(Nat) /\ Total(night) = StayTotal(quote, nights)
<1> DEFINE n == Len(nights)
           night == [k \in DOMAIN nights |-> NightPrice(quote, SubSeq(nights, 1, k))]
           f == [k \in 0 .. n |-> StayTotal(quote, SubSeq(nights, 1, k))]
<1>1. n \in Nat /\ DOMAIN nights = 1 .. n /\ SubSeq(nights, 1, n) = nights
  BY SubSeqFull
<1>0. \A k \in 0 .. n : f[k] = StayTotal(quote, SubSeq(nights, 1, k))
  OBVIOUS
<1> HIDE DEF f
<1>2. f[0] = 0
  <2>1. SubSeq(nights, 1, 0) = <<>>
    BY SubSeqEmpty
  <2>2. 0 \in 0 .. n
    BY <1>1
  <2>3. f[0] = StayTotal(quote, SubSeq(nights, 1, 0))
    BY <1>0, <2>2, Zenon
  <2> QED BY <2>1, <2>3, NoNights
<1>3. ASSUME NEW k \in 1 .. n
      PROVE  night[k] = f[k] - f[k - 1] /\ f[k] \in Nat /\ f[k - 1] \in Nat /\ f[k - 1] <= f[k]
  <2> DEFINE long == SubSeq(nights, 1, k)
             short == SubSeq(nights, 1, k - 1)
  <2>1. k \in 0 .. n /\ k - 1 \in 0 .. n /\ k \in Nat /\ k - 1 \in Nat /\ k - 1 <= k
    BY <1>1
  <2>2. f[k] = StayTotal(quote, long) /\ f[k - 1] = StayTotal(quote, short)
    BY <1>0, <2>1
  <2>3. night[k] = StayTotal(quote, long) - StayTotal(quote, short)
    BY <1>1, OneNightLess DEF NightPrice
  <2>4. long \in Seq(Nat) /\ Len(long) = k /\ Total(long) \in Nat
    BY <2>1, FirstNights
  <2>5. Len(short) = k - 1 /\ Total(short) \in Nat
    BY <2>1, FirstNights
  <2>6. Total(short) <= Total(long)
    <3>1. SubSeq(long, 1, k - 1) = short
      BY <2>4, OneNightLess DEF Front
    <3>2. k - 1 \in 0 .. Len(long)
      BY <2>1, <2>4
    <3> HIDE DEF long, short
    <3> QED BY <2>4, <3>1, <3>2, FirstNights
  <2> HIDE DEF long, short, night
  <2>7. /\ StayTotal(quote, short) \in Nat /\ StayTotal(quote, long) \in Nat
        /\ StayTotal(quote, short) <= StayTotal(quote, long)
    BY <2>1, <2>4, <2>5, <2>6, StaysRise
  <2> QED BY <2>2, <2>3, <2>7
<1>4. f[n] = StayTotal(quote, nights)
  <2>1. n \in 0 .. n
    BY <1>1
  <2>2. f[n] = StayTotal(quote, SubSeq(nights, 1, n))
    BY <1>0, <2>1, Zenon
  <2> QED BY <1>1, <2>2, Zenon
<1>5. DOMAIN night = 1 .. n
  BY <1>1
<1>6. ASSUME NEW k \in 1 .. n PROVE night[k] \in Nat /\ f[k] = f[k - 1] + night[k]
  <2> HIDE DEF night
  <2> QED BY <1>3
<1>7. night \in Seq(Nat)
  <2>1. night = [k \in 1 .. n |-> night[k]]
    BY <1>1
  <2> HIDE DEF night
  <2> QED BY <1>1, <1>6, <2>1
<1> HIDE DEF night
<1>8. Total(night) = f[n]
  <2>1. Runs(f, night, n)
    BY <1>2, <1>6 DEF Runs
  <2>2. night \in [1 .. n -> Int]
    BY <1>5, <1>6, <1>7, LenProperties, SeqMonotonic
  <2> QED BY <1>1, <2>1, <2>2, TotalIs
<1> QED BY <1>4, <1>7, <1>8 DEF night

LEMMA Remaining ==
  ASSUME NEW nights \in Seq(Nat), NEW spent \in Nat
  PROVE  LET n == Len(nights)
             k == IF spent < n THEN spent ELSE n
             rest == Total(SubSeq(nights, spent + 1, n))
         IN  /\ rest \in 0 .. Total(nights) /\ Total(nights) \in Nat
             /\ rest + Total(SubSeq(nights, 1, k)) = Total(nights)
<1> DEFINE n == Len(nights)
           k == IF spent < n THEN spent ELSE n
           rest == SubSeq(nights, spent + 1, n)
<1>1. n \in Nat /\ nights \in Seq(Int) /\ k \in 0 .. n /\ spent + 1 \in Int
  BY SeqMonotonic
<1>2. rest = SubSeq(nights, k + 1, n)
  <2>1. CASE spent < n
    BY <2>1
  <2>2. CASE ~(spent < n)
    <3>1. rest = <<>> /\ SubSeq(nights, n + 1, n) = <<>>
      BY <1>1, <2>2, SubSeqEmpty
    <3> QED BY <2>2, <3>1
  <2> QED BY <2>1, <2>2
<1>3. Total(nights) = Total(SubSeq(nights, 1, k)) + Total(SubSeq(nights, k + 1, n))
  BY <1>1, TotalSplit
<1>4. Total(SubSeq(nights, 1, k)) \in Nat /\ Total(nights) \in Nat
  BY <1>1, FirstNights, TotalNat
<1>5. Total(rest) \in Nat
  <2>1. \A i \in (spent + 1) .. n : nights[i] \in Nat
    BY <1>1
  <2>2. rest \in Seq(Nat)
    BY <1>1, <2>1, SubSeqProperties
  <2> QED BY <2>2, TotalNat
<1> DEFINE total == Total(nights)
           first == Total(SubSeq(nights, 1, k))
           left == Total(rest)
<1>6. total = first + left /\ total \in Nat /\ first \in Nat /\ left \in Nat
  BY <1>2, <1>3, <1>4, <1>5
<1> HIDE DEF total, first, left
<1>7. left \in 0 .. total /\ left + first = total
  BY <1>6
<1> QED BY <1>6, <1>7 DEF total, first, left

(* cancellation-calculator.ts: the nights on the account and the remaining ones at
   the whole rate are the stay, wherever it is left and also past its end.    *)
THEOREM SpentAndRemainingAreTheStayAlways ==
  ASSUME NEW nights \in Seq(Nat), NEW spent \in Nat
  PROVE  LET k == IF spent < Len(nights) THEN spent ELSE Len(nights)
         IN  Penalty("EARLY_DEPARTURE", TRUE, nights, spent) + Total(SubSeq(nights, 1, k))
               = Penalty("NO_SHOW", TRUE, nights, 0)
<1>1. Penalty("EARLY_DEPARTURE", TRUE, nights, spent) = Total(SubSeq(nights, spent + 1, Len(nights)))
  BY DEF Penalty
<1>2. Penalty("NO_SHOW", TRUE, nights, 0) = Total(nights)
  BY DEF Penalty
<1> QED BY <1>1, <1>2, Remaining

Events == {"CANCELLED_IN_TIME", "CANCELLED_LATE", "NO_SHOW", "EARLY_DEPARTURE"}

(* cancellation-calculator.ts: whatever ends a stay, on either plan and however many
   of its nights are on the account, the charge is no less than nothing and no
   more than the nights it was sold.                                          *)
THEOREM PenaltiesStayWithinTheStay ==
  ASSUME NEW event \in Events, NEW nonRefundable \in BOOLEAN,
         NEW nights \in Seq(Nat), nights # <<>>, NEW spent \in Nat
  PROVE  Penalty(event, nonRefundable, nights, spent) \in 0 .. Total(nights)
<1> DEFINE rest == Total(SubSeq(nights, spent + 1, Len(nights)))
<1>1. rest \in 0 .. Total(nights) /\ Total(nights) \in Nat
  BY Remaining
<1>2. nights[1] \in 0 .. Total(nights)
  <2>1. 1 \in 0 .. Len(nights) /\ nights[1] \in Nat
    BY EmptySeq
  <2>2. Total(SubSeq(nights, 1, 1)) \in Nat /\ Total(SubSeq(nights, 1, 1)) <= Total(nights)
    BY <2>1, FirstNights
  <2>3. Total(SubSeq(nights, 1, 1)) = nights[1]
    <3>1. /\ SubSeq(nights, 1, 1) \in Seq(Int) /\ Len(SubSeq(nights, 1, 1)) = 1
          /\ SubSeq(nights, 1, 1)[1] = nights[1]
      <4>1. \A i \in 1 .. 1 : nights[i] \in Int
        BY <2>1
      <4> QED BY <4>1, SubSeqProperties
    <3>2. SubSeq(nights, 1, 1) \in [1 .. 1 -> Int]
      BY <3>1, LenProperties
    <3>3. PICK f : Runs(f, SubSeq(nights, 1, 1), 1) /\ Total(SubSeq(nights, 1, 1)) = f[1]
      <4>1. 1 \in Nat
        OBVIOUS
      <4> QED BY <3>2, <4>1, TotalRuns
    <3>4. f[0] = 0 /\ f[1] = f[0] + nights[1]
      BY <3>1, <3>3 DEF Runs
    <3> QED BY <2>1, <3>3, <3>4
  <2> QED BY <1>1, <2>1, <2>2, <2>3
<1> HIDE DEF rest
<1>3. CASE event = "EARLY_DEPARTURE"
  <2>1. Penalty(event, nonRefundable, nights, spent) = IF nonRefundable THEN rest ELSE rest \div 2
    BY <1>3 DEF Penalty, rest
  <2>2. rest \div 2 \in 0 .. rest
    BY <1>1
  <2> QED BY <1>1, <2>1, <2>2
<1>4. CASE event # "EARLY_DEPARTURE" /\ nonRefundable
  BY <1>1, <1>4 DEF Penalty
<1>5. CASE event = "CANCELLED_IN_TIME" /\ ~nonRefundable
  BY <1>1, <1>5 DEF Penalty
<1>6. CASE event \in {"CANCELLED_LATE", "NO_SHOW"} /\ ~nonRefundable
  BY <1>2, <1>6 DEF Penalty
<1> QED BY <1>3, <1>4, <1>5, <1>6 DEF Events

(* A stay as a promotion sees it, and what of a candidate is frozen. *)
StayRows == [checkIn : Nat, checkOut : Nat, room : Nat]

Frozen(row) == [type |-> row.type, value |-> row.value]

(* The best so far, and the next candidate. *)
Better(best, next, stay) ==
  IF Applies(next, stay) /\ Reduction(stay.room, next) > Reduction(stay.room, best)
  THEN [type |-> next.type, value |-> next.value] ELSE best

LEMMA CandidatesReduce ==
  ASSUME NEW row \in CandidateRows, NEW room \in Nat
  PROVE  /\ Frozen(row) \in PromotionRows
         /\ Reduction(room, Frozen(row)) = Reduction(room, row)
         /\ Reduction(room, row) \in Nat
<1>1. Frozen(row) \in PromotionRows
  BY DEF CandidateRows, PromotionRows, Frozen
<1>2. Reduction(room, Frozen(row)) = Reduction(room, row)
  BY DEF Frozen, Reduction
<1>3. Reduction(room, Frozen(row)) \in 0 .. room
  <2> room <= room /\ Frozen(row) \in PromotionRows \cup {NoPromotion}
    BY <1>1
  <2> QED BY LeftoversRise
<1> QED BY <1>1, <1>2, <1>3

LEMMA BestRuns ==
  ASSUME NEW rows \in Seq(CandidateRows), NEW stay \in StayRows
  PROVE  \E f : /\ f[0] = NoPromotion /\ BestPromotion(rows, stay) = f[Len(rows)]
                /\ \A k \in 1 .. Len(rows) : f[k] = Better(f[k - 1], rows[k], stay)
<1> DEFINE n == Len(rows)
           B == PromotionRows \cup {NoPromotion}
           it == CHOOSE g : g = [s \in SUBSET DOMAIN rows |->
                                   IF s = {} THEN NoPromotion
                                   ELSE Better(g[s \ {Max(s)}], rows[Max(s)], stay)]
<1>0. n \in Nat /\ DOMAIN rows = 1 .. n /\ \A k \in 1 .. n : rows[k] \in CandidateRows
  OBVIOUS
<1>1. BestPromotion(rows, stay) = it[DOMAIN rows]
  BY Zenon DEF BestPromotion, FoldLeft, MapThenFoldSet, Better
<1>2. it = [s \in SUBSET (1 .. n) |->
              IF s = {} THEN NoPromotion ELSE Better(it[s \ {Max(s)}], rows[Max(s)], stay)]
  <2> DEFINE F == [x \in B \X (1 .. n) |-> Better(x[1], rows[x[2]], stay)]
  <2>1. \A x \in B, k \in 1 .. n : F[<<x, k>>] = Better(x, rows[k], stay)
    OBVIOUS
  <2>2. \A x \in B, k \in 1 .. n : Better(x, rows[k], stay) \in B
    BY <1>0, CandidatesReduce DEF Better, Frozen, StayRows
  <2> HIDE DEF F, B
  <2>3. PICK g \in [SUBSET (1 .. n) -> B] : g = Folded(g, NoPromotion, F, 1 .. n)
    <3>1. NoPromotion \in B /\ \A x \in B, k \in 1 .. n : F[<<x, k>>] \in B
      BY <2>1, <2>2 DEF B
    <3>2. HasFold(B, NoPromotion, F, n)
      BY <1>0, <3>1, FoldExists
    <3> QED BY <3>2 DEF HasFold
  <2>4. ASSUME NEW s \in SUBSET (1 .. n)
        PROVE  g[s] = IF s = {} THEN NoPromotion ELSE Better(g[s \ {Max(s)}], rows[Max(s)], stay)
    <3>1. g[s] = IF s = {} THEN NoPromotion ELSE F[<<g[s \ {Max(s)}], Max(s)>>]
      BY <2>3 DEF Folded
    <3>2. CASE s # {}
      <4>1. Max(s) \in 1 .. n /\ s \ {Max(s)} \in SUBSET (1 .. n)
        BY <1>0, <3>2, LargestOf
      <4>2. g[s \ {Max(s)}] \in B
        BY <2>3, <4>1
      <4> QED BY <2>1, <3>1, <3>2, <4>1, <4>2
    <3> QED BY <3>1, <3>2
  <2>5. g = [s \in SUBSET DOMAIN rows |->
               IF s = {} THEN NoPromotion ELSE Better(g[s \ {Max(s)}], rows[Max(s)], stay)]
    BY <1>0, <2>4
  <2>6. it = [s \in SUBSET DOMAIN rows |->
                IF s = {} THEN NoPromotion ELSE Better(it[s \ {Max(s)}], rows[Max(s)], stay)]
    BY <2>5
  <2> HIDE DEF it
  <2> QED BY <1>0, <2>6
<1> HIDE DEF it
<1> DEFINE f == [k \in 0 .. n |-> it[1 .. k]]
<1>3. f[0] = NoPromotion
  <2>1. 1 .. 0 = {} /\ 0 \in 0 .. n
    BY <1>0
  <2> QED BY <1>2, <2>1
<1>4. ASSUME NEW k \in 1 .. n PROVE f[k] = Better(f[k - 1], rows[k], stay)
  <2>1. it[1 .. k] = Better(it[1 .. (k - 1)], rows[k], stay)
    <3>1. /\ 1 .. k \in SUBSET (1 .. n) /\ 1 .. k # {}
          /\ Max(1 .. k) = k /\ (1 .. k) \ {Max(1 .. k)} = 1 .. (k - 1)
      BY <1>0, UpToItself
    <3>2. it[1 .. k] = Better(it[(1 .. k) \ {Max(1 .. k)}], rows[Max(1 .. k)], stay)
      BY <1>2, <3>1
    <3> QED BY <3>1, <3>2
  <2>2. f[k] = it[1 .. k] /\ f[k - 1] = it[1 .. (k - 1)]
    BY <1>0
  <2> HIDE DEF f
  <2> QED BY <2>1, <2>2
<1>5. f[n] = it[1 .. n]
  BY <1>0
<1> HIDE DEF f
<1> QED BY <1>0, <1>1, <1>3, <1>4, <1>5

(* tier-promotion.ts: whatever is on offer, the promotion a booking freezes is none
   when nothing that applies takes anything off, and otherwise one that applies,
   that no other one that applies goes deeper than and that no earlier one goes as
   deep as.                                                                   *)
THEOREM TheDeepestPromotionWinsAlways ==
  ASSUME NEW rows \in Seq(CandidateRows), NEW stay \in StayRows
  PROVE  LET won == BestPromotion(rows, stay)
             off == [k \in DOMAIN rows |-> IF Applies(rows[k], stay)
                                           THEN Reduction(stay.room, rows[k]) ELSE 0]
         IN  \/ won = NoPromotion /\ \A k \in DOMAIN rows : off[k] = 0
             \/ \E k \in DOMAIN rows :
                  /\ Applies(rows[k], stay)
                  /\ won = [type |-> rows[k].type, value |-> rows[k].value]
                  /\ off[k] > 0 /\ \A j \in DOMAIN rows : off[j] <= off[k]
                  /\ \A j \in DOMAIN rows : j < k => off[j] < off[k]
<1> DEFINE n == Len(rows)
           off == [k \in DOMAIN rows |-> IF Applies(rows[k], stay)
                                         THEN Reduction(stay.room, rows[k]) ELSE 0]
<1>0. n \in Nat /\ DOMAIN rows = 1 .. n /\ \A k \in 1 .. n : rows[k] \in CandidateRows
  OBVIOUS
<1>1. PICK f : /\ f[0] = NoPromotion /\ BestPromotion(rows, stay) = f[n]
               /\ \A k \in 1 .. n : f[k] = Better(f[k - 1], rows[k], stay)
  BY BestRuns
<1>2. ASSUME NEW k \in 1 .. n
      PROVE  /\ off[k] \in Nat
             /\ ~Applies(rows[k], stay) => off[k] = 0
             /\ Applies(rows[k], stay) =>
                  off[k] = Reduction(stay.room, rows[k])
             /\ Reduction(stay.room, Frozen(rows[k])) = Reduction(stay.room, rows[k])
  BY <1>0, CandidatesReduce DEF StayRows
<1>3. Reduction(stay.room, NoPromotion) = 0
  BY DEF Reduction, NoPromotion
<1> HIDE DEF off
<1> DEFINE Wins(won, k, m) ==
             /\ Applies(rows[k], stay) /\ won = Frozen(rows[k]) /\ off[k] > 0
             /\ \A j \in 1 .. m : off[j] <= off[k]
             /\ \A j \in 1 .. m : j < k => off[j] < off[k]
           Best(won, m) == \/ won = NoPromotion /\ \A j \in 1 .. m : off[j] = 0
                           \/ \E k \in 1 .. m : Wins(won, k, m)
           S == {m \in 0 .. n : Best(f[m], m)}
<1>4. 0 \in S
  BY <1>0, <1>1
<1>5. ASSUME NEW m \in 1 .. n, m - 1 \in S PROVE m \in S
  <2>1. Best(f[m - 1], m - 1) /\ m - 1 \in 0 .. n /\ m \in 0 .. n /\ m \in 1 .. m
    BY <1>0, <1>5
  <2>2. \A j \in 1 .. m : j \in 1 .. n /\ (j = m \/ (j \in 1 .. (m - 1) /\ j < m))
    BY <1>0
  <2>3. f[m] = Better(f[m - 1], rows[m], stay)
    BY <1>1
  <2>4. CASE f[m - 1] = NoPromotion /\ \A j \in 1 .. (m - 1) : off[j] = 0
    <3>1. CASE Applies(rows[m], stay) /\ off[m] > 0
      <4>1. f[m] = Frozen(rows[m])
        BY <1>2, <1>3, <2>3, <2>4, <3>1 DEF Better, Frozen
      <4>2. /\ \A j \in 1 .. m : off[j] <= off[m]
            /\ \A j \in 1 .. m : j < m => off[j] < off[m]
        <5>1. off[m] \in Nat
          BY <1>2
        <5> QED BY <2>2, <2>4, <3>1, <5>1
      <4>3. Wins(f[m], m, m)
        BY <3>1, <4>1, <4>2
      <4> QED BY <2>1, <4>3
    <3>2. CASE ~(Applies(rows[m], stay) /\ off[m] > 0)
      <4>1. off[m] = 0 /\ f[m] = NoPromotion
        BY <1>2, <1>3, <2>3, <2>4, <3>2 DEF Better
      <4>2. \A j \in 1 .. m : off[j] = 0
        BY <2>2, <2>4, <4>1
      <4> QED BY <2>1, <4>1, <4>2
    <3> QED BY <3>1, <3>2
  <2>5. ASSUME NEW k \in 1 .. (m - 1), Wins(f[m - 1], k, m - 1) PROVE m \in S
    <3>1. k \in 1 .. n /\ k \in 1 .. m /\ k < m
      BY <1>0
    <3>2. Reduction(stay.room, f[m - 1]) = off[k] /\ off[k] \in Nat /\ off[m] \in Nat
      BY <1>2, <2>5, <3>1
    <3>3. CASE Applies(rows[m], stay) /\ off[m] > off[k]
      <4>1. f[m] = Frozen(rows[m])
        BY <1>2, <2>3, <3>2, <3>3 DEF Better, Frozen
      <4>2. \A j \in 1 .. (m - 1) : off[j] \in Nat /\ off[j] <= off[k]
        BY <1>2, <2>2, <2>5
      <4>3. /\ \A j \in 1 .. m : off[j] <= off[m]
            /\ \A j \in 1 .. m : j < m => off[j] < off[m]
        BY <2>2, <3>2, <3>3, <4>2
      <4>4. Wins(f[m], m, m)
        <5>1. off[m] > 0
          BY <3>2, <3>3
        <5> QED BY <3>3, <4>1, <4>3, <5>1
      <4> QED BY <2>1, <4>4
    <3>4. CASE ~(Applies(rows[m], stay) /\ off[m] > off[k])
      <4>1. off[m] <= off[k] /\ f[m] = f[m - 1]
        BY <1>2, <2>3, <3>2, <3>4 DEF Better
      <4>2. Wins(f[m], k, m)
        BY <2>2, <2>5, <3>1, <4>1
      <4> QED BY <2>1, <3>1, <4>2
    <3> QED BY <3>3, <3>4
  <2> QED BY <2>1, <2>4, <2>5
<1>6. Best(f[n], n)
  <2>1. \A m \in 0 .. n : m \in S
    <3> HIDE DEF S
    <3> QED BY <1>0, <1>4, <1>5, UpTo
  <2> QED BY <1>0, <2>1
<1> DEFINE won == BestPromotion(rows, stay)
<1>7. Best(won, n)
  BY <1>1, <1>6
<1> HIDE DEF won
<1>8. \/ won = NoPromotion /\ \A j \in 1 .. n : off[j] = 0
      \/ \E k \in 1 .. n :
           /\ Applies(rows[k], stay)
           /\ won = [type |-> rows[k].type, value |-> rows[k].value]
           /\ off[k] > 0 /\ \A j \in 1 .. n : off[j] <= off[k]
           /\ \A j \in 1 .. n : j < k => off[j] < off[k]
  BY <1>7 DEF Frozen
<1> QED BY <1>0, <1>8, Zenon DEF off, won

(* One amount of a sum replaced. *)
LEMMA OneReplaced ==
  ASSUME NEW n \in Nat, NEW a \in [1 .. n -> Int], NEW i \in 1 .. n, NEW v \in Int
  PROVE  Total([j \in 1 .. n |-> IF j = i THEN v ELSE a[j]]) = Total(a) - a[i] + v
<1> DEFINE b == [j \in 1 .. n |-> IF j = i THEN v ELSE a[j]]
<1>1. b \in [1 .. n -> Int] /\ \A j \in 1 .. n : b[j] = IF j = i THEN v ELSE a[j]
  OBVIOUS
<1> HIDE DEF b
<1>2. PICK f : Runs(f, a, n) /\ Total(a) = f[n]
  BY TotalRuns
<1>3. \A k \in 0 .. n : f[k] \in Int
  BY <1>2, RunsTyped
<1> DEFINE g == [k \in 0 .. n |-> IF k < i THEN f[k] ELSE f[k] - a[i] + v]
<1>4. \A k \in 0 .. n : g[k] = IF k < i THEN f[k] ELSE f[k] - a[i] + v
  OBVIOUS
<1> HIDE DEF g
<1>5. g[0] = 0
  BY <1>2, <1>4 DEF Runs
<1>6. ASSUME NEW k \in 1 .. n PROVE g[k] = g[k - 1] + b[k]
  <2>1. k \in 0 .. n /\ k - 1 \in 0 .. n /\ f[k] = f[k - 1] + a[k] /\ f[k - 1] \in Int
    BY <1>2, <1>3 DEF Runs
  <2>2. a[k] \in Int /\ a[i] \in Int
    OBVIOUS
  <2>3. CASE k < i
    BY <1>1, <1>4, <2>1, <2>2, <2>3
  <2>4. CASE k = i
    BY <1>1, <1>4, <2>1, <2>2, <2>4
  <2>5. CASE k > i
    <3>1. ~(k < i) /\ ~(k - 1 < i) /\ k # i
      BY <2>5
    <3>2. g[k] = f[k] - a[i] + v /\ g[k - 1] = f[k - 1] - a[i] + v /\ b[k] = a[k]
      BY <1>1, <1>4, <2>1, <3>1
    <3> QED BY <2>1, <2>2, <3>2
  <2> QED BY <2>3, <2>4, <2>5
<1>7. Total(b) = g[n]
  <2>1. Runs(g, b, n)
    BY <1>5, <1>6 DEF Runs
  <2> QED BY <1>1, <2>1, TotalIs
<1>8. g[n] = f[n] - a[i] + v
  BY <1>4
<1>9. Total(b) = Total(a) - a[i] + v
  BY <1>2, <1>7, <1>8
<1> QED BY <1>9, Zenon DEF b

(* A sum and its last amount. *)
LEMMA LastOne ==
  ASSUME NEW n \in Nat, n # 0, NEW a \in [1 .. n -> Int]
  PROVE  /\ Total(a) = Total([i \in 1 .. (n - 1) |-> a[i]]) + a[n]
         /\ Total([i \in 1 .. (n - 1) |-> a[i]]) \in Int
<1> DEFINE b == [i \in 1 .. (n - 1) |-> a[i]]
<1>1. n - 1 \in Nat /\ n \in 1 .. n /\ b \in [1 .. (n - 1) -> Int]
  OBVIOUS
<1>2. \A i \in 1 .. (n - 1) : b[i] = a[i]
  OBVIOUS
<1>3. PICK f : Runs(f, a, n) /\ Total(a) = f[n]
  BY TotalRuns
<1> HIDE DEF b
<1>4. Runs(f, b, n - 1)
  BY <1>2, <1>3 DEF Runs
<1>5. Total(b) = f[n - 1] /\ f[n - 1] \in Int
  <2>1. Total(b) = f[n - 1]
    BY <1>1, <1>4, TotalIs
  <2>2. n - 1 \in 0 .. n
    OBVIOUS
  <2> QED BY <1>3, <2>1, <2>2, RunsTyped
<1>6. f[n] = f[n - 1] + a[n]
  BY <1>1, <1>3 DEF Runs
<1> QED BY <1>3, <1>5, <1>6 DEF b

(* Of k different places, one is k or later. *)
LEMMA OneReachesFar ==
  ASSUME NEW n \in Nat, NEW k \in 1 .. n, NEW h \in Injection(1 .. k, 1 .. n)
  PROVE  \E i \in 1 .. k : h[i] >= k
<1> SUFFICES ASSUME \A i \in 1 .. k : ~(h[i] >= k) PROVE FALSE
  OBVIOUS
<1>1. h \in [1 .. k -> 1 .. n] /\ \A i, j \in 1 .. k : h[i] = h[j] => i = j
  BY DEF Injection, IsInjective
<1>2. h \in [1 .. k -> 1 .. (k - 1)]
  <2>1. \A i \in 1 .. k : h[i] \in 1 .. (k - 1)
    BY <1>1
  <2> QED BY <1>1, <2>1
<1>3. /\ IsFiniteSet(1 .. k) /\ Cardinality(1 .. k) = k
      /\ IsFiniteSet(1 .. (k - 1)) /\ Cardinality(1 .. (k - 1)) = k - 1
  BY FS_Interval
<1>4. Cardinality(1 .. (k - 1)) < Cardinality(1 .. k)
  BY <1>3
<1> DEFINE S == 1 .. k
           T == 1 .. (k - 1)
<1>5. IsFiniteSet(S) /\ IsFiniteSet(T) /\ Cardinality(T) < Cardinality(S) /\ h \in [S -> T]
  BY <1>2, <1>3, <1>4
<1> HIDE DEF S, T
<1>6. \E x, y \in S : x # y /\ h[x] = h[y]
  BY <1>5, FS_PigeonHole
<1> QED BY <1>1, <1>6 DEF S

(* In ascending order. *)
Rising(t, n) == \A i, j \in 1 .. n : i < j => t[i] <= t[j]

(* No k charges come to less than the first k in ascending order. *)
FirstAreLeast(t, n, k) ==
  \A h \in Injection(1 .. k, 1 .. n) :
    Total([i \in 1 .. k |-> t[i]]) <= Total([i \in 1 .. k |-> t[h[i]]])

LEMMA OneMoreLeast ==
  ASSUME NEW n \in Nat, NEW t \in [1 .. n -> Nat], Rising(t, n),
         NEW k \in 1 .. n, FirstAreLeast(t, n, k - 1)
  PROVE  FirstAreLeast(t, n, k)
<1> SUFFICES ASSUME NEW h \in Injection(1 .. k, 1 .. n)
             PROVE  Total([i \in 1 .. k |-> t[i]]) <= Total([i \in 1 .. k |-> t[h[i]]])
  BY DEF FirstAreLeast
<1> DEFINE first(m) == [i \in 1 .. m |-> t[i]]
           x == [i \in 1 .. k |-> t[h[i]]]
           m == k - 1
<1>0. k \in Nat /\ k # 0 /\ m \in Nat /\ m = k - 1 /\ k \in 1 .. k
  OBVIOUS
<1>1. h \in [1 .. k -> 1 .. n] /\ \A i, j \in 1 .. k : h[i] = h[j] => i = j
  BY DEF Injection, IsInjective
<1>2. PICK far \in 1 .. k : h[far] >= k
  BY OneReachesFar
(* The last place goes where that one was. *)
<1> DEFINE g == [i \in 1 .. m |-> IF i = far THEN h[k] ELSE h[i]]
           y == [i \in 1 .. m |-> t[g[i]]]
<1>3. g \in Injection(1 .. m, 1 .. n)
  <2>1. \A i \in 1 .. m : i \in 1 .. k /\ i # k /\ g[i] = IF i = far THEN h[k] ELSE h[i]
    OBVIOUS
  <2>2. g \in [1 .. m -> 1 .. n]
    BY <1>0, <1>1
  <2> HIDE DEF g, m
  <2>3. ASSUME NEW i \in 1 .. m, NEW j \in 1 .. m, g[i] = g[j] PROVE i = j
    <3>1. i \in 1 .. k /\ j \in 1 .. k /\ i # k /\ j # k
      BY <2>1
    <3>2. h[IF i = far THEN k ELSE i] = h[IF j = far THEN k ELSE j]
      BY <2>1, <2>3
    <3>3. (IF i = far THEN k ELSE i) = (IF j = far THEN k ELSE j)
      BY <1>0, <1>1, <3>1, <3>2
    <3> QED BY <3>1, <3>3
  <2> QED BY <2>2, <2>3 DEF Injection, IsInjective
<1>4. Total(first(m)) <= Total(y)
  BY <1>3 DEF FirstAreLeast
<1>5. x \in [1 .. k -> Int] /\ y \in [1 .. m -> Int] /\ \A i \in 1 .. k : x[i] = t[h[i]]
  <2>1. \A i \in 1 .. k : t[h[i]] \in Int
    BY <1>1
  <2>2. \A i \in 1 .. m : g[i] \in 1 .. n
    BY <1>3 DEF Injection
  <2>3. \A i \in 1 .. m : t[g[i]] \in Int
    <3> HIDE DEF g
    <3> QED BY <2>2
  <2> QED BY <2>1, <2>3
<1>6. Total(x) = Total(y) + t[h[far]] /\ Total(y) \in Int
  <2> DEFINE z == [i \in 1 .. m |-> x[i]]
  <2>1. Total(x) = Total(z) + x[k] /\ Total(z) \in Int
    <3> HIDE DEF x
    <3> QED BY <1>0, <1>5, LastOne
  <2>2. CASE far = k
    <3>1. \A i \in 1 .. m : i \in 1 .. k /\ i # far
      BY <2>2
    <3>2. \A i \in 1 .. m : y[i] = z[i]
      BY <3>1
    <3>3. y = z
      BY <3>2
    <3> QED BY <1>5, <2>1, <2>2, <3>3
  <2>3. CASE far # k
    <3>1. far \in 1 .. m /\ x[k] \in Int /\ z \in [1 .. m -> Int]
      <4>1. \A i \in 1 .. m : i \in 1 .. k
        OBVIOUS
      <4>2. far \in 1 .. m
        BY <2>3
      <4> HIDE DEF x
      <4> QED BY <1>0, <1>5, <4>1, <4>2
    <3>2. y = [i \in 1 .. m |-> IF i = far THEN x[k] ELSE z[i]]
      <4>1. \A i \in 1 .. m : i \in 1 .. k
        OBVIOUS
      <4> QED BY <1>0, <4>1
    <3>3. Total(y) = Total(z) - z[far] + x[k]
      <4> HIDE DEF x, y, z, m
      <4> QED BY <1>0, <3>1, <3>2, OneReplaced
    <3>4. z[far] = t[h[far]] /\ z[far] \in Int
      BY <1>5, <3>1
    <3>5. x[k] \in Int /\ Total(z) \in Int /\ z[far] \in Int
      BY <2>1, <3>1, <3>4
    <3> HIDE DEF x, y, z, m
    <3>6. Total(x) = Total(y) + z[far] /\ Total(y) \in Int
      BY <2>1, <3>3, <3>5
    <3> QED BY <3>4, <3>6
  <2> QED BY <2>2, <2>3
<1>7. Total(first(k)) = Total(first(m)) + t[k] /\ Total(first(m)) \in Int
  <2>1. first(k) \in [1 .. k -> Int]
    OBVIOUS
  <2>2. [i \in 1 .. (k - 1) |-> first(k)[i]] = first(m) /\ first(k)[k] = t[k]
    OBVIOUS
  <2>3. /\ Total(first(k)) = Total([i \in 1 .. (k - 1) |-> first(k)[i]]) + first(k)[k]
        /\ Total([i \in 1 .. (k - 1) |-> first(k)[i]]) \in Int
    <3> HIDE DEF first
    <3> QED BY <1>0, <2>1, LastOne
  <2> HIDE DEF first
  <2> QED BY <2>2, <2>3
<1>8. t[k] <= t[h[far]] /\ t[k] \in Nat /\ t[h[far]] \in Nat
  <2>1. h[far] \in 1 .. n
    BY <1>1
  <2>2. k = h[far] \/ k < h[far]
    BY <1>2, <2>1
  <2>3. t[k] \in Nat /\ t[h[far]] \in Nat
    BY <2>1
  <2> QED BY <2>1, <2>2, <2>3 DEF Rising
<1> HIDE DEF first, x, y, m
<1>9. Total(first(k)) <= Total(x)
  <2>1. t[k] \in Int /\ t[h[far]] \in Int
    BY <1>8
  <2>2. Total(first(m)) \in Int /\ Total(y) \in Int /\ Total(first(m)) <= Total(y)
    BY <1>4, <1>6, <1>7
  <2>3. \A a, b, u, v \in Int : a <= b /\ u <= v => a + u <= b + v
    OBVIOUS
  <2>4. Total(first(m)) + t[k] <= Total(y) + t[h[far]]
    BY <1>8, <2>1, <2>2, <2>3
  <2> QED BY <1>6, <1>7, <2>4
<1> QED BY <1>9 DEF first, x

LEMMA CheapestFirst ==
  ASSUME NEW n \in Nat, NEW t \in [1 .. n -> Nat], Rising(t, n),
         NEW k \in 0 .. n
  PROVE  FirstAreLeast(t, n, k)
<1> DEFINE S == {m \in 0 .. n : FirstAreLeast(t, n, m)}
<1>1. 0 \in S
  <2>1. 1 .. 0 = {}
    OBVIOUS
  <2>2. \A h : [i \in 1 .. 0 |-> t[i]] = [i \in 1 .. 0 |-> t[h[i]]]
    BY <2>1
  <2>3. Total([i \in 1 .. 0 |-> t[i]]) \in Int
    <3>1. [i \in 1 .. 0 |-> t[i]] \in [1 .. 0 -> Int] /\ 0 \in Nat
      BY <2>1
    <3>2. [i \in 1 .. 0 |-> t[i]] \in Seq(Int)
      BY <3>1, RunIsSeq
    <3> QED BY <3>2, TotalInt
  <2>4. ASSUME NEW h PROVE Total([i \in 1 .. 0 |-> t[i]]) <= Total([i \in 1 .. 0 |-> t[h[i]]])
    <3>1. Total([i \in 1 .. 0 |-> t[h[i]]]) = Total([i \in 1 .. 0 |-> t[i]])
      BY <2>2
    <3> QED BY <2>3, <3>1
  <2> QED BY <2>4 DEF FirstAreLeast
<1>2. ASSUME NEW m \in 1 .. n, m - 1 \in S PROVE m \in S
  BY <1>2, OneMoreLeast
<1>3. \A m \in 0 .. n : m \in S
  <2> HIDE DEF S
  <2> QED BY <1>1, <1>2, UpTo
<1> QED BY <1>3

(* occupancy-pricing.ts: what the heads beyond the included two are charged is what
   some of the party would be charged as extra ones, as many as there are, and no
   choice of as many comes to less.                                           *)
THEOREM ExtraPersonsAreTheCheapestAlways ==
  ASSUME NEW party \in PartyRows, NEW rate \in Nat
  PROVE  LET n == Heads(party)
             beyond == IF n > IncludedOccupancy THEN n - IncludedOccupancy ELSE 0
             cost(g) == Total([i \in 1 .. beyond |-> HeadCharges(party, rate)[g[i]]])
         IN  /\ \E g \in Injection(1 .. beyond, 1 .. n) : ExtraPersons(party, rate) = cost(g)
             /\ \A g \in Injection(1 .. beyond, 1 .. n) : ExtraPersons(party, rate) <= cost(g)
<1> DEFINE n == Heads(party)
           beyond == IF n > IncludedOccupancy THEN n - IncludedOccupancy ELSE 0
           c == HeadCharges(party, rate)
           t == Ascending(c)
           cost(g) == Total([i \in 1 .. beyond |-> c[g[i]]])
           first == [i \in 1 .. beyond |-> t[i]]
<1>1. n \in Nat /\ c \in [1 .. n -> Nat]
  BY HeadChargesTyped
<1>2. beyond \in 0 .. n /\ n - IncludedOccupancy \in Int /\ n - IncludedOccupancy <= n
  BY <1>1 DEF IncludedOccupancy
<1>3. ExtraPersons(party, rate) = Total(SubSeq(t, 1, n - IncludedOccupancy))
  BY DEF ExtraPersons, HeadCharges
<1> HIDE DEF n, c
<1>4. /\ t \in [1 .. n -> Nat] /\ \A i, j \in 1 .. n : i < j => t[i] <= t[j]
      /\ \E p \in Bijection(1 .. n, 1 .. n) : \A i \in 1 .. n : t[i] = c[p[i]]
  BY <1>1, AscendingIs
<1> HIDE DEF t
<1>5. SubSeq(t, 1, n - IncludedOccupancy) = first
  <2> DEFINE b == n - IncludedOccupancy
             m == IF 0 < b THEN b ELSE 0
  <2>1. t \in [1 .. n -> Int]
    BY <1>4
  <2>2. /\ m \in 0 .. n /\ SubSeq(t, 1, b) \in [1 .. m -> Int]
        /\ \A i \in 1 .. m : SubSeq(t, 1, b)[i] = t[i]
    <3>1. b \in Int /\ b <= n
      BY <1>2
    <3> HIDE DEF b
    <3> QED BY <1>1, <2>1, <3>1, FirstOf
  <2>3. m = beyond
    BY <1>1 DEF IncludedOccupancy
  <2> HIDE DEF b, m, beyond
  <2>4. SubSeq(t, 1, b) = [i \in 1 .. m |-> t[i]]
    BY <2>2
  <2> QED BY <2>3, <2>4 DEF b
<1> HIDE DEF beyond
<1>6. ExtraPersons(party, rate) = Total(first)
  BY <1>3, <1>5
<1>7. PICK p \in Bijection(1 .. n, 1 .. n) : \A i \in 1 .. n : t[i] = c[p[i]]
  BY <1>4
<1>8. /\ p \in [1 .. n -> 1 .. n] /\ \A i, j \in 1 .. n : p[i] = p[j] => i = j
      /\ \A k \in 1 .. n : \E i \in 1 .. n : p[i] = k
  BY DEF Bijection, Injection, Surjection, IsInjective
<1>9. \A i \in 1 .. beyond : i \in 1 .. n
  BY <1>1, <1>2
<1>10. \E g \in Injection(1 .. beyond, 1 .. n) : Total(first) = cost(g)
  <2> DEFINE g == [i \in 1 .. beyond |-> p[i]]
  <2>1. g \in Injection(1 .. beyond, 1 .. n)
    BY <1>8, <1>9 DEF Injection, IsInjective
  <2>2. \A i \in 1 .. beyond : c[g[i]] = t[i]
    BY <1>7, <1>9
  <2>3. [i \in 1 .. beyond |-> c[g[i]]] = first
    BY <2>2
  <2> HIDE DEF g, first
  <2> QED BY <2>1, <2>3
<1>11. ASSUME NEW g \in Injection(1 .. beyond, 1 .. n) PROVE Total(first) <= cost(g)
  <2>1. g \in [1 .. beyond -> 1 .. n] /\ \A i, j \in 1 .. beyond : g[i] = g[j] => i = j
    BY DEF Injection, IsInjective
  <2> DEFINE back == [k \in 1 .. n |-> CHOOSE i \in 1 .. n : p[i] = k]
             h == [i \in 1 .. beyond |-> back[g[i]]]
  <2>2. \A k \in 1 .. n : back[k] \in 1 .. n /\ p[back[k]] = k
    BY <1>8
  <2> HIDE DEF back
  <2>3. \A i \in 1 .. beyond : h[i] \in 1 .. n /\ p[h[i]] = g[i]
    BY <2>1, <2>2
  <2>4. h \in [1 .. beyond -> 1 .. n]
    BY <2>1, <2>2
  <2>5. h \in Injection(1 .. beyond, 1 .. n)
    <3> HIDE DEF h
    <3>1. \A i, j \in 1 .. beyond : h[i] = h[j] => i = j
      BY <2>1, <2>3
    <3> QED BY <2>4, <3>1 DEF Injection, IsInjective
  <2>6. \A i \in 1 .. beyond : t[h[i]] = c[g[i]]
    <3> HIDE DEF h
    <3> QED BY <1>7, <2>3
  <2>7. [i \in 1 .. beyond |-> t[h[i]]] = [i \in 1 .. beyond |-> c[g[i]]]
    BY <2>6
  <2>8. FirstAreLeast(t, n, beyond)
    BY <1>1, <1>2, <1>4, CheapestFirst DEF Rising
  <2> HIDE DEF h
  <2>9. Total(first) <= Total([i \in 1 .. beyond |-> t[h[i]]])
    BY <2>5, <2>8 DEF FirstAreLeast
  <2> QED BY <2>7, <2>9
<1> HIDE DEF first, cost
<1>12. /\ \E g \in Injection(1 .. beyond, 1 .. n) : ExtraPersons(party, rate) = cost(g)
       /\ \A g \in Injection(1 .. beyond, 1 .. n) : ExtraPersons(party, rate) <= cost(g)
  BY <1>6, <1>10, <1>11
<1> QED BY <1>12 DEF cost, beyond, n, c

-----------------------------------------------------------------------------
(* What a sale leaves over. *)

LEMMA TruncatedIs ==
  ASSUME NEW a \in Nat, NEW b \in Nat \ {0}
  PROVE  LET q == Truncated(a, b) IN q \in Nat /\ q * b <= a /\ a < q * b + b
<1>1. Truncated(a, b) = a \div b /\ a \div b \in Nat
  BY DEF Truncated
<1>2. (a \div b) * b <= a /\ a < (a \div b) * b + b
  BY SMT
<1> QED BY <1>1, <1>2

LEMMA TimesKeeps ==
  ASSUME NEW x \in Int, NEW y \in Int, x <= y, NEW c \in Nat
  PROVE  x * c <= y * c /\ x * c \in Int /\ y * c \in Int
<1>1. y - x \in Nat /\ (y - x) * c \in Nat
  BY TimesNat
<1>2. (y - x) * c + x * c = y * c /\ x * c \in Int /\ y * c \in Int
  BY TimesLess, MinusTimes
<1> QED BY <1>1, <1>2

LEMMA FactorDropped ==
  ASSUME NEW x \in Int, NEW y \in Int, NEW c \in Nat \ {0}
  PROVE  (x * c <= y * c => x <= y) /\ (x * c < y * c => x < y)
<1>1. ASSUME y < x PROVE y * c < x * c
  <2>1. x - y \in Nat \ {0} /\ (x - y) * c + y * c = x * c /\ x * c \in Int /\ y * c \in Int
    BY <1>1, TimesLess, MinusTimes
  <2>2. \A u, v \in Nat \ {0} : u * v \in Nat \ {0}
    OBVIOUS
  <2>3. (x - y) * c \in Nat \ {0}
    BY <2>1, <2>2
  <2> QED BY <2>1, <2>3
<1>2. x * c \in Int /\ y * c \in Int
  BY MinusTimes
<1>3. x * c <= y * c => x <= y
  BY <1>1, <1>2
<1>4. x * c < y * c => x < y
  <2>1. x = y => x * c = y * c
    OBVIOUS
  <2> QED BY <1>1, <1>2, <2>1
<1> QED BY <1>3, <1>4

LEMMA Associates == \A x, y, z \in Int : (x * y) * z = x * (y * z) /\ (x * y) * z = (x * z) * y
OBVIOUS

LEMMA Distributes == \A x, y, z \in Int : (x + y) * z = x * z + y * z /\ z * (x + y) = z * x + z * y
OBVIOUS

(* An amount and what is levied on it, at a rate. *)
LEMMA Levied ==
  ASSUME NEW x \in Nat, NEW rate \in 0 .. BasisPoints
  PROVE  LET q == Truncated(x * rate, BasisPoints)
         IN  /\ q \in Nat
             /\ q * BasisPoints <= x * rate /\ x * rate < q * BasisPoints + BasisPoints
             /\ (x + q) * BasisPoints <= x * (BasisPoints + rate)
             /\ x * (BasisPoints + rate) < (x + q) * BasisPoints + BasisPoints
<1> DEFINE B == BasisPoints
           q == Truncated(x * rate, B)
<1>1. B \in Nat \ {0} /\ rate \in Nat /\ x * rate \in Nat
  <2>1. B \in Nat \ {0} /\ rate \in Nat
    BY BasisPointsAssumption
  <2> QED BY <2>1, TimesNat
<1>2. q \in Nat /\ q * B <= x * rate /\ x * rate < q * B + B
  BY <1>1, TruncatedIs
<1> HIDE DEF q, B
<1>3. (x + q) * B = x * B + q * B /\ x * (B + rate) = x * B + x * rate
  BY <1>1, <1>2, Distributes
<1>4. x * B \in Nat /\ q * B \in Nat
  BY <1>1, <1>2, TimesNat
<1>5. (x + q) * B <= x * (B + rate) /\ x * (B + rate) < (x + q) * B + B
  BY <1>1, <1>2, <1>3, <1>4
<1> QED BY <1>2, <1>5 DEF q, B

(* Tax on the service charge too. *)
LEMMA NestedLevies ==
  ASSUME NEW gross \in Nat, NEW s \in 0 .. BasisPoints, NEW v \in 0 .. BasisPoints
  PROVE  LET B       == BasisPoints
             base    == Truncated(gross * B * B, (B + s) * (B + v))
             service == Truncated(base * s, B)
             vat     == Truncated((base + service) * v, B)
         IN  /\ base \in Nat /\ service \in Nat /\ vat \in Nat
             /\ gross - base - service - vat \in 0 .. 6
<1> DEFINE B == BasisPoints
           S == B + s
           V == B + v
           base == Truncated(gross * B * B, S * V)
           service == Truncated(base * s, B)
           taxed == base + service
           vat == Truncated(taxed * v, B)
           total == taxed + vat
<1>1. /\ B \in Nat \ {0} /\ S \in Nat \ {0} /\ V \in Nat \ {0} /\ S <= B + B /\ V <= B + B
      /\ s \in 0 .. B /\ v \in 0 .. B
  BY BasisPointsAssumption
<1>2. /\ B * B \in Nat \ {0} /\ S * V \in Nat \ {0} /\ gross * B * B = gross * (B * B)
      /\ gross * B * B \in Nat
  <2>1. \A x, y \in Nat \ {0} : x * y \in Nat \ {0}
    OBVIOUS
  <2>2. B * B \in Nat \ {0} /\ S * V \in Nat \ {0}
    <3> HIDE DEF B, S, V
    <3> QED BY <1>1, <2>1
  <2>3. gross * B * B = gross * (B * B)
    <3> HIDE DEF B
    <3> QED BY <1>1, Associates
  <2>4. gross * (B * B) \in Nat
    BY <2>2, TimesNat
  <2> QED BY <2>2, <2>3, <2>4
<1> HIDE DEF S, V
<1>3. /\ base \in Nat /\ base * (S * V) <= gross * (B * B)
      /\ gross * (B * B) < base * (S * V) + S * V
  BY <1>2, TruncatedIs
<1> HIDE DEF base
<1>4. service \in Nat /\ taxed * B <= base * S /\ base * S < taxed * B + B
  BY <1>1, <1>3, Levied DEF S
<1> HIDE DEF service
<1>5. taxed \in Nat
  BY <1>3, <1>4
<1> HIDE DEF taxed
<1>6. vat \in Nat /\ total * B <= taxed * V /\ taxed * V < total * B + B
  BY <1>1, <1>5, Levied DEF V
<1> HIDE DEF vat
<1>7. total \in Nat
  BY <1>5, <1>6
<1> HIDE DEF total, B
<1> DEFINE goal == total * (B * B)
           given == gross * (B * B)
<1>8. goal \in Nat /\ given \in Nat
  BY <1>2, <1>7, TimesNat
<1>9. /\ (total * B) * B = goal
      /\ (taxed * V) * B = (taxed * B) * V /\ (base * S) * V = base * (S * V)
  BY <1>1, <1>3, <1>5, <1>7, Associates
<1>10. /\ total * B \in Int /\ taxed * V \in Int /\ taxed * B \in Int /\ base * S \in Int
       /\ B \in Int /\ B \in Nat /\ V \in Nat
  BY <1>1, <1>3, <1>5, <1>7, MinusTimes
<1>11. (total * B) * B <= (taxed * V) * B
  BY <1>6, <1>10, TimesKeeps
<1>12. (taxed * B) * V <= (base * S) * V
  BY <1>4, <1>10, TimesKeeps
<1>13. (taxed * V) * B <= (total * B + B) * B /\ (total * B + B) * B = goal + B * B
  <2>1. taxed * V <= total * B + B /\ total * B + B \in Int
    BY <1>6, <1>10
  <2>2. (taxed * V) * B <= (total * B + B) * B
    BY <1>10, <2>1, TimesKeeps
  <2>3. (total * B + B) * B = (total * B) * B + B * B
    BY <1>10, Distributes
  <2> QED BY <1>9, <2>2, <2>3
<1>14. (base * S) * V <= (taxed * B + B) * V /\ (taxed * B + B) * V = (taxed * B) * V + B * V
  <2>1. base * S <= taxed * B + B /\ taxed * B + B \in Int
    BY <1>4, <1>10
  <2>2. (base * S) * V <= (taxed * B + B) * V
    BY <1>10, <2>1, TimesKeeps
  <2> QED BY <1>10, <2>2, Distributes
<1>15. B * V <= 2 * (B * B) /\ S * V <= 4 * (B * B) /\ B * V \in Int /\ S * V \in Int
  <2>1. V * B <= (B + B) * B /\ (B + B) * B = B * B + B * B
    BY <1>1, <1>10, TimesKeeps, Distributes
  <2>2. S * V <= (B + B) * V /\ (B + B) * V = B * V + B * V
    <3>1. S \in Int /\ B + B \in Int
      BY <1>1, <1>10
    <3> QED BY <1>1, <1>10, <3>1, TimesKeeps, Distributes
  <2>3. B * V = V * B /\ B * V \in Int /\ B * B \in Int /\ S * V \in Int
    BY <1>1, <1>10
  <2> QED BY <2>1, <2>2, <2>3
<1> DEFINE a == (taxed * V) * B
           b == (base * S) * V
           c == B * V
           d == S * V
           e == B * B
<1>16. /\ goal <= a /\ a <= b /\ b <= given /\ given < b + d
       /\ a <= goal + e /\ b <= a + c /\ c <= 2 * e /\ d <= 4 * e
  BY <1>3, <1>9, <1>11, <1>12, <1>13, <1>14, <1>15
<1>17. a \in Int /\ b \in Int /\ c \in Int /\ d \in Int /\ e \in Nat \ {0}
  BY <1>2, <1>10, <1>15, MinusTimes
<1>18. goal <= given /\ given < goal + 7 * e
  <2> HIDE DEF a, b, c, d, e, goal, given
  <2> QED BY <1>8, <1>16, <1>17
<1>19. goal + 7 * e = (total + 7) * e
  <2>1. e \in Int /\ total \in Int /\ 7 \in Int /\ goal = total * e
    BY <1>7, <1>17
  <2> HIDE DEF e, goal
  <2> QED BY <2>1, Distributes
<1>20. total <= gross /\ gross < total + 7
  <2>1. given = gross * e /\ goal = total * e
    OBVIOUS
  <2>2. total * e <= gross * e /\ gross * e < (total + 7) * e
    BY <1>18, <1>19, <2>1
  <2>3. gross \in Int /\ total \in Int /\ total + 7 \in Int
    BY <1>7
  <2> HIDE DEF e, goal, given
  <2> QED BY <1>17, <2>2, <2>3, FactorDropped
<1>21. gross - base - service - vat = gross - total
  BY <1>3, <1>4, <1>5, <1>6 DEF total, taxed
<1>22. gross - base - service - vat \in 0 .. 6
  BY <1>7, <1>20, <1>21
<1> QED BY <1>3, <1>4, <1>6, <1>22 DEF vat, taxed, service, base, S, V, B

(* Tax on the sale alone. *)
LEMMA FlatLevies ==
  ASSUME NEW gross \in Nat, NEW s \in 0 .. BasisPoints, NEW v \in 0 .. BasisPoints
  PROVE  LET B       == BasisPoints
             base    == Truncated(gross * B, B + s + v)
             service == Truncated(base * s, B)
             vat     == Truncated(base * v, B)
         IN  /\ base \in Nat /\ service \in Nat /\ vat \in Nat
             /\ gross - base - service - vat \in 0 .. 6
<1> DEFINE B == BasisPoints
           W == B + s + v
           base == Truncated(gross * B, W)
           service == Truncated(base * s, B)
           vat == Truncated(base * v, B)
           total == base + service + vat
<1>1. /\ B \in Nat \ {0} /\ W \in Nat \ {0} /\ W <= 3 * B
      /\ s \in 0 .. B /\ v \in 0 .. B /\ gross * B \in Nat
  <2>1. B \in Nat \ {0} /\ W \in Nat \ {0} /\ W <= 3 * B /\ s \in 0 .. B /\ v \in 0 .. B
    BY BasisPointsAssumption
  <2> QED BY <2>1, TimesNat
<1>2. base \in Nat /\ base * W <= gross * B /\ gross * B < base * W + W
  <2> HIDE DEF W, B
  <2> QED BY <1>1, TruncatedIs
<1> HIDE DEF base
<1>3. service \in Nat /\ service * B <= base * s /\ base * s < service * B + B
  BY <1>1, <1>2, Levied
<1>4. vat \in Nat /\ vat * B <= base * v /\ base * v < vat * B + B
  BY <1>1, <1>2, Levied
<1> HIDE DEF service, vat
<1>5. total \in Nat /\ total * B = base * B + service * B + vat * B
  <2>1. base \in Int /\ service \in Int /\ vat \in Int /\ base + service \in Int /\ B \in Int
    BY <1>1, <1>2, <1>3, <1>4
  <2>2. total * B = (base + service) * B + vat * B
    BY <2>1, Distributes
  <2>3. (base + service) * B = base * B + service * B
    BY <2>1, Distributes
  <2> QED BY <1>2, <1>3, <1>4, <2>2, <2>3
<1>6. base * W = base * B + base * s + base * v
  <2>1. base \in Int /\ s \in Int /\ v \in Int /\ B \in Int /\ B + s \in Int
    BY <1>1, <1>2
  <2>2. base * W = base * (B + s) + base * v
    BY <2>1, Distributes
  <2>3. base * (B + s) = base * B + base * s
    BY <2>1, Distributes
  <2> QED BY <2>2, <2>3
<1>7. /\ base * B \in Int /\ base * s \in Int /\ base * v \in Int
      /\ service * B \in Int /\ vat * B \in Int
  BY <1>1, <1>2, <1>3, <1>4, MinusTimes
<1> DEFINE goal == total * B
           given == gross * B
           whole == base * W
<1>8. goal <= whole /\ whole < goal + 2 * B /\ whole <= given /\ given < whole + W
  BY <1>1, <1>2, <1>3, <1>4, <1>5, <1>6, <1>7
<1>9. goal \in Int /\ given \in Int /\ whole \in Int
  BY <1>1, <1>5, <1>6, <1>7
<1> HIDE DEF total
<1>10. goal <= given /\ given < goal + 7 * B
  <2> HIDE DEF goal, given, whole, W
  <2> QED BY <1>1, <1>8, <1>9
<1>11. total <= gross /\ gross < total + 7
  <2>1. (total + 7) * B = goal + 7 * B
    <3>1. B \in Int /\ total \in Int /\ 7 \in Int
      BY <1>1, <1>5
    <3> QED BY <3>1, Distributes
  <2>2. total * B <= gross * B /\ gross * B < (total + 7) * B
    BY <1>10, <2>1
  <2>3. gross \in Int /\ total \in Int /\ total + 7 \in Int
    BY <1>5
  <2> HIDE DEF goal, given, B
  <2> QED BY <1>1, <2>2, <2>3, FactorDropped
<1>12. gross - base - service - vat \in 0 .. 6
  <2>1. gross - base - service - vat = gross - total
    BY <1>2, <1>3, <1>4 DEF total
  <2> QED BY <1>5, <1>11, <2>1
<1> QED BY <1>2, <1>3, <1>4, <1>12 DEF vat, service, base, W, B

(* tax-decomposition.ts: of a price that is not negative no line is, and what the
   divisions leave over, which the net takes, is six dong at the worst, whatever
   the rates and however dear the sale.                                       *)
THEOREM TheNetTakesSixAtTheWorst ==
  ASSUME NEW gross \in Nat, NEW rules \in TaxRules
  PROVE  LET d == Decompose(gross, rules)
         IN  /\ d.net \in Nat /\ d.service \in Nat /\ d.vat \in Nat
             /\ NetBase(gross, rules) \in Nat
             /\ d.net - NetBase(gross, rules) \in 0 .. 6
<1> DEFINE B == BasisPoints
           base == NetBase(gross, rules)
           service == Truncated(base * rules.service, B)
           vat == Truncated((IF rules.vatOnService THEN base + service ELSE base) * rules.vat, B)
<1>1. rules.service \in 0 .. B /\ rules.vat \in 0 .. B /\ rules.vatOnService \in BOOLEAN
  BY DEF TaxRules
<1>2. /\ base \in Nat /\ service \in Nat /\ vat \in Nat
      /\ gross - base - service - vat \in 0 .. 6
  <2>1. CASE rules.vatOnService
    BY <1>1, <2>1, NestedLevies DEF NetBase
  <2>2. CASE ~rules.vatOnService
    BY <1>1, <2>2, FlatLevies DEF NetBase
  <2> QED BY <2>1, <2>2
<1>3. Decompose(gross, rules) =
        [net |-> gross - service - vat, service |-> service, vat |-> vat]
  BY DEF Decompose
<1> HIDE DEF base, service, vat
<1>4. gross - service - vat \in Nat /\ (gross - service - vat) - base \in 0 .. 6
  BY <1>2
<1> QED BY <1>2, <1>3, <1>4 DEF base

-----------------------------------------------------------------------------
(* The money on an account: a second invariant, over the first. *)

(* The nights of a stay up to a date, and the first of them. *)
LEMMA NightsOfStay ==
  ASSUME NEW s \in Stays, NEW to \in Arrival[s] .. LastDay
  PROVE  /\ NightsOf(s, to) \in Seq(Nat) /\ Len(NightsOf(s, to)) = to - Arrival[s]
         /\ \A k \in 0 .. (to - Arrival[s]) :
              SubSeq(NightsOf(s, to), 1, k) = NightsOf(s, Arrival[s] + k)
<1> DEFINE n == to - Arrival[s]
           nights == NightsOf(s, to)
<1>1. /\ Arrival[s] \in 1 .. LastDay /\ LastDay \in Nat /\ n \in Nat
      /\ \A d \in 1 .. LastDay : Calendar[d] \in Nat
  BY DatesAssumption, MoneyAssumption
<1>2. ASSUME NEW k \in 0 .. n
      PROVE  /\ NightsOf(s, Arrival[s] + k) \in Seq(Nat)
             /\ Len(NightsOf(s, Arrival[s] + k)) = k
             /\ \A i \in 1 .. k : NightsOf(s, Arrival[s] + k)[i] = Calendar[Arrival[s] + i - 1]
  <2>1. (Arrival[s] + k) - Arrival[s] = k /\ k \in Nat
    BY <1>1
  <2>2. NightsOf(s, Arrival[s] + k) = [i \in 1 .. k |-> Calendar[Arrival[s] + i - 1]]
    BY <2>1 DEF NightsOf
  <2>3. \A i \in 1 .. k : Calendar[Arrival[s] + i - 1] \in Nat
    <3>1. \A i \in 1 .. k : Arrival[s] + i - 1 \in 1 .. LastDay
      BY <1>1
    <3> QED BY <1>1, <3>1
  <2>4. NightsOf(s, Arrival[s] + k) \in [1 .. k -> Nat]
    BY <2>2, <2>3
  <2> QED BY <2>1, <2>2, <2>4, RunIsSeq
<1>3. n \in 0 .. n /\ Arrival[s] + n = to
  BY <1>1
<1>4. /\ nights \in Seq(Nat) /\ Len(nights) = n
      /\ \A i \in 1 .. n : nights[i] = Calendar[Arrival[s] + i - 1]
  BY <1>2, <1>3
<1> HIDE DEF nights
<1>5. ASSUME NEW k \in 0 .. n PROVE SubSeq(nights, 1, k) = NightsOf(s, Arrival[s] + k)
  <2>1. /\ SubSeq(nights, 1, k) \in Seq(Nat) /\ Len(SubSeq(nights, 1, k)) = k
        /\ \A i \in 1 .. k : SubSeq(nights, 1, k)[i] = nights[i]
    <3>1. nights \in [1 .. n -> Nat]
      BY <1>4, SeqRuns
    <3>2. \A i \in 1 .. k : i \in 1 .. n
      BY <1>1
    <3>3. k \in 0 .. Len(nights)
      BY <1>4
    <3>4. \A i \in 1 .. k : nights[i] \in Nat
      BY <3>1, <3>2
    <3>5. SubSeq(nights, 1, k) \in Seq(Nat) /\ Len(SubSeq(nights, 1, k)) = k
      BY <1>4, <3>3, FirstNights
    <3>6. \A i \in 1 .. k : SubSeq(nights, 1, k)[i] = nights[i]
      BY <1>1, <1>4, <3>4, SubSeqProperties
    <3> QED BY <3>5, <3>6
  <2>2. \A i \in 1 .. k : i \in 1 .. n
    BY <1>1
  <2> QED BY <1>2, <1>4, <2>1, <2>2, SeqEqual
<1> QED BY <1>4, <1>5 DEF nights

LEMMA QuotesTyped ==
  ASSUME NEW s \in Stays
  PROVE  Quote[s] \in QuoteRows
<1> DEFINE room == PlanAdjusted(Total(NightsOf(s, Departure[s])), Plan[s].percent)
           sold == [checkIn |-> Arrival[s], checkOut |-> Departure[s], room |-> room]
           won == BestPromotion(Candidates, sold)
<1>1. /\ Arrival[s] \in Nat /\ Departure[s] \in Arrival[s] .. LastDay /\ Departure[s] \in Nat
      /\ Plan[s] \in [percent : -100 .. 100, breakfast : Nat, extra : Nat \ {0}, party : PartyRows]
      /\ Candidates \in Seq(CandidateRows)
  BY DatesAssumption, PlanAssumption
<1>2. room \in Nat
  <2>1. Total(NightsOf(s, Departure[s])) \in Nat
    <3>1. NightsOf(s, Departure[s]) \in Seq(Nat)
      BY <1>1, NightsOfStay
    <3> QED BY <3>1, TotalNat
  <2>2. Plan[s].percent \in -100 .. 100
    BY <1>1
  <2>3. \A x \in Nat : x <= x
    OBVIOUS
  <2> QED BY <2>1, <2>2, <2>3, PlansRise
<1> HIDE DEF room
<1>3. sold \in StayRows
  BY <1>1, <1>2 DEF StayRows
<1> HIDE DEF sold
<1>4. won \in PromotionRows \cup {NoPromotion}
  <2>1. won = NoPromotion \/ \E k \in DOMAIN Candidates : won = Frozen(Candidates[k])
    BY <1>1, <1>3, TheDeepestPromotionWinsAlways DEF Frozen
  <2>2. ASSUME NEW k \in DOMAIN Candidates PROVE Frozen(Candidates[k]) \in PromotionRows
    <3>1. Candidates[k] \in CandidateRows
      BY <1>1
    <3>2. 0 \in Nat
      OBVIOUS
    <3> QED BY <3>1, <3>2, CandidatesReduce
  <2> QED BY <2>1, <2>2
<1>5. Quote[s] = [percent |-> Plan[s].percent, breakfast |-> Plan[s].breakfast,
                  extra |-> Plan[s].extra, party |-> Plan[s].party, promotion |-> won]
  BY DEF Quote, won, sold, room
<1> HIDE DEF won
<1> QED BY <1>1, <1>4, <1>5 DEF QuoteRows

(* A night costs no less than nothing. *)
LEMMA NightlyTyped ==
  ASSUME NEW s \in Stays, NEW d \in Arrival[s] .. (LastDay - 1)
  PROVE  Nightly[s][d] \in Nat
<1> DEFINE nights == NightsOf(s, d + 1)
           n == Len(nights)
           night == [k \in DOMAIN nights |-> NightPrice(Quote[s], SubSeq(nights, 1, k))]
<1>1. /\ Arrival[s] \in Nat /\ LastDay \in Nat /\ d + 1 \in Arrival[s] .. LastDay
      /\ d \in Arrival[s] .. LastDay /\ (d + 1) - Arrival[s] \in Nat \ {0}
  BY DatesAssumption
<1>2. nights \in Seq(Nat) /\ n = (d + 1) - Arrival[s]
  BY <1>1, NightsOfStay
<1>3. Nightly[s][d] = NightPrice(Quote[s], nights)
  BY <1>1 DEF Nightly
<1> HIDE DEF nights
<1>4. night \in Seq(Nat)
  BY <1>2, QuotesTyped, NightsSumToTheQuoteAlways
<1>5. n \in DOMAIN nights /\ SubSeq(nights, 1, n) = nights
  BY <1>1, <1>2, SubSeqFull
<1>6. night[n] = NightPrice(Quote[s], nights) /\ n \in DOMAIN night
  BY <1>5
<1> HIDE DEF night
<1>7. night[n] \in Nat
  BY <1>4, <1>6
<1> QED BY <1>3, <1>6, <1>7

-----------------------------------------------------------------------------

(* What the schema demands of a line. *)
SignMatchesType(line) ==
  /\ line.type = "PAYMENT" => line.amount <= 0
  /\ line.type \notin {"PAYMENT", "REVERSAL"} => line.amount >= 0

(* A night's charge and the two lines levied on it, next to each other. *)
WholeNight(s, l, i) ==
  /\ l[i].type = "ROOM_CHARGE" /\ l[i].on \in Arrival[s] .. (LastDay - 1)
  /\ i + 2 \in DOMAIN l /\ l[i + 1].of = i /\ l[i + 2].of = i
  /\ l[i].amount + l[i + 1].amount + l[i + 2].amount = Nightly[s][l[i].on]

Affordable(s, line, to) ==
  line.type = "POLICY_CHARGE" => line.amount <= Total(NightsOf(s, to))

(* An account, of a stay whose nights are priced up to a date. *)
Billed(s, l, to) ==
  /\ l \in Seq(Line)
  /\ \A i \in DOMAIN l : SignMatchesType(l[i]) /\ Affordable(s, l[i], to)
  /\ \A i \in DOMAIN l : l[i].swept => WholeNight(s, l, i)

LEMMA BilledAppended ==
  ASSUME NEW s \in Stays, NEW to, NEW l, NEW new, Billed(s, l, to), new \in Seq(Line),
         \A k \in DOMAIN new : SignMatchesType(new[k]) /\ Affordable(s, new[k], to),
         \A k \in DOMAIN new : new[k].swept => WholeNight(s, l \o new, Len(l) + k)
  PROVE  Billed(s, l \o new, to)
<1> DEFINE n == Len(l)
           both == l \o new
<1>1. /\ n \in Nat /\ Len(new) \in Nat /\ DOMAIN l = 1 .. n /\ DOMAIN new = 1 .. Len(new)
      /\ DOMAIN both = 1 .. (n + Len(new)) /\ both \in Seq(Line)
      /\ \A i \in 1 .. n : both[i] = l[i]
      /\ \A k \in 1 .. Len(new) : both[n + k] = new[k]
  <2>1. l \in Seq(Line)
    BY DEF Billed
  <2>2. both \in Seq(Line)
    BY <2>1, ConcatProperties
  <2>3. Ledger(l) /\ Ledger(new)
    BY <2>1 DEF Ledger, Line, LineOver
  <2> QED BY <2>2, <2>3, Appended
<1> HIDE DEF n, both
<1>2. ASSUME NEW i \in DOMAIN both
      PROVE  \/ i \in DOMAIN l /\ both[i] = l[i]
             \/ \E k \in DOMAIN new : i = n + k /\ both[i] = new[k]
  <2>1. CASE i <= n
    BY <1>1, <2>1
  <2>2. CASE ~(i <= n)
    <3>1. i - n \in 1 .. Len(new) /\ i = n + (i - n)
      BY <1>1, <2>2
    <3> QED BY <1>1, <3>1
  <2> QED BY <2>1, <2>2
<1>3. ASSUME NEW i \in DOMAIN both PROVE SignMatchesType(both[i]) /\ Affordable(s, both[i], to)
  BY <1>2 DEF Billed
<1>4. ASSUME NEW i \in DOMAIN both, both[i].swept PROVE WholeNight(s, both, i)
  <2>1. CASE i \in DOMAIN l /\ both[i] = l[i]
    <3>1. WholeNight(s, l, i)
      BY <1>4, <2>1 DEF Billed
    <3>2. i + 2 \in DOMAIN l /\ i + 1 \in DOMAIN l /\ i + 2 \in DOMAIN both
      BY <1>1, <2>1, <3>1 DEF WholeNight
    <3>3. both[i + 1] = l[i + 1] /\ both[i + 2] = l[i + 2]
      BY <1>1, <3>2
    <3> QED BY <2>1, <3>1, <3>2, <3>3 DEF WholeNight
  <2>2. ASSUME NEW k \in DOMAIN new, i = n + k, both[i] = new[k] PROVE WholeNight(s, both, i)
    BY <1>4, <2>2 DEF n, both
  <2> QED BY <1>2, <2>1, <2>2
<1> QED BY <1>1, <1>3, <1>4 DEF Billed, both

(* What each line of an account says, as an invariant. *)
SignsMatchTypes ==
  \A s \in Stays : \A i \in DOMAIN lines[s] : SignMatchesType(lines[s][i])

NightsPostTheirPrice ==
  \A s \in Stays : \A i \in DOMAIN lines[s] :
    lines[s][i].swept => WholeNight(s, lines[s], i)

PenaltiesAreAffordable ==
  \A s \in Stays : \A i \in DOMAIN lines[s] : Affordable(s, lines[s][i], priced[s])

Money == TypeOK /\ \A s \in Stays : Billed(s, lines[s], priced[s])

LEMMA MoneyInit == Init => Money
<1> SUFFICES ASSUME Init PROVE Money
  OBVIOUS
<1>1. TypeOK
  <2>1. \A s \in Stays : <<>> \in Seq(Line)
    BY EmptySeq
  <2>2. lines \in [Stays -> Seq(Line)] /\ \A s \in Stays : lines[s] = <<>>
    BY <2>1 DEF Init
  <2>3. 1 \in 1 .. LastDay
    BY DatesAssumption
  <2>4. \A s \in Stays : Arrival[s] < Departure[s] /\ Departure[s] <= Departure[s]
    BY DatesAssumption
  <2> QED BY <2>2, <2>3, <2>4, DatesAssumption DEF Init, TypeOK, States, Terms
<1>2. ASSUME NEW s \in Stays PROVE Billed(s, lines[s], priced[s])
  <2>1. lines[s] = <<>> /\ DOMAIN <<>> = {} /\ <<>> \in Seq(Line)
    BY EmptySeq DEF Init
  <2> QED BY <2>1 DEF Billed
<1> QED BY <1>1, <1>2 DEF Money

(* A write of typed lines, each of the sign its type has. *)
LEMMA WriteMoney ==
  ASSUME Inv, Inv', Money, NEW s \in Stays, NEW new \in Seq(Line), Write(s, new),
         \A k \in DOMAIN new : /\ SignMatchesType(new[k])
                               /\ Affordable(s, new[k], priced[s]) /\ ~new[k].swept
  PROVE  Money'
<1>1. /\ lines' = [t \in Stays |-> lines'[t]] /\ lines'[s] = lines[s] \o new
      /\ \A t \in Stays \ {s} : lines'[t] = lines[t] /\ account'[t] = account[t]
      /\ account' \in [Stays -> {"NONE", "OPEN", "CLOSED"}] /\ account'[s] = "OPEN"
      /\ UNCHANGED <<today, state, leaves, priced, terms, leaving>>
  BY Written DEF Write, stays
<1>2. \A t \in Stays : Billed(t, lines[t], priced[t])
  BY DEF Money
<1>3. Billed(s, lines[s] \o new, priced[s])
  BY <1>2, BilledAppended
<1>4. \A t \in Stays : Billed(t, lines'[t], priced'[t])
  BY <1>1, <1>2, <1>3
<1>5. lines' \in [Stays -> Seq(Line)]
  BY <1>1, <1>4 DEF Billed
<1>6. \A t \in Stays : account'[t] = "NONE" => lines'[t] = <<>>
  BY <1>1 DEF Money, TypeOK
<1>7. TypeOK'
  BY <1>1, <1>5, <1>6 DEF Money, TypeOK, Inv, Tables, Rows
<1> QED BY <1>4, <1>7 DEF Money

(* The stay's own life: no line, and no night taken back from the priced ones. *)
LEMMA PricedLonger ==
  ASSUME NEW s \in Stays, NEW to \in Arrival[s] .. LastDay, NEW till \in to .. LastDay,
         NEW l, Billed(s, l, to)
  PROVE  Billed(s, l, till)
<1> DEFINE k == to - Arrival[s]
           nights == NightsOf(s, till)
<1>1. /\ Arrival[s] \in Nat /\ LastDay \in Nat /\ till \in Arrival[s] .. LastDay
      /\ k \in 0 .. (till - Arrival[s]) /\ Arrival[s] + k = to
  BY DatesAssumption
<1>2. /\ nights \in Seq(Nat) /\ Len(nights) = till - Arrival[s]
      /\ SubSeq(nights, 1, k) = NightsOf(s, to)
  BY <1>1, NightsOfStay
<1> HIDE DEF nights, k
<1>3. k \in 0 .. Len(nights)
  BY <1>1, <1>2
<1>4. Total(NightsOf(s, to)) <= Total(nights) /\ Total(NightsOf(s, to)) \in Nat
  BY <1>2, <1>3, FirstNights
<1>5. Total(nights) \in Nat
  BY <1>2, TotalNat
<1>6. ASSUME NEW i \in DOMAIN l PROVE Affordable(s, l[i], till)
  <2>1. l[i] \in Line /\ Affordable(s, l[i], to)
    BY DEF Billed
  <2>2. l[i].amount \in Int
    BY <2>1 DEF Line
  <2> QED BY <1>4, <1>5, <2>1, <2>2 DEF Affordable, nights
<1> QED BY <1>6 DEF Billed

LEMMA LifeMoney ==
  ASSUME Inv', Money, UNCHANGED ledger,
         today' \in 1 .. LastDay, state' \in [Stays -> States],
         leaves' \in [Stays -> 1 .. LastDay], priced' \in [Stays -> 1 .. LastDay],
         \A s \in Stays : /\ Arrival[s] < leaves'[s] /\ leaves'[s] <= priced'[s]
                          /\ priced[s] <= priced'[s],
         terms' \in [Stays -> Terms], leaving' \subseteq Stays
  PROVE  Money'
<1>1. lines' = lines /\ account' = account
  BY DEF ledger
<1>2. ASSUME NEW s \in Stays PROVE Billed(s, lines'[s], priced'[s])
  <2>1. /\ Arrival[s] \in Nat /\ LastDay \in Nat
        /\ priced[s] \in 1 .. LastDay /\ leaves[s] \in 1 .. LastDay
        /\ Arrival[s] < leaves[s] /\ leaves[s] <= priced[s] /\ Billed(s, lines[s], priced[s])
    BY DatesAssumption DEF Money, TypeOK
  <2>2. priced[s] \in Arrival[s] .. LastDay /\ priced'[s] \in priced[s] .. LastDay
    BY <2>1
  <2> QED BY <1>1, <2>1, <2>2, PricedLonger
<1>3. TypeOK'
  BY <1>1 DEF Money, TypeOK, Inv, Tables, Rows
<1> QED BY <1>2, <1>3 DEF Money

(* What each operation writes. *)
SaleLines(sale, charge, n, gross) ==
  /\ sale \in Seq(Line) /\ DOMAIN sale = 1 .. 3
  /\ \A k \in DOMAIN sale : SignMatchesType(sale[k]) /\ sale[k].type # "POLICY_CHARGE"
  /\ sale[1].type = charge.type /\ sale[1].on = charge.on
  /\ sale[1].swept = charge.swept /\ ~sale[2].swept /\ ~sale[3].swept
  /\ sale[2].of = n + 1 /\ sale[3].of = n + 1
  /\ sale[1].amount + sale[2].amount + sale[3].amount = gross

LEMMA SaleBills ==
  ASSUME NEW s \in Stays, Len(lines[s]) \in Nat, NEW gross \in Nat,
         NEW charge \in LineOver({0}), charge.reverses = 0,
         charge.type \in {"ROOM_CHARGE", "SERVICE_ITEM"}
  PROVE  SaleLines(Sale(s, charge, gross), charge, Len(lines[s]), gross)
<1> DEFINE net == Decompose(gross, Rules).net
           fee == Decompose(gross, Rules).service
           vat == Decompose(gross, Rules).vat
           first == [charge EXCEPT !.amount = net]
           levied == [Posted("VAT", 0) EXCEPT !.of = Len(lines[s]) + 1]
           second == [levied EXCEPT !.type = "SERVICE_CHARGE_FEE", !.amount = fee]
           third == [levied EXCEPT !.amount = vat]
<1>1. net \in Nat /\ fee \in Nat /\ vat \in Nat /\ net + fee + vat = gross
  <2>1. Rules \in TaxRules
    BY MoneyAssumption DEF TaxRules
  <2>2. gross \in Int
    OBVIOUS
  <2> QED BY <2>1, <2>2, TheNetTakesSixAtTheWorst, LinesSumToTheGrossAlways
<1>2. Sale(s, charge, gross) = <<first, second, third>>
  BY DEF Sale
<1> HIDE DEF net, fee, vat
<1>3. /\ first \in Line /\ first.type = charge.type /\ first.on = charge.on
      /\ first.swept = charge.swept /\ first.amount = net
  BY <1>1 DEF LineOver, Line
<1>4. /\ levied \in Line /\ levied.of = Len(lines[s]) + 1 /\ levied.type = "VAT"
      /\ levied.swept = FALSE
  <2>1. /\ Posted("VAT", 0) \in Line /\ Posted("VAT", 0).type = "VAT"
        /\ Posted("VAT", 0).swept = FALSE
    BY DEF Posted, Line, Types
  <2>2. Len(lines[s]) + 1 \in Nat
    OBVIOUS
  <2> QED BY <2>1, <2>2 DEF Line
<1> HIDE DEF levied
<1>5. /\ second \in Line /\ third \in Line
      /\ second.of = Len(lines[s]) + 1 /\ third.of = Len(lines[s]) + 1
      /\ second.swept = FALSE /\ third.swept = FALSE
      /\ second.type = "SERVICE_CHARGE_FEE" /\ third.type = "VAT"
      /\ second.amount = fee /\ third.amount = vat
  <2>1. "SERVICE_CHARGE_FEE" \in Types /\ fee \in Int /\ vat \in Int
    BY <1>1 DEF Types
  <2>2. \A type \in Types, x \in Int :
          [levied EXCEPT !.type = type, !.amount = x] \in Line
    BY <1>4 DEF Line
  <2>3. \A x \in Int : [levied EXCEPT !.amount = x] \in Line
    BY <1>4 DEF Line
  <2>4. second \in Line /\ third \in Line
    BY <2>1, <2>2, <2>3
  <2>5. /\ second.of = levied.of /\ third.of = levied.of
        /\ second.swept = levied.swept /\ third.swept = levied.swept
        /\ second.type = "SERVICE_CHARGE_FEE" /\ third.type = levied.type
        /\ second.amount = fee /\ third.amount = vat
    BY <1>4 DEF Line
  <2> QED BY <1>4, <2>4, <2>5
<1> HIDE DEF first, second, third
<1>6. /\ Sale(s, charge, gross) \in Seq(Line) /\ DOMAIN Sale(s, charge, gross) = 1 .. 3
      /\ Sale(s, charge, gross)[1] = first /\ Sale(s, charge, gross)[2] = second
      /\ Sale(s, charge, gross)[3] = third
  BY <1>2, <1>3, <1>5
<1>7. ASSUME NEW k \in 1 .. 3
      PROVE  /\ SignMatchesType(Sale(s, charge, gross)[k])
             /\ Sale(s, charge, gross)[k].type # "POLICY_CHARGE"
  <2>1. k = 1 \/ k = 2 \/ k = 3
    OBVIOUS
  <2>2. SignMatchesType(first) /\ first.type # "POLICY_CHARGE"
    BY <1>1, <1>3 DEF SignMatchesType
  <2>3. SignMatchesType(second) /\ second.type # "POLICY_CHARGE"
    BY <1>1, <1>5 DEF SignMatchesType
  <2>4. SignMatchesType(third) /\ third.type # "POLICY_CHARGE"
    BY <1>1, <1>5 DEF SignMatchesType
  <2> QED BY <1>6, <2>1, <2>2, <2>3, <2>4
<1> DEFINE sale == Sale(s, charge, gross)
<1>8. /\ sale \in Seq(Line) /\ DOMAIN sale = 1 .. 3
      /\ \A k \in 1 .. 3 : SignMatchesType(sale[k]) /\ sale[k].type # "POLICY_CHARGE"
      /\ sale[1] = first /\ sale[2] = second /\ sale[3] = third
  BY <1>6, <1>7
<1> HIDE DEF sale
<1>9. SaleLines(sale, charge, Len(lines[s]), gross)
  BY <1>1, <1>3, <1>5, <1>8 DEF SaleLines
<1> QED BY <1>9 DEF sale

LEMMA PostChargeMoney ==
  ASSUME Inv, Inv', Money, NEW s \in Stays, NEW gross \in Figures, PostCharge(s, gross)
  PROVE  Money'
<1>1. PICK type \in {"ROOM_CHARGE", "SERVICE_ITEM"} : Write(s, Sale(s, Posted(type, 0), gross))
  BY DEF PostCharge
<1> DEFINE charge == Posted(type, 0)
           sale == Sale(s, charge, gross)
<1>2. /\ charge \in LineOver({0}) /\ charge.reverses = 0 /\ charge.type = type
      /\ charge.swept = FALSE
  BY DEF Posted, LineOver, Types
<1>3. Len(lines[s]) \in Nat /\ gross \in Nat
  <2>1. lines[s] \in Seq(Line)
    BY DEF Money, TypeOK
  <2> QED BY <2>1, MoneyAssumption
<1> HIDE DEF charge
<1>4. SaleLines(sale, charge, Len(lines[s]), gross)
  <2>1. charge.type \in {"ROOM_CHARGE", "SERVICE_ITEM"}
    BY <1>2
  <2> QED BY <1>2, <1>3, <2>1, SaleBills
<1> HIDE DEF sale
<1>5. ASSUME NEW k \in DOMAIN sale
      PROVE  SignMatchesType(sale[k]) /\ Affordable(s, sale[k], priced[s]) /\ ~sale[k].swept
  <2>1. k = 1 \/ k = 2 \/ k = 3
    BY <1>4 DEF SaleLines
  <2>2. ~sale[1].swept /\ ~sale[2].swept /\ ~sale[3].swept
    BY <1>2, <1>4 DEF SaleLines
  <2>3. SignMatchesType(sale[k]) /\ sale[k].type # "POLICY_CHARGE"
    BY <1>4 DEF SaleLines
  <2> QED BY <2>1, <2>2, <2>3 DEF Affordable
<1>6. sale \in Seq(Line)
  BY <1>4 DEF SaleLines
<1> QED BY <1>1, <1>5, <1>6, WriteMoney DEF sale, charge

LEMMA TakingMoney ==
  ASSUME Inv, Inv', Money, NEW s \in Stays, NEW type \in {"PAYMENT", "REFUND"}, NEW amount \in Int,
         type = "PAYMENT" => amount <= 0, type = "REFUND" => amount >= 0,
         Write(s, <<Posted(type, amount)>>)
  PROVE  Money'
<1> DEFINE line == Posted(type, amount)
           new == <<line>>
<1>1. line \in Line /\ line.type = type /\ line.amount = amount /\ line.swept = FALSE
  BY DEF Posted, Line, Types
<1> HIDE DEF line
<1>2. new \in Seq(Line) /\ DOMAIN new = {1} /\ new[1] = line
  BY <1>1
<1>3. SignMatchesType(line) /\ Affordable(s, line, priced[s])
  BY <1>1 DEF SignMatchesType, Affordable
<1> HIDE DEF new
<1>4. \A k \in DOMAIN new : /\ SignMatchesType(new[k])
                            /\ Affordable(s, new[k], priced[s]) /\ ~new[k].swept
  BY <1>1, <1>2, <1>3
<1>5. Write(s, new)
  BY DEF new, line
<1> QED BY <1>2, <1>4, <1>5, WriteMoney

LEMMA ReversePostingMoney ==
  ASSUME Inv, Inv', Money, NEW s \in Stays, NEW i \in DOMAIN lines[s], ReversePosting(s, i)
  PROVE  Money'
<1> DEFINE l == lines[s]
           undone == Undone(s, i)
           n == Cardinality(undone)
           list == SetToSeq(undone)
           new == [k \in 1 .. n |-> Reversal(s, list[k])]
<1>1. l \in Seq(Line) /\ Len(l) \in Nat /\ DOMAIN l = 1 .. Len(l)
  <2>1. l \in Seq(Line)
    BY DEF Money, TypeOK
  <2> QED BY <2>1, LenProperties
<1>2. undone \subseteq DOMAIN l
  BY DEF Undone
<1>3. n \in Nat /\ \A k \in 1 .. n : list[k] \in undone
  <2>1. IsFiniteSet(undone)
    <3>1. undone \subseteq 1 .. Len(l) /\ IsFiniteSet(1 .. Len(l))
      BY <1>1, <1>2, FS_Interval
    <3> HIDE DEF undone
    <3> QED BY <3>1, FS_Subset
  <2> HIDE DEF undone
  <2> QED BY <2>1, Listed
<1>4. Write(s, new)
  BY DEF ReversePosting
<1>5. ASSUME NEW j \in DOMAIN l
      PROVE  /\ Reversal(s, j) \in Line /\ Reversal(s, j).type = "REVERSAL"
             /\ Reversal(s, j).swept = FALSE
  <2>1. l[j] \in Line /\ j \in Nat
    BY <1>1
  <2>2. -l[j].amount \in Int
    BY <2>1 DEF Line
  <2>3. /\ Posted("REVERSAL", -l[j].amount) \in Line
        /\ Posted("REVERSAL", -l[j].amount).type = "REVERSAL"
        /\ Posted("REVERSAL", -l[j].amount).swept = FALSE
    BY <2>2 DEF Posted, Line, Types
  <2>4. Reversal(s, j) = [Posted("REVERSAL", -l[j].amount) EXCEPT !.reverses = j]
    BY DEF Reversal
  <2> HIDE DEF l
  <2> QED BY <2>1, <2>3, <2>4 DEF Line
<1> HIDE DEF n, list, undone, l
<1>6. \A k \in 1 .. n : list[k] \in DOMAIN l
  BY <1>2, <1>3
<1>7. /\ new \in [1 .. n -> Line] /\ \A k \in 1 .. n : new[k].type = "REVERSAL" /\ ~new[k].swept
  BY <1>5, <1>6
<1> HIDE DEF new
<1>8. new \in Seq(Line) /\ DOMAIN new = 1 .. n
  BY <1>3, <1>7, RunIsSeq
<1>9. \A k \in DOMAIN new : /\ SignMatchesType(new[k])
                            /\ Affordable(s, new[k], priced[s]) /\ ~new[k].swept
  BY <1>7, <1>8 DEF SignMatchesType, Affordable
<1> QED BY <1>4, <1>8, <1>9, WriteMoney

LEMMA PolicyEvents ==
  ASSUME Money, NEW s \in Stays, PolicyApplies(s)
  PROVE  PolicyEvent(s) \in Events
<1>1. state[s] \in {"CANCELLED", "NO_SHOW", "CHECKED_IN"}
  BY DEF PolicyApplies
<1>2. CASE state[s] = "CANCELLED"
  <2>1. CASE terms[s] = "IN_TIME"
    BY <1>2, <2>1 DEF PolicyEvent, Events
  <2>2. CASE terms[s] # "IN_TIME"
    BY <1>2, <2>2 DEF PolicyEvent, Events
  <2> QED BY <2>1, <2>2
<1>3. CASE state[s] = "NO_SHOW"
  BY <1>3 DEF PolicyEvent, Events
<1>4. CASE state[s] = "CHECKED_IN"
  BY <1>4 DEF PolicyEvent, Events
<1> QED BY <1>1, <1>2, <1>3, <1>4

LEMMA PolicyBills ==
  ASSUME Money, NEW s \in Stays, PolicyApplies(s)
  PROVE  /\ PolicyCharge(s) \in Line /\ PolicyCharge(s).type = "POLICY_CHARGE"
         /\ PolicyCharge(s).swept = FALSE
         /\ PolicyCharge(s).amount \in 0 .. Total(NightsOf(s, priced[s]))
<1> DEFINE spent == Cardinality(Standing(s, "ROOM_CHARGE"))
           nights == NightsOf(s, priced[s])
           charge == Posted("POLICY_CHARGE", 0)
           amount == IF terms[s] = "WAIVED" THEN 0
                     ELSE Penalty(PolicyEvent(s), s \in NonRefundable, nights, spent)
<1>1. spent \in Nat
  <2>1. lines[s] \in Seq(Line)
    BY DEF Money, TypeOK
  <2>2. Standing(s, "ROOM_CHARGE") \subseteq 1 .. Len(lines[s]) /\ Len(lines[s]) \in Nat
    BY <2>1 DEF Standing
  <2> DEFINE standing == Standing(s, "ROOM_CHARGE")
  <2>3. IsFiniteSet(1 .. Len(lines[s]))
    BY <2>2, FS_Interval
  <2> HIDE DEF standing
  <2>4. IsFiniteSet(standing)
    BY <2>2, <2>3, FS_Subset DEF standing
  <2>5. Cardinality(standing) \in Nat
    BY <2>4, FS_CardinalityType
  <2> QED BY <2>5 DEF standing
<1>2. nights \in Seq(Nat) /\ nights # <<>>
  <2>1. /\ Arrival[s] \in Nat /\ LastDay \in Nat /\ priced[s] \in Arrival[s] .. LastDay
        /\ Arrival[s] < priced[s]
    BY DatesAssumption DEF Money, TypeOK
  <2>2. nights \in Seq(Nat) /\ Len(nights) = priced[s] - Arrival[s]
    BY <2>1, NightsOfStay
  <2>3. Len(nights) # 0
    BY <2>1, <2>2
  <2> QED BY <2>2, <2>3, EmptySeq
<1> HIDE DEF spent, nights
<1>3. Total(nights) \in Nat /\ amount \in 0 .. Total(nights)
  <2>1. Total(nights) \in Nat
    BY <1>2, TotalNat
  <2>2. (s \in NonRefundable) \in BOOLEAN
    OBVIOUS
  <2>3. Penalty(PolicyEvent(s), s \in NonRefundable, nights, spent) \in 0 .. Total(nights)
    BY <1>1, <1>2, <2>2, PolicyEvents, PenaltiesStayWithinTheStay
  <2> QED BY <2>1, <2>3
<1>4. PolicyCharge(s) = [charge EXCEPT !.amount = amount]
  BY DEF PolicyCharge, charge, amount, spent, nights
<1>5. charge \in Line /\ charge.type = "POLICY_CHARGE" /\ charge.swept = FALSE
  BY DEF Posted, Line, Types
<1> HIDE DEF charge, amount
<1>6. [charge EXCEPT !.amount = amount] \in Line
  <2>1. amount \in Int
    BY <1>3
  <2> QED BY <1>5, <2>1 DEF Line
<1>7. /\ [charge EXCEPT !.amount = amount].type = charge.type
      /\ [charge EXCEPT !.amount = amount].swept = charge.swept
      /\ [charge EXCEPT !.amount = amount].amount = amount
  BY <1>5 DEF Line
<1> QED BY <1>3, <1>4, <1>5, <1>6, <1>7 DEF nights

LEMMA BalanceTyped ==
  ASSUME Money, NEW s \in Stays
  PROVE  Balance(s) \in Int
<1> DEFINE amounts == [i \in DOMAIN lines[s] |-> lines[s][i].amount]
<1>1. lines[s] \in Seq(Line) /\ Len(lines[s]) \in Nat /\ DOMAIN lines[s] = 1 .. Len(lines[s])
  <2>1. lines[s] \in Seq(Line)
    BY DEF Money, TypeOK
  <2> QED BY <2>1, LenProperties
<1>2. \A i \in DOMAIN lines[s] : lines[s][i].amount \in Int
  <2>1. \A i \in DOMAIN lines[s] : lines[s][i] \in Line
    BY <1>1
  <2> QED BY <2>1 DEF Line
<1>3. amounts \in [1 .. Len(lines[s]) -> Int]
  BY <1>1, <1>2
<1> HIDE DEF amounts
<1>4. Total(amounts) \in Int
  BY <1>1, <1>3, RunIsSeq, TotalInt
<1> QED BY <1>4 DEF Balance, Sum, amounts

LEMMA PostPolicyRefundMoney ==
  ASSUME Inv, Inv', Money, NEW s \in Stays, PostPolicyRefund(s)
  PROVE  Money'
<1> DEFINE charge == PolicyCharge(s)
           settled == Balance(s) + charge.amount
           refund == Posted("REFUND", -settled)
<1>1. /\ charge \in Line /\ charge.type = "POLICY_CHARGE" /\ charge.swept = FALSE
      /\ charge.amount \in 0 .. Total(NightsOf(s, priced[s]))
  BY PolicyBills DEF PostPolicyRefund
<1>2. Write(s, IF settled < 0 THEN <<charge, refund>> ELSE <<charge>>)
  BY DEF PostPolicyRefund
<1> HIDE DEF charge
<1>3. settled \in Int
  <2>1. charge.amount \in Int
    BY <1>1 DEF Line
  <2> QED BY <2>1, BalanceTyped
<1>4. SignMatchesType(charge) /\ Affordable(s, charge, priced[s]) /\ ~charge.swept
  BY <1>1 DEF SignMatchesType, Affordable
<1> HIDE DEF settled
<1>5. CASE settled < 0
  <2> DEFINE new == <<charge, refund>>
  <2>1. /\ refund \in Line /\ refund.type = "REFUND" /\ refund.amount = -settled
        /\ refund.swept = FALSE
    BY <1>3 DEF Posted, Line, Types
  <2> HIDE DEF refund
  <2>2. SignMatchesType(refund) /\ Affordable(s, refund, priced[s]) /\ ~refund.swept
    BY <1>3, <1>5, <2>1 DEF SignMatchesType, Affordable
  <2>3. new \in Seq(Line) /\ DOMAIN new = {1, 2} /\ new[1] = charge /\ new[2] = refund
    BY <1>1, <2>1
  <2>4. Write(s, new)
    BY <1>2, <1>5
  <2> HIDE DEF new
  <2>5. \A k \in DOMAIN new : /\ SignMatchesType(new[k])
                              /\ Affordable(s, new[k], priced[s]) /\ ~new[k].swept
    BY <1>4, <2>2, <2>3
  <2> QED BY <2>3, <2>4, <2>5, WriteMoney
<1>6. CASE ~(settled < 0)
  <2> DEFINE new == <<charge>>
  <2>1. new \in Seq(Line) /\ DOMAIN new = {1} /\ new[1] = charge
    BY <1>1
  <2>2. Write(s, new)
    BY <1>2, <1>6
  <2> HIDE DEF new
  <2>3. \A k \in DOMAIN new : /\ SignMatchesType(new[k])
                              /\ Affordable(s, new[k], priced[s]) /\ ~new[k].swept
    BY <1>4, <2>1
  <2> QED BY <2>1, <2>2, <2>3, WriteMoney
<1> QED BY <1>5, <1>6

LEMMA TonightBills ==
  ASSUME Inv, Money, NEW s \in Due
  PROVE  Billed(s, lines[s] \o Tonight(s), priced[s])
<1> DEFINE l == lines[s]
           n == Len(l)
           new == Tonight(s)
           both == l \o new
           gross == Nightly[s][today]
<1>1. /\ s \in Stays /\ today \in Arrival[s] .. (LastDay - 1) /\ today \in Nat
      /\ l \in Seq(Line) /\ n \in Nat /\ Billed(s, l, priced[s])
  <2>1. s \in Stays /\ Arrival[s] <= today /\ today < leaves[s]
    BY DEF Due
  <2>2. today \in Int /\ Arrival[s] \in Int /\ leaves[s] \in 1 .. LastDay /\ LastDay \in Nat
    BY <2>1, DatesAssumption DEF Money, TypeOK
  <2>3. l \in Seq(Line) /\ Billed(s, l, priced[s])
    BY <2>1 DEF Money, TypeOK
  <2>4. today \in Nat
    BY DEF Inv, Tables
  <2> QED BY <2>1, <2>2, <2>3, <2>4, LenProperties
<1>2. gross \in Nat
  BY <1>1, NightlyTyped
<1>3. /\ NightCharge \in LineOver({0}) /\ NightCharge.reverses = 0
      /\ NightCharge.type = "ROOM_CHARGE" /\ NightCharge.on = today /\ NightCharge.swept = TRUE
  <2>1. /\ Posted("ROOM_CHARGE", 0) \in LineOver({0})
        /\ Posted("ROOM_CHARGE", 0).reverses = 0
        /\ Posted("ROOM_CHARGE", 0).type = "ROOM_CHARGE"
    BY DEF Posted, LineOver, Types
  <2> QED BY <1>1, <2>1 DEF NightCharge, LineOver
<1> HIDE DEF gross
<1>4. SaleLines(new, NightCharge, n, gross)
  <2>1. NightCharge.type \in {"ROOM_CHARGE", "SERVICE_ITEM"}
    BY <1>3
  <2>2. SaleLines(Sale(s, NightCharge, gross), NightCharge, Len(lines[s]), gross)
    BY <1>1, <1>2, <1>3, <2>1, SaleBills
  <2> QED BY <2>2 DEF Tonight, gross
<1> HIDE DEF new, l, n
<1>5. /\ new \in Seq(Line) /\ DOMAIN new = 1 .. 3 /\ new[1].type = "ROOM_CHARGE"
      /\ new[1].on = today /\ new[2].of = n + 1 /\ new[3].of = n + 1
      /\ new[1].amount + new[2].amount + new[3].amount = gross
  BY <1>3, <1>4 DEF SaleLines
<1>6. /\ DOMAIN both = 1 .. (n + 3)
      /\ both[n + 1] = new[1] /\ both[n + 2] = new[2] /\ both[n + 3] = new[3]
  <2>1. Ledger(l) /\ Ledger(new)
    BY <1>1, <1>5 DEF Ledger, Line, LineOver
  <2>2. Len(new) = 3 /\ 1 \in 1 .. 3 /\ 2 \in 1 .. 3 /\ 3 \in 1 .. 3
    BY <1>5
  <2>3. /\ DOMAIN both = 1 .. (Len(l) + Len(new))
        /\ \A k \in 1 .. Len(new) : both[Len(l) + k] = new[k]
    BY <2>1, Appended
  <2> QED BY <2>2, <2>3 DEF n
<1> HIDE DEF both
<1>7. WholeNight(s, both, n + 1)
  <2>1. n + 3 \in DOMAIN both /\ (n + 1) + 1 = n + 2 /\ (n + 1) + 2 = n + 3
    BY <1>1, <1>6
  <2> QED BY <1>1, <1>5, <1>6, <2>1 DEF WholeNight, gross
<1>8. ASSUME NEW k \in DOMAIN new
      PROVE  /\ SignMatchesType(new[k]) /\ Affordable(s, new[k], priced[s])
             /\ new[k].swept => WholeNight(s, both, n + k)
  <2>1. k = 1 \/ k = 2 \/ k = 3
    BY <1>5
  <2>2. SignMatchesType(new[k]) /\ new[k].type # "POLICY_CHARGE"
    BY <1>4 DEF SaleLines
  <2>3. new[k].swept => k = 1
    BY <1>4, <2>1 DEF SaleLines
  <2> QED BY <1>7, <2>2, <2>3 DEF Affordable
<1> QED BY <1>1, <1>5, <1>8, BilledAppended DEF both, new, l, n

LEMMA ChargeRoomsMoney ==
  ASSUME Inv, Inv', Money, ChargeRooms
  PROVE  Money'
<1>1. /\ lines' = [s \in Stays |-> IF s \in Due THEN lines[s] \o Tonight(s) ELSE lines[s]]
      /\ account' = [s \in Stays |-> IF s \in Due THEN "OPEN" ELSE account[s]]
      /\ UNCHANGED <<today, state, leaves, priced, terms, leaving>>
  BY DEF ChargeRooms, stays
<1>2. ASSUME NEW s \in Stays PROVE Billed(s, lines'[s], priced'[s])
  <2>1. CASE s \in Due
    BY <1>1, <2>1, TonightBills
  <2>2. CASE s \notin Due
    BY <1>1, <2>2 DEF Money
  <2> QED BY <2>1, <2>2
<1>3. lines' \in [Stays -> Seq(Line)]
  <2>1. \A s \in Stays : lines'[s] \in Seq(Line)
    BY <1>2 DEF Billed
  <2> QED BY <1>1, <2>1
<1>4. \A s \in Stays : account'[s] = "NONE" => lines'[s] = <<>>
  BY <1>1 DEF Money, TypeOK
<1>5. TypeOK'
  BY <1>1, <1>3, <1>4 DEF Money, TypeOK, Inv, Tables, Rows
<1> QED BY <1>2, <1>5 DEF Money

LEMMA CloseMoney ==
  ASSUME Inv', Money, NEW s \in Stays, Close(s)
  PROVE  Money'
<1>1. /\ account[s] = "OPEN" /\ account' = [account EXCEPT ![s] = "CLOSED"]
      /\ UNCHANGED <<today, state, leaves, priced, terms, leaving, lines>>
  BY DEF Close, stays
<1>2. TypeOK'
  BY <1>1 DEF Money, TypeOK, Inv, Tables, Rows
<1> QED BY <1>1, <1>2 DEF Money

(* A booking of other nights prices the ones it has no price for. *)
LEMMA StaysLive ==
  ASSUME Inv', Money, NEW s \in Stays, Life(s)
  PROVE  Money'
<1>1. /\ today \in 1 .. LastDay /\ state \in [Stays -> States]
      /\ leaves \in [Stays -> 1 .. LastDay] /\ priced \in [Stays -> 1 .. LastDay]
      /\ \A t \in Stays : Arrival[t] < leaves[t] /\ leaves[t] <= priced[t]
      /\ terms \in [Stays -> Terms] /\ leaving \subseteq Stays
      /\ \A t \in Stays : Arrival[t] \in Nat
      /\ LastDay \in Nat
      /\ \A t \in Stays : priced[t] <= priced[t]
  BY DatesAssumption DEF Money, TypeOK
<1>2. CASE Cancel(s)
  <2>1. /\ UNCHANGED <<today, leaves, priced, leaving, ledger>>
        /\ state' \in [Stays -> States] /\ terms' \in [Stays -> Terms]
    BY <1>1, <1>2 DEF Cancel, Becomes, States
  <2> QED BY <1>1, <2>1, LifeMoney
<1>3. CASE CheckIn(s) \/ MarkNoShow(s)
  <2>1. /\ UNCHANGED <<today, leaves, priced, terms, leaving, ledger>>
        /\ state' \in [Stays -> States]
    BY <1>1, <1>3 DEF CheckIn, MarkNoShow, Becomes, States
  <2> QED BY <1>1, <2>1, LifeMoney
<1>4. ASSUME NEW to \in 1 .. LastDay, Rebook(s, to) PROVE Money'
  <2>1. /\ UNCHANGED <<today, state, terms, leaving, ledger>>
        /\ leaves' = [leaves EXCEPT ![s] = to]
        /\ priced' = [priced EXCEPT ![s] = Priced(s, to)]
        /\ leaves[s] < to \/ Arrival[s] < to
    BY <1>4 DEF Rebook
  <2>2. Arrival[s] < to
    <3>1. Arrival[s] \in Nat /\ leaves[s] \in Nat /\ to \in Nat /\ Arrival[s] < leaves[s]
      BY <1>1
    <3> QED BY <2>1, <3>1
  <2>3. Priced(s, to) \in 1 .. LastDay /\ to <= Priced(s, to) /\ priced[s] <= Priced(s, to)
    BY <1>1 DEF Priced
  <2>4. leaves' \in [Stays -> 1 .. LastDay] /\ priced' \in [Stays -> 1 .. LastDay]
    BY <1>1, <2>1, <2>3
  <2>5. ASSUME NEW t \in Stays
        PROVE  /\ Arrival[t] < leaves'[t] /\ leaves'[t] <= priced'[t]
               /\ priced[t] <= priced'[t]
    <3>1. CASE t = s
      BY <1>1, <2>1, <2>2, <2>3, <3>1
    <3>2. CASE t # s
      BY <1>1, <2>1, <3>2
    <3> QED BY <3>1, <3>2
  <2> QED BY <1>1, <2>1, <2>4, <2>5, LifeMoney
<1>5. CASE ReadBalance(s)
  <2>1. /\ UNCHANGED <<today, state, leaves, priced, terms, ledger>>
        /\ leaving' \subseteq Stays
    BY <1>1, <1>5 DEF ReadBalance, stays
  <2> QED BY <1>1, <2>1, LifeMoney
<1>6. CASE FinishCheckOut(s)
  <2>1. /\ UNCHANGED <<today, leaves, priced, terms, ledger>>
        /\ state' \in [Stays -> States] /\ leaving' \subseteq Stays
    BY <1>1, <1>6 DEF FinishCheckOut, States
  <2> QED BY <1>1, <2>1, LifeMoney
<1> QED BY <1>2, <1>3, <1>4, <1>5, <1>6 DEF Life

LEMMA MoneyNext == Inv /\ Inv' /\ Money /\ [Next]_vars => Money'
<1> SUFFICES ASSUME Inv, Inv', Money, [Next]_vars PROVE Money'
  OBVIOUS
<1>1. ASSUME NEW s \in Stays, Desk(s) PROVE Money'
  <2>1. ASSUME NEW a \in Figures
        PROVE  -a \in Int /\ -a <= 0 /\ a \in Int /\ a >= 0
    BY MoneyAssumption
  <2>2. ASSUME NEW a \in Figures, PostCharge(s, a) PROVE Money'
    BY <2>2, PostChargeMoney
  <2>3. ASSUME NEW a \in Figures, PostPayment(s, a) \/ PostGatewayPayment(s, a) PROVE Money'
    BY <2>1, <2>3, TakingMoney DEF PostPayment, PostGatewayPayment
  <2>4. ASSUME NEW a \in Figures, PostOverrideRefund(s, a) PROVE Money'
    BY <2>1, <2>4, TakingMoney DEF PostOverrideRefund
  <2>5. ASSUME NEW i \in DOMAIN lines[s], ReversePosting(s, i) PROVE Money'
    BY <2>5, ReversePostingMoney
  <2>6. CASE PostPolicyRefund(s)
    BY <2>6, PostPolicyRefundMoney
  <2>7. CASE Close(s)
    BY <2>7, CloseMoney
  <2> QED BY <1>1, <2>2, <2>3, <2>4, <2>5, <2>6, <2>7 DEF Desk
<1>2. ASSUME NEW s \in Stays, Life(s) PROVE Money'
  BY <1>2, StaysLive
<1>3. CASE ChargeRooms
  BY <1>3, ChargeRoomsMoney
<1>4. ASSUME UNCHANGED <<state, leaves, priced, terms, leaving, ledger>>,
             today' \in 1 .. LastDay
      PROVE  Money'
  <2>1. \A s \in Stays : /\ Arrival[s] < leaves[s] /\ leaves[s] <= priced[s]
                         /\ priced[s] <= priced[s]
    BY DEF Money, TypeOK
  <2> QED BY <1>4, <2>1, LifeMoney DEF Money, TypeOK
<1>5. CASE Rollover
  <2>1. today' \in 1 .. LastDay
    BY <1>5, DatesAssumption DEF Rollover, Money, TypeOK
  <2> QED BY <1>4, <1>5, <2>1 DEF Rollover
<1>6. CASE UNCHANGED vars
  BY <1>4, <1>6 DEF vars, stays, Money, TypeOK
<1> QED BY <1>1, <1>2, <1>3, <1>5, <1>6 DEF Next

(* Whatever is posted and in whatever order, every account is Billed. *)
THEOREM MoneyInvariance == Spec => []Money
<1>1. Init => Money
  BY MoneyInit
<1>2. Inv /\ Inv' /\ Money /\ [Next]_vars => Money'
  BY MoneyNext
<1> QED BY <1>1, <1>2, Invariance, PTL DEF Spec

(* Every amount ever posted, a night's price and a penalty among them, is a whole
   number, and no act on a stay leaves it priced for fewer nights than it has. *)
THEOREM TypesCorrect == Spec => []TypeOK
<1>1. Money => TypeOK
  BY DEF Money
<1> QED BY <1>1, MoneyInvariance, PTL

(* schema/folio.ts, folio_posting_sign_matches_type: no line the application writes
   is of the wrong sign. The check would refuse it and with it the sweep's whole
   transaction; no plan, promotion or division of a price comes to that.      *)
THEOREM SignsCorrect == Spec => []SignsMatchTypes
<1>1. Money => SignsMatchTypes
  BY DEF Money, Billed, SignsMatchTypes
<1> QED BY <1>1, MoneyInvariance, PTL

(* room-charge-sweep.ts: a night the sweep charged is on the account with both its
   levies, and the three come to that night's price, to the dong.             *)
THEOREM SweptNightsCorrect == Spec => []NightsPostTheirPrice
<1>1. Money => NightsPostTheirPrice
  BY DEF Money, Billed, NightsPostTheirPrice
<1> QED BY <1>1, MoneyInvariance, PTL

(* postPolicyRefund, cancellation-calculator.ts: no policy charge ever posted is more
   than the nights the stay was sold, also of a stay shortened or lengthened since. *)
THEOREM PenaltiesCorrect == Spec => []PenaltiesAreAffordable
<1>1. Money => PenaltiesAreAffordable
  BY DEF Money, Billed, PenaltiesAreAffordable
<1> QED BY <1>1, MoneyInvariance, PTL

(* Where the sweep's charges of the nights of a stay up to a date are. *)
ChargedThrough(s, to, place) ==
  /\ place \in [1 .. (to - Arrival[s]) -> DOMAIN lines[s]]
  /\ \A n \in DOMAIN place :
       lines[s][place[n]].swept /\ lines[s][place[n]].on = Arrival[s] + n - 1

WithTaxes(l, i) == l[i].amount + l[i + 1].amount + l[i + 2].amount

SweptStaysPostTheirQuote ==
  \A s \in Stays : \A to \in Arrival[s] .. LastDay : \A place :
    ChargedThrough(s, to, place) =>
      Total([n \in DOMAIN place |-> WithTaxes(lines[s], place[n])])
        = StayTotal(Quote[s], NightsOf(s, to))

(* booking.service.ts, room-charge-sweep.ts: a guest charged by the sweep for every
   night up to a date has been charged what the booking's frozen quote says of a
   stay to that date, extended, shortened or as sold, whatever else is posted on
   the account and in whatever order the nights were.                         *)
THEOREM SweptStaysCorrect == Spec => []SweptStaysPostTheirQuote
<1>1. NightsPostTheirPrice => SweptStaysPostTheirQuote
  <2> SUFFICES ASSUME NightsPostTheirPrice, NEW s \in Stays,
                      NEW to \in Arrival[s] .. LastDay, NEW place, ChargedThrough(s, to, place)
               PROVE  Total([n \in DOMAIN place |-> WithTaxes(lines[s], place[n])])
                        = StayTotal(Quote[s], NightsOf(s, to))
    BY DEF SweptStaysPostTheirQuote
  <2> DEFINE nights == NightsOf(s, to)
             m == to - Arrival[s]
             night == [k \in DOMAIN nights |-> NightPrice(Quote[s], SubSeq(nights, 1, k))]
             posted == [n \in DOMAIN place |-> WithTaxes(lines[s], place[n])]
  <2>1. Arrival[s] \in Nat /\ LastDay \in Nat /\ m \in Nat /\ to = Arrival[s] + m
    BY DatesAssumption
  <2>2. /\ nights \in Seq(Nat) /\ DOMAIN nights = 1 .. m
        /\ \A k \in 0 .. m : SubSeq(nights, 1, k) = NightsOf(s, Arrival[s] + k)
    <3>1. nights \in Seq(Nat) /\ Len(nights) = m
      BY NightsOfStay
    <3> QED BY <3>1, LenProperties, NightsOfStay
  <2>3. DOMAIN place = 1 .. m /\ \A n \in 1 .. m : place[n] \in DOMAIN lines[s]
    BY DEF ChargedThrough
  <2>4. ASSUME NEW n \in 1 .. m PROVE WithTaxes(lines[s], place[n]) = night[n]
    <3>1. lines[s][place[n]].swept /\ lines[s][place[n]].on = Arrival[s] + n - 1
      BY <2>3 DEF ChargedThrough
    <3>2. WholeNight(s, lines[s], place[n])
      BY <2>3, <3>1 DEF NightsPostTheirPrice
    <3>3. WithTaxes(lines[s], place[n]) = Nightly[s][Arrival[s] + n - 1]
      BY <3>1, <3>2 DEF WholeNight, WithTaxes
    <3>4. Arrival[s] + n - 1 \in Arrival[s] .. LastDay /\ (Arrival[s] + n - 1) + 1 = Arrival[s] + n
      BY <2>1
    <3>5. Nightly[s][Arrival[s] + n - 1] = NightPrice(Quote[s], NightsOf(s, Arrival[s] + n))
      BY <3>4 DEF Nightly
    <3> HIDE DEF nights
    <3>6. n \in DOMAIN nights /\ SubSeq(nights, 1, n) = NightsOf(s, Arrival[s] + n)
      <4>1. n \in 0 .. m
        BY <2>1
      <4> QED BY <2>2, <4>1
    <3>7. night[n] = NightPrice(Quote[s], SubSeq(nights, 1, n))
      BY <3>6
    <3> QED BY <3>3, <3>5, <3>6, <3>7
  <2>5. posted = night
    BY <2>2, <2>3, <2>4
  <2> HIDE DEF night, posted, nights, m
  <2>6. Total(night) = StayTotal(Quote[s], nights)
    BY <2>2, QuotesTyped, NightsSumToTheQuoteAlways DEF night
  <2> QED BY <2>5, <2>6 DEF posted, nights
<1> QED BY <1>1, SweptNightsCorrect, PTL

=============================================================================
