--------------------------- MODULE CommerceProofs ---------------------------
(* What a store's business promises of its money, its plans, its imports and   *)
(* its customers' data, proved for every value of the constants.  A component  *)
(* has an inductive invariant, a lemma that it holds first (..Starts), one     *)
(* that every action keeps it (..Steps), and one that it shows the properties  *)
(* (..InvShows).                                                               *)
EXTENDS MCCommerce, FiniteSetTheorems, WellFoundedInduction, TLAPS

(*************************************************************************)
(* Numbers, and sets of them in order                                    *)
(*************************************************************************)

(* A set of numbers that is not empty has a least one; what follows by       *)
(* induction below is stated by its first counterexample.                    *)
LEMMA NatMinimum ==
  ASSUME NEW T, T \subseteq Nat, T # {}
  PROVE  \E x \in T : \A y \in T : x <= y
<1> DEFINE R == OpToRel(<, Nat)
<1>1. IsWellFoundedOn(R, Nat)  BY NatLessThanWellFounded
<1>2. \A i, j \in Nat : i < j => <<i, j>> \in R  BY DEF OpToRel
<1> HIDE DEF R
<1>3. \E x \in T : \A y \in T : ~ (<<y, x>> \in R)  BY <1>1, WFMin
<1>4. PICK x \in T : \A y \in T : ~ (<<y, x>> \in R)  BY <1>3
<1>5. ASSUME NEW y \in T  PROVE x <= y
  <2>1. ~ (y < x)  BY <1>2, <1>4, <1>5
  <2>2. x \in Nat /\ y \in Nat  BY <1>5
  <2> QED  BY <2>1, <2>2
<1> QED  BY <1>5

(* f lists the set I of numbers from the least to the greatest.              *)
Lists(f, I) ==
  /\ f \in [1..Cardinality(I) -> I]
  /\ \A m, n \in 1..Cardinality(I) : m < n => f[m] < f[n]

LEMMA ListExists ==
  ASSUME NEW I, I \subseteq Nat, IsFiniteSet(I)
  PROVE  \E f : Lists(f, I)
<1> DEFINE Good(n) == \A J \in SUBSET Nat : IsFiniteSet(J) /\ Cardinality(J) = n => \E f : Lists(f, J)
           Bad == {n \in Nat : ~Good(n)}
<1>1. Good(0)
  <2> SUFFICES ASSUME NEW J \in SUBSET Nat, IsFiniteSet(J), Cardinality(J) = 0
               PROVE  \E f : Lists(f, J)
    OBVIOUS
  <2>1. \A m \in 1..Cardinality(J) : FALSE  OBVIOUS
  <2>2. Lists([m \in 1..Cardinality(J) |-> 0], J)  BY <2>1 DEF Lists
  <2> QED  BY <2>2
<1>2. ASSUME NEW n \in Nat, n # 0, Good(n - 1)  PROVE Good(n)
  <2> SUFFICES ASSUME NEW J \in SUBSET Nat, IsFiniteSet(J), Cardinality(J) = n
               PROVE  \E f : Lists(f, J)
    OBVIOUS
  <2>1. J # {}  BY <1>2, FS_EmptySet
  <2>2. PICK x \in J : \A y \in J : x <= y  BY <2>1, NatMinimum
  <2> DEFINE K == J \ {x}
  <2>3. IsFiniteSet(K) /\ Cardinality(K) = n - 1  BY FS_RemoveElement
  <2>4. PICK g : Lists(g, K)  BY <1>2, <2>3
  <2> DEFINE f == [m \in 1..n |-> IF m = 1 THEN x ELSE g[m - 1]]
  <2>5. \A m \in 1..n : m # 1 => m - 1 \in 1..(n - 1)  BY <1>2
  <2>6. g \in [1..(n - 1) -> K] /\ \A m, k \in 1..(n - 1) : m < k => g[m] < g[k]
    BY <2>3, <2>4 DEF Lists
  <2>7. f \in [1..n -> J]  BY <2>5, <2>6
  <2>8. ASSUME NEW m \in 1..n, NEW k \in 1..n, m < k  PROVE f[m] < f[k]
    <3>1. k # 1 /\ k - 1 \in 1..(n - 1) /\ f[k] = g[k - 1]  BY <2>5, <2>8
    <3>2. CASE m = 1
      <4>1. f[m] = x  BY <3>2
      <4>2. g[k - 1] \in K  BY <2>6, <3>1
      <4>3. x <= g[k - 1] /\ x # g[k - 1] /\ x \in Nat /\ g[k - 1] \in Nat  BY <2>2, <4>2
      <4> HIDE DEF f
      <4> QED  BY <3>1, <4>1, <4>3
    <3>3. CASE m # 1
      <4>1. m - 1 \in 1..(n - 1) /\ m - 1 < k - 1 /\ f[m] = g[m - 1]  BY <2>5, <2>8, <3>3
      <4> HIDE DEF f
      <4> QED  BY <2>6, <3>1, <4>1
    <3> QED  BY <3>2, <3>3
  <2> HIDE DEF f
  <2>9. Lists(f, J)  BY <2>7, <2>8 DEF Lists
  <2> QED  BY <2>9
<1> HIDE DEF Good
<1>3. Bad = {}
  <2> SUFFICES ASSUME Bad # {} PROVE FALSE  OBVIOUS
  <2>1. PICK n \in Bad : \A k \in Bad : n <= k  BY NatMinimum
  <2>2. n # 0  BY <1>1
  <2>3. n \in Nat /\ n - 1 \in Nat /\ ~(n <= n - 1)  BY <2>2
  <2>4. Good(n - 1)  BY <2>1, <2>3
  <2> QED  BY <1>2, <2>2, <2>3, <2>4
<1>4. Cardinality(I) \in Nat  BY FS_CardinalityType
<1>5. Good(Cardinality(I))  BY <1>3, <1>4
<1> QED  BY <1>5 DEF Good

(* Such a list repeats nothing and misses nothing.                           *)
LEMMA ListIsAll ==
  ASSUME NEW I, I \subseteq Nat, IsFiniteSet(I), NEW f, Lists(f, I)
  PROVE  /\ \A m, n \in 1..Cardinality(I) : f[m] = f[n] => m = n
         /\ \A i \in I : \E n \in 1..Cardinality(I) : f[n] = i
<1> DEFINE c == Cardinality(I)
           D == 1..c
<1>1. c \in Nat /\ IsFiniteSet(D) /\ Cardinality(D) = c
  <2>1. c \in Nat  BY FS_CardinalityType
  <2>2. IsFiniteSet(1..c) /\ Cardinality(1..c) = IF 1 > c THEN 0 ELSE c - 1 + 1
    <3> HIDE DEF c
    <3> QED  BY <2>1, FS_Interval
  <2> QED  BY <2>1, <2>2
<1>2. f \in [D -> I] /\ \A m, n \in D : m < n => f[m] < f[n]  BY DEF Lists
<1> HIDE DEF c
<1>3. \A m, n \in D : f[m] = f[n] => m = n
  <2> SUFFICES ASSUME NEW m \in D, NEW n \in D, f[m] = f[n], m # n PROVE FALSE  OBVIOUS
  <2>1. f[m] \in I /\ f[n] \in I  BY <1>2
  <2>2. f[m] \in Nat /\ f[n] \in Nat  BY <2>1
  <2>3. m < n \/ n < m  BY <1>1
  <2>4. f[m] < f[n] \/ f[n] < f[m]  BY <1>2, <2>3
  <2> QED  BY <2>2, <2>4
<1>4. f \in Injection(D, I)  BY <1>2, <1>3 DEF Injection, IsInjective
<1>5. f \in Surjection(D, I)
  <2> HIDE DEF D
  <2> QED  BY <1>1, <1>4, FS_Injection DEF c
<1>6. \A i \in I : \E n \in D : f[n] = i  BY <1>5 DEF Surjection
<1> QED  BY <1>3, <1>6 DEF D, c

(*************************************************************************)
(* Payments                                                              *)
(*************************************************************************)

ChargeRow == [status : {"none", "created", "paid", "receipted"}, seq : Nat, linked : BOOLEAN]
DraftRow == [status : {"none", "pending", "approved", "rejected"}, charge : SUBSET Charges,
             events : Nat]
ClerkWork ==
  [doing : {"nothing", "create", "link", "confirm", "request", "deliver", "sent"},
   charge : SUBSET Charges, read : {"none", "created", "paid", "receipted"}, seq : Nat,
   capture : SUBSET Captures, draft : SUBSET Drafts]

PaymentsTypes ==
  /\ charges \in [Charges -> ChargeRow]
  /\ captures \in [Captures -> {"unseen", "stored", "processed"}]
  /\ drafts \in [Drafts -> DraftRow]
  /\ receipts \in [Charges -> Nat]
  /\ clerk \in [Clerks -> ClerkWork]
  /\ slips \in Nat

(* A number that was read and is not yet used is at most the next one.       *)
NumbersInHand ==
  /\ \A c \in Charges : charges[c].status = "none" => charges[c] = NoCharge
  /\ \A k \in Clerks :
       clerk[k].doing = "create" => clerk[k].seq \in 1..Cardinality(Recorded) + 1

(* What is asked, captured or drafted is of a charge that was recorded, and a *)
(* confirmation that read a paid charge still has one.                        *)
Settled(c) == charges[c].status \in {"paid", "receipted"}
Knows(k) ==
  /\ clerk[k].doing \notin {"nothing", "create"} => clerk[k].charge \subseteq Recorded
  /\ clerk[k].doing = "confirm" =>
       \A e \in Captures :
         clerk[k].capture = {e} =>
           /\ clerk[k].charge = {CaptureOf[e]} /\ clerk[k].read # "none"
           /\ clerk[k].read # "created" => Settled(CaptureOf[e])
ChargesKnown ==
  /\ \A c \in Charges : charges[c].linked => c \in Recorded
  /\ \A e \in Captures : captures[e] # "unseen" => CaptureOf[e] \in Recorded
  /\ \A d \in Drafts : drafts[d].charge \subseteq Recorded
  /\ \A k \in Clerks : Knows(k)

(* A draft is of one charge, and who delivers it is alone with its event.    *)
Delivers(k, d) == clerk[k].draft = {d}
DraftsInHand ==
  /\ \A d \in Drafts : drafts[d] = NoDraft \/ (drafts[d].status # "none"
                                               /\ \E c \in Charges : drafts[d].charge = {c})
  /\ \A d \in Drafts : drafts[d].events > 0 => drafts[d].status \notin {"none", "pending"}
  /\ \A k \in Clerks :
       IF clerk[k].doing \in {"deliver", "sent"}
       THEN \E d \in Drafts : /\ Delivers(k, d) /\ drafts[d].status = "approved"
                              /\ drafts[d].events > 0 /\ clerk[k].charge = drafts[d].charge
       ELSE clerk[k].draft = {}
  /\ \A d \in Drafts : \A j, k \in Clerks : Delivers(j, d) /\ Delivers(k, d) => j = k

(* The drafts a receipt of a charge may have left for: those whose event is   *)
(* done with and those whose deliverer has sent it. Receipts beyond them left *)
(* with a clerk that died.                                                    *)
ApprovedOf(c) == {d \in Drafts : drafts[d].status = "approved" /\ c \in drafts[d].charge}
LeftFor(c) ==
  {d \in ApprovedOf(c) : drafts[d].events = 0
                         \/ \E k \in Clerks : Delivers(k, d) /\ clerk[k].doing = "sent"}
ReceiptsCounted ==
  \A c \in Charges : /\ receipts[c] <= Cardinality(LeftFor(c)) + slips
                     /\ receipts[c] > 0 => ApprovedOf(c) # {}

PaymentsInv ==
  /\ PaymentsTypes /\ NumbersInHand /\ NumbersGapFree /\ ChargesKnown /\ CaptureNotLost
  /\ DraftsInHand /\ ReceiptsCounted

LEMMA RestingIsWork == Resting \in ClerkWork
BY DEF Resting, ClerkWork

LEMMA RecordedFinite ==
  /\ IsFiniteSet(Recorded) /\ Cardinality(Recorded) \in Nat
  /\ Cardinality(Recorded) <= Cardinality(Charges) /\ Cardinality(Charges) \in Nat
<1>1. Recorded \subseteq Charges /\ IsFiniteSet(Charges)
  BY PaymentsAssumption DEF Recorded
<1>2. QED
  BY <1>1, FS_Subset, FS_CardinalityType

LEMMA PaymentsStarts == PaymentsInit => PaymentsInv
<1> SUFFICES ASSUME PaymentsInit PROVE PaymentsInv
  OBVIOUS
<1> USE DEF PaymentsInit
<1>1. PaymentsTypes
  BY RestingIsWork DEF PaymentsTypes, NoCharge, NoDraft, ChargeRow, DraftRow
<1>2. Recorded = {}
  BY DEF Recorded, NoCharge
<1>3. NumbersGapFree  BY <1>2, FS_EmptySet DEF NumbersGapFree
<1>4. NumbersInHand /\ ChargesKnown /\ CaptureNotLost
  BY DEF NumbersInHand, ChargesKnown, CaptureNotLost, NoCharge, NoDraft, Resting, Knows
<1>5. DraftsInHand
  <2>1. \A d \in Drafts : drafts[d] = NoDraft /\ NoDraft.events = 0
    BY DEF NoDraft
  <2>2. \A k \in Clerks : clerk[k].doing = "nothing" /\ clerk[k].draft = {}
    BY DEF Resting
  <2>3. \A d : {} # {d}
    OBVIOUS
  <2>4. QED
    BY <2>1, <2>2, <2>3 DEF DraftsInHand, Delivers
<1>6. ReceiptsCounted
  BY PaymentsAssumption, FS_Subset, FS_CardinalityType DEF ReceiptsCounted, LeftFor,
     ApprovedOf
<1>7. QED
  BY <1>1, <1>3, <1>4, <1>5, <1>6 DEF PaymentsInv

-----------------------------------------------------------------------------
(* What keeps each part                                                      *)

(* The numbers stay right in a step that records no charge and reads none.   *)
LEMMA NumbersKept ==
  ASSUME PaymentsInv, charges' \in [Charges -> ChargeRow],
         \A c \in Charges : /\ charges'[c].seq = charges[c].seq
                            /\ charges[c].status = "none" => charges'[c] = charges[c]
                            /\ charges[c].status # "none" => charges'[c].status # "none",
         \A k \in Clerks : clerk'[k] = clerk[k] \/ clerk'[k].doing # "create"
  PROVE  NumbersInHand' /\ NumbersGapFree' /\ Recorded' = Recorded
<1>1. Recorded' = Recorded
  BY DEF Recorded
<1>2. Cardinality(Recorded)' = Cardinality(Recorded)
  BY <1>1
<1>3. {charges[c].seq : c \in Recorded}' = {charges[c].seq : c \in Recorded}
  BY <1>1 DEF Recorded
<1>4. NumbersInHand'
  BY <1>2 DEF PaymentsInv, NumbersInHand, NoCharge
<1>5. QED
  BY <1>1, <1>2, <1>3, <1>4 DEF PaymentsInv, NumbersGapFree

(* What is known of the charges stays so where rows and requests stay in     *)
(* their place, and a clerk's new work is of a recorded charge.              *)
LEMMA KnownKept ==
  ASSUME PaymentsInv, Recorded \subseteq Recorded', \A c \in Charges : Settled(c) => Settled(c)',
         \A c \in Charges : charges'[c].linked => charges[c].linked \/ c \in Recorded',
         \A e \in Captures : captures'[e] # "unseen" =>
                               captures[e] # "unseen" \/ CaptureOf[e] \in Recorded',
         \A e \in Captures : captures'[e] = "processed" =>
                               captures[e] = "processed" \/ Settled(CaptureOf[e])',
         \A d \in Drafts : drafts'[d].charge = drafts[d].charge \/ drafts'[d].charge \subseteq Recorded',
         \A k \in Clerks : clerk'[k] = clerk[k] \/ Knows(k)'
  PROVE  ChargesKnown' /\ CaptureNotLost'
<1>1. \A e \in Captures : CaptureOf[e] \in Charges
  BY PaymentsAssumption
<1>2. CaptureNotLost'
  BY <1>1 DEF PaymentsInv, CaptureNotLost, Settled
<1>3. \A c \in Charges : charges'[c].linked => c \in Recorded'
  BY DEF PaymentsInv, ChargesKnown
<1>4. \A e \in Captures : captures'[e] # "unseen" => CaptureOf[e] \in Recorded'
  BY DEF PaymentsInv, ChargesKnown
<1>5. \A d \in Drafts : drafts'[d].charge \subseteq Recorded'
  BY DEF PaymentsInv, ChargesKnown
<1>6. ASSUME NEW k \in Clerks PROVE Knows(k)'
  BY <1>1 DEF PaymentsInv, ChargesKnown, Knows
<1>7. QED
  BY <1>2, <1>3, <1>4, <1>5, <1>6 DEF ChargesKnown

LEMMA DraftsKept ==
  ASSUME PaymentsInv, drafts' = drafts,
         \A k \in Clerks : \/ clerk'[k] = clerk[k]
                           \/ clerk'[k].draft = {} /\ clerk'[k].doing \notin {"deliver", "sent"}
  PROVE  DraftsInHand'
<1>1. \A j, k \in Clerks, d \in Drafts :
        clerk'[j].draft = {d} /\ clerk'[k].draft = {d} => j = k
  BY DEF PaymentsInv, DraftsInHand, Delivers
<1>2. \A k \in Clerks :
        IF clerk'[k].doing \in {"deliver", "sent"}
        THEN \E d \in Drafts : /\ clerk'[k].draft = {d} /\ drafts[d].status = "approved"
                               /\ drafts[d].events > 0 /\ clerk'[k].charge = drafts[d].charge
        ELSE clerk'[k].draft = {}
  BY DEF PaymentsInv, DraftsInHand, Delivers
<1>3. QED
  BY <1>1, <1>2 DEF PaymentsInv, DraftsInHand, Delivers

(* The receipts stay accounted for as long as no draft is taken off the list. *)
LEMMA ReceiptsKept ==
  ASSUME PaymentsInv, slips' \in Nat, slips' >= slips, receipts' = receipts,
         \A c \in Charges : LeftFor(c) \subseteq LeftFor(c)' /\ ApprovedOf(c) \subseteq ApprovedOf(c)'
  PROVE  ReceiptsCounted'
<1> SUFFICES ASSUME NEW c \in Charges
             PROVE  /\ receipts'[c] <= Cardinality(LeftFor(c))' + slips'
                    /\ receipts'[c] > 0 => ApprovedOf(c)' # {}
  BY DEF ReceiptsCounted
<1>1. IsFiniteSet(LeftFor(c)')
  BY PaymentsAssumption, FS_Subset DEF LeftFor, ApprovedOf
<1>2. /\ Cardinality(LeftFor(c)) <= Cardinality(LeftFor(c)')
      /\ Cardinality(LeftFor(c)) \in Nat /\ Cardinality(LeftFor(c)') \in Nat
  BY <1>1, FS_Subset, FS_CardinalityType
<1>3. receipts[c] <= Cardinality(LeftFor(c)) + slips /\ (receipts[c] > 0 => ApprovedOf(c) # {})
  BY DEF PaymentsInv, ReceiptsCounted
<1>4. receipts[c] \in Nat /\ slips \in Nat
  BY DEF PaymentsInv, PaymentsTypes
<1>5. receipts'[c] <= Cardinality(LeftFor(c)') + slips'
  BY <1>2, <1>3, <1>4
<1>6. QED
  BY <1>3, <1>5

LEMMA NothingSent ==
  ASSUME PaymentsInv, slips' = slips, receipts' = receipts, drafts' = drafts,
         \A k \in Clerks : clerk'[k] = clerk[k] \/ clerk[k].doing # "sent"
  PROVE  ReceiptsCounted'
<1>1. slips' \in Nat /\ slips' >= slips
  BY DEF PaymentsInv, PaymentsTypes
<1>2. ASSUME NEW c \in Charges
      PROVE  LeftFor(c) \subseteq LeftFor(c)' /\ ApprovedOf(c) \subseteq ApprovedOf(c)'
  BY DEF ApprovedOf, LeftFor, Delivers
<1>3. QED
  BY <1>1, <1>2, ReceiptsKept

-----------------------------------------------------------------------------
(* The steps                                                                 *)

(* The number that create_transaction reads is at most the next one.         *)
LEMMA NextNumberIs == PaymentsInv => NextNumber \in 1..Cardinality(Recorded) + 1
<1> SUFFICES ASSUME PaymentsInv PROVE NextNumber \in 1..Cardinality(Recorded) + 1
  OBVIOUS
<1> DEFINE count == Cardinality(Recorded)
<1> DEFINE Fitting(n) == /\ \A c \in Charges : charges[c].seq < n
                         /\ n = 1 \/ \E c \in Charges : charges[c].seq = n - 1
<1>1. count \in Nat /\ count <= Cardinality(Charges) /\ Cardinality(Charges) \in Nat
  BY RecordedFinite
<1>2. \A c \in Charges : charges[c].seq \in 0..count
  <2> SUFFICES ASSUME NEW c \in Charges PROVE charges[c].seq \in 0..count
    OBVIOUS
  <2>1. CASE c \in Recorded  BY <2>1 DEF PaymentsInv, NumbersGapFree
  <2>2. CASE c \notin Recorded
    BY <1>1, <2>2 DEF PaymentsInv, NumbersInHand, Recorded, NoCharge
  <2>3. QED
    BY <2>1, <2>2
<1>3. count + 1 \in 1..Cardinality(Charges) + 1 /\ Fitting(count + 1)
  <2>1. CASE count = 0
    BY <2>1, <1>1, <1>2
  <2>2. CASE count # 0
    <3>1. count \in {charges[c].seq : c \in Recorded}
      BY <1>1, <2>2 DEF PaymentsInv, NumbersGapFree
    <3>2. \E c \in Charges : charges[c].seq = count
      BY <3>1 DEF Recorded
    <3> HIDE DEF count
    <3>3. QED
      BY <3>2, <1>1, <1>2
  <2>3. QED
    BY <2>1, <2>2
<1>4. NextNumber = CHOOSE n \in 1..Cardinality(Charges) + 1 : Fitting(n)
  BY DEF NextNumber
<1> HIDE DEF Fitting, count
<1>5. NextNumber \in 1..Cardinality(Charges) + 1 /\ Fitting(NextNumber)
  BY <1>3, <1>4
<1>6. QED  BY <1>1, <1>2, <1>5 DEF Fitting, count

LEMMA ReadNumberKeeps ==
  ASSUME PaymentsInv, NEW k \in Clerks, NEW c \in Charges, ReadNumber(k, c)
  PROVE  PaymentsInv'
<1> DEFINE new == [Resting EXCEPT !.doing = "create", !.charge = {c}, !.seq = NextNumber]
<1>1. NextNumber \in 1..Cardinality(Recorded) + 1 /\ NextNumber \in Nat
  BY NextNumberIs, RecordedFinite
<1>2. /\ new \in ClerkWork /\ new.doing = "create" /\ new.draft = {}
      /\ new.seq = NextNumber
  BY <1>1 DEF Resting, ClerkWork
<1>3. /\ clerk' = [clerk EXCEPT ![k] = new] /\ clerk[k] = Resting
      /\ UNCHANGED <<charges, captures, drafts, receipts, slips>>
  BY DEF ReadNumber, Put
<1> HIDE DEF new
<1>4. PaymentsTypes'
  BY <1>2, <1>3 DEF PaymentsInv, PaymentsTypes
<1>5. /\ clerk'[k] = new /\ \A j \in Clerks \ {k} : clerk'[j] = clerk[j]
      /\ clerk[k].doing = "nothing"
  BY <1>3 DEF PaymentsInv, PaymentsTypes, Resting
<1>6. Recorded' = Recorded
  BY <1>3 DEF Recorded
<1>7. NumbersInHand' /\ NumbersGapFree'
  BY <1>1, <1>2, <1>3, <1>5, <1>6 DEF PaymentsInv, NumbersInHand, NoCharge, NumbersGapFree
<1>8. ChargesKnown' /\ CaptureNotLost'
  BY <1>2, <1>3, <1>5, <1>6, KnownKept DEF Settled, Knows
<1>9. DraftsInHand'
  BY <1>2, <1>3, <1>5, DraftsKept
<1>10. ReceiptsCounted'
  BY <1>3, <1>5, NothingSent
<1>11. QED
  BY <1>4, <1>7, <1>8, <1>9, <1>10 DEF PaymentsInv

LEMMA InsertChargeKeeps ==
  ASSUME PaymentsInv, NEW k \in Clerks, NEW c \in Charges, InsertCharge(k, c)
  PROVE  PaymentsInv'
<1> DEFINE n == clerk[k].seq
<1> DEFINE row == [status |-> "created", linked |-> FALSE, seq |-> n]
<1> DEFINE count == Cardinality(Recorded)
<1>1. /\ clerk' = [clerk EXCEPT ![k] = Resting] /\ clerk[k].doing = "create"
      /\ UNCHANGED <<captures, drafts, receipts, slips>>
      /\ n \in 1..count + 1 /\ n \in Nat /\ count \in Nat
  BY RecordedFinite DEF InsertCharge, Put, PaymentsInv, NumbersInHand, PaymentsTypes, ClerkWork
<1>2. row \in ChargeRow
  BY <1>1 DEF ChargeRow
<1>3. \/ charges' = charges
      \/ charges' = [charges EXCEPT ![c] = row] /\ charges[c] = NoCharge /\ FreshNumber(n)
  BY DEF InsertCharge
<1>4. PaymentsTypes'
  BY <1>1, <1>2, <1>3, RestingIsWork DEF PaymentsInv, PaymentsTypes
<1>5. /\ clerk'[k] = Resting /\ \A j \in Clerks \ {k} : clerk'[j] = clerk[j]
      /\ Resting.doing = "nothing" /\ Resting.draft = {}
  BY <1>1 DEF PaymentsInv, PaymentsTypes, Resting
<1>6. Recorded \subseteq Recorded' /\ \A a \in Charges : Settled(a) => Settled(a)'
  BY <1>3 DEF Recorded, Settled, NoCharge, PaymentsInv, PaymentsTypes
<1>7. NumbersInHand' /\ NumbersGapFree'
  <2>1. CASE charges' = charges
    BY <2>1, <1>4, <1>5, NumbersKept DEF PaymentsTypes
  <2>2. CASE charges' = [charges EXCEPT ![c] = row] /\ charges[c] = NoCharge /\ FreshNumber(n)
    <3>1. c \notin Recorded /\ Recorded' = Recorded \cup {c}
      BY <2>2 DEF Recorded, NoCharge, PaymentsInv, PaymentsTypes
    <3>2. Cardinality(Recorded)' = count + 1
      BY <3>1, RecordedFinite, FS_AddElement
    <3>3. {charges[a].seq : a \in Recorded}' = {charges[a].seq : a \in Recorded} \cup {n}
      BY <2>2, <3>1 DEF Recorded, PaymentsInv, PaymentsTypes
    <3>4. {charges[a].seq : a \in Recorded} = 1..count
      BY DEF PaymentsInv, NumbersGapFree
    <3>5. n \notin {charges[a].seq : a \in Recorded}
      BY <2>2 DEF FreshNumber
    <3>6. n = count + 1
      <4>1. n \notin 1..count
        BY <3>4, <3>5
      <4> HIDE DEF n, count
      <4>2. QED
        BY <1>1, <4>1
    <3>7. (1..count) \cup {n} = 1..count + 1
      <4> HIDE DEF n, count
      <4>1. QED
        BY <1>1, <3>6
    <3>8. NumbersGapFree'
      BY <3>2, <3>3, <3>4, <3>7 DEF NumbersGapFree
    <3>9. \A a \in Charges : charges'[a].status = "none" => charges'[a] = NoCharge
      BY <2>2 DEF PaymentsInv, PaymentsTypes, NumbersInHand
    <3>10. \A j \in Clerks : clerk'[j].doing = "create" => clerk'[j].seq \in 1..count + 1 + 1
      <4>1. \A j \in Clerks : clerk[j].doing = "create" => clerk[j].seq \in 1..count + 1
        BY DEF PaymentsInv, NumbersInHand
      <4> HIDE DEF count
      <4>2. QED
        BY <4>1, <1>1, <1>5
    <3>11. QED
      BY <3>2, <3>8, <3>9, <3>10 DEF NumbersInHand
  <2>3. QED
    BY <1>3, <2>1, <2>2
<1>8. ChargesKnown' /\ CaptureNotLost'
  BY <1>1, <1>3, <1>5, <1>6, KnownKept DEF PaymentsInv, PaymentsTypes, Knows
<1>9. DraftsInHand'
  BY <1>1, <1>5, DraftsKept
<1>10. ReceiptsCounted'
  BY <1>1, <1>5, NothingSent
<1>11. QED
  BY <1>4, <1>7, <1>8, <1>9, <1>10 DEF PaymentsInv

(* A clerk reads a charge, whatever for but to deliver its receipt.          *)
LEMMA ReadingKeeps ==
  ASSUME PaymentsInv, NEW k \in Clerks, NEW new \in ClerkWork,
         clerk' = [clerk EXCEPT ![k] = new], clerk[k] = Resting,
         UNCHANGED <<charges, captures, drafts, receipts, slips>>,
         new.draft = {}, new.doing \notin {"create", "deliver", "sent"}, Knows(k)'
  PROVE  PaymentsInv'
<1>1. PaymentsTypes'
  BY DEF PaymentsInv, PaymentsTypes
<1>2. /\ clerk'[k] = new /\ \A j \in Clerks \ {k} : clerk'[j] = clerk[j]
      /\ clerk[k].doing = "nothing"
  BY DEF PaymentsInv, PaymentsTypes, Resting
<1>3. NumbersInHand' /\ NumbersGapFree' /\ Recorded' = Recorded
  BY <1>1, <1>2, NumbersKept DEF PaymentsTypes
<1>4. ChargesKnown' /\ CaptureNotLost'  BY <1>2, <1>3, KnownKept DEF Settled
<1>5. DraftsInHand'
  BY <1>2, DraftsKept
<1>6. ReceiptsCounted'
  BY <1>2, NothingSent
<1>7. QED
  BY <1>1, <1>3, <1>4, <1>5, <1>6 DEF PaymentsInv

LEMMA ReadersKeep ==
  ASSUME PaymentsInv, NEW k \in Clerks, NEW c \in Charges, AskForLink(k, c) \/ ReadForReceipt(k, c)
  PROVE  PaymentsInv'
<1>1. CASE AskForLink(k, c)
  <2> DEFINE new == [Resting EXCEPT !.doing = "link", !.charge = {c}]
  <2>1. new \in ClerkWork /\ new.draft = {} /\ new.doing = "link" /\ new.charge = {c}
    BY DEF Resting, ClerkWork
  <2>2. /\ clerk' = [clerk EXCEPT ![k] = new] /\ clerk[k] = Resting
        /\ UNCHANGED <<charges, captures, drafts, receipts, slips>> /\ c \in Recorded
    BY <1>1 DEF AskForLink, Put, Recorded
  <2> HIDE DEF new
  <2>3. Knows(k)'
    BY <2>1, <2>2 DEF Knows, Recorded, PaymentsInv, PaymentsTypes
  <2>4. QED
    BY <2>1, <2>2, <2>3, ReadingKeeps
<1>2. CASE ReadForReceipt(k, c)
  <2> DEFINE new == [Resting EXCEPT !.doing = "request", !.charge = {c}, !.read = charges[c].status]
  <2>1. charges[c].status \in {"none", "created", "paid", "receipted"}
    BY DEF PaymentsInv, PaymentsTypes, ChargeRow
  <2>2. new \in ClerkWork /\ new.draft = {} /\ new.doing = "request" /\ new.charge = {c}
    BY <2>1 DEF Resting, ClerkWork
  <2>3. /\ clerk' = [clerk EXCEPT ![k] = new] /\ clerk[k] = Resting
        /\ UNCHANGED <<charges, captures, drafts, receipts, slips>> /\ c \in Recorded
    BY <1>2 DEF ReadForReceipt, Put, Recorded
  <2> HIDE DEF new
  <2>4. Knows(k)'
    BY <2>2, <2>3 DEF Knows, Recorded, PaymentsInv, PaymentsTypes
  <2>5. QED
    BY <2>2, <2>3, <2>4, ReadingKeeps
<1>3. QED
  BY <1>1, <1>2

(* _confirm_one reads the charge of an event that is stored.                 *)
LEMMA ReadCaptureKeeps ==
  ASSUME PaymentsInv, NEW k \in Clerks, NEW e \in Captures, ReadCapture(k, e)
  PROVE  PaymentsInv'
<1>1. CaptureOf[e] \in Charges
  BY PaymentsAssumption
<1> DEFINE a == CaptureOf[e]
<1> DEFINE new == [Resting EXCEPT !.doing = "confirm", !.charge = {a}, !.capture = {e},
                                  !.read = charges[a].status]
<1>2. charges[a].status \in {"none", "created", "paid", "receipted"}
  BY <1>1 DEF PaymentsInv, PaymentsTypes, ChargeRow
<1>3. /\ new \in ClerkWork /\ new.draft = {} /\ new.doing = "confirm" /\ new.charge = {a}
      /\ new.capture = {e} /\ new.read = charges[a].status
  BY <1>1, <1>2 DEF Resting, ClerkWork
<1>4. /\ clerk' = [clerk EXCEPT ![k] = new] /\ clerk[k] = Resting
      /\ UNCHANGED <<charges, captures, drafts, receipts, slips>> /\ a \in Recorded
  BY DEF ReadCapture, Put, PaymentsInv, ChargesKnown
<1>5. clerk'[k] = new
  BY <1>4 DEF PaymentsInv, PaymentsTypes
<1>6. Recorded' = Recorded /\ (Settled(a)' <=> Settled(a))
  BY <1>4 DEF Recorded, Settled
<1>7. Settled(a) <=> charges[a].status \notin {"none", "created"}
  BY <1>2 DEF Settled
<1>8. charges[a].status # "none"
  BY <1>4 DEF Recorded
<1> HIDE DEF new
<1>9. ASSUME NEW f \in Captures, clerk'[k].capture = {f} PROVE f = e
  BY <1>3, <1>5, <1>9
<1>10. Knows(k)'
  BY <1>3, <1>4, <1>5, <1>6, <1>7, <1>8, <1>9 DEF Knows
<1>11. QED
  BY <1>3, <1>4, <1>10, ReadingKeeps

LEMMA PostCaptureKeeps ==
  ASSUME PaymentsInv, NEW e \in Captures, PostCapture(e)
  PROVE  PaymentsInv'
<1>1. /\ charges[CaptureOf[e]].linked /\ CaptureOf[e] \in Charges
      /\ captures' = [captures EXCEPT ![e] = "stored"]
      /\ UNCHANGED <<charges, drafts, receipts, clerk, slips>>
  BY PaymentsAssumption DEF PostCapture
<1>2. PaymentsTypes'
  BY <1>1 DEF PaymentsInv, PaymentsTypes
<1>3. NumbersInHand' /\ NumbersGapFree' /\ Recorded' = Recorded
  BY <1>1, <1>2, NumbersKept DEF PaymentsTypes
<1>4. CaptureOf[e] \in Recorded
  BY <1>1 DEF PaymentsInv, ChargesKnown
<1>5. ChargesKnown' /\ CaptureNotLost'
  BY <1>1, <1>3, <1>4, KnownKept DEF Settled, PaymentsInv, PaymentsTypes
<1>6. DraftsInHand'
  BY <1>1, DraftsKept
<1>7. ReceiptsCounted'
  BY <1>1, NothingSent
<1>8. QED
  BY <1>2, <1>3, <1>5, <1>6, <1>7 DEF PaymentsInv

LEMMA KeepLinkKeeps ==
  ASSUME PaymentsInv, NEW k \in Clerks, NEW c \in Charges, KeepLink(k, c)
  PROVE  PaymentsInv'
<1>1. /\ clerk[k].doing = "link" /\ clerk[k].charge = {c}
      /\ charges' = [charges EXCEPT ![c].linked = TRUE]
      /\ clerk' = [clerk EXCEPT ![k] = Resting]
      /\ UNCHANGED <<captures, drafts, receipts, slips>>
  BY DEF KeepLink, Put
<1>2. charges[c] \in ChargeRow /\ c \in Recorded
  BY <1>1 DEF PaymentsInv, PaymentsTypes, ChargesKnown, Knows
<1>3. /\ charges'[c] \in ChargeRow /\ charges'[c].status = charges[c].status
      /\ charges'[c].seq = charges[c].seq /\ charges'[c].linked
      /\ \A a \in Charges \ {c} : charges'[a] = charges[a]
  BY <1>1, <1>2 DEF PaymentsInv, PaymentsTypes, ChargeRow
<1>4. charges' \in [Charges -> ChargeRow]
  BY <1>1, <1>2, <1>3 DEF PaymentsInv, PaymentsTypes, ChargeRow
<1>5. PaymentsTypes'
  BY <1>1, <1>4, RestingIsWork DEF PaymentsInv, PaymentsTypes
<1>6. /\ clerk'[k] = Resting /\ \A j \in Clerks \ {k} : clerk'[j] = clerk[j]
      /\ Resting.doing = "nothing" /\ Resting.draft = {}
  BY <1>1 DEF PaymentsInv, PaymentsTypes, Resting
<1>7. NumbersInHand' /\ NumbersGapFree' /\ Recorded' = Recorded
  BY <1>2, <1>3, <1>4, <1>6, NumbersKept DEF Recorded
<1>8. ChargesKnown' /\ CaptureNotLost'
  BY <1>1, <1>2, <1>3, <1>6, <1>7, KnownKept DEF Settled, Knows
<1>9. DraftsInHand'
  BY <1>1, <1>6, DraftsKept
<1>10. ReceiptsCounted'
  BY <1>1, <1>6, NothingSent
<1>11. QED
  BY <1>5, <1>7, <1>8, <1>9, <1>10 DEF PaymentsInv

(* A charge is confirmed: it is paid unless it was receipted meanwhile, and a *)
(* receipt is asked for (mark_paid_and_request_receipt); or nothing is.      *)
LEMMA ConfirmingKeeps ==
  ASSUME PaymentsInv, NEW k \in Clerks, NEW c \in Recorded,
         clerk[k].doing \notin {"deliver", "sent"}, clerk' = [clerk EXCEPT ![k] = Resting],
         (MarkPaid(c) /\ Draft(c)) \/ UNCHANGED <<charges, drafts>>,
         UNCHANGED <<receipts, slips>>,
         captures' \in [Captures -> {"unseen", "stored", "processed"}],
         \A e \in Captures : captures'[e] # "unseen" =>
                               captures[e] # "unseen" \/ CaptureOf[e] \in Recorded,
         \A e \in Captures : captures'[e] = "processed" =>
                               captures[e] = "processed" \/ Settled(CaptureOf[e])'
  PROVE  PaymentsInv'
<1>1. c \in Charges /\ charges[c] \in ChargeRow /\ charges[c].status # "none"
  BY DEF Recorded, PaymentsInv, PaymentsTypes
<1>2. \A a \in Charges : /\ charges'[a] \in ChargeRow /\ charges'[a].seq = charges[a].seq
                         /\ charges'[a].linked = charges[a].linked
                         /\ a # c => charges'[a] = charges[a]
                         /\ charges[a].status # "none" => charges'[a].status # "none"
                         /\ Settled(a) => Settled(a)'
  <2>1. CASE UNCHANGED <<charges, drafts>>
    BY <2>1 DEF PaymentsInv, PaymentsTypes, Settled
  <2>2. CASE MarkPaid(c)
    <3> DEFINE status == IF charges[c].status = "receipted" THEN charges[c].status ELSE "paid"
    <3>1. charges' = [charges EXCEPT ![c].status = status]
      BY <2>2 DEF MarkPaid
    <3>2. status \in {"receipted", "paid"}
      OBVIOUS
    <3> HIDE DEF status
    <3>3. /\ charges'[c] \in ChargeRow /\ charges'[c].seq = charges[c].seq
          /\ charges'[c].linked = charges[c].linked /\ charges'[c].status = status
          /\ \A a \in Charges \ {c} : charges'[a] = charges[a]
      BY <1>1, <3>1, <3>2 DEF PaymentsInv, PaymentsTypes, ChargeRow
    <3>4. QED
      BY <1>1, <3>2, <3>3 DEF Settled, PaymentsInv, PaymentsTypes
  <2>3. QED
    BY <2>1, <2>2
<1>3. charges' \in [Charges -> ChargeRow]
  BY <1>1, <1>2 DEF MarkPaid, PaymentsInv, PaymentsTypes
<1>4. /\ clerk'[k] = Resting /\ \A j \in Clerks \ {k} : clerk'[j] = clerk[j]
      /\ Resting.doing = "nothing" /\ Resting.draft = {}
  BY DEF PaymentsInv, PaymentsTypes, Resting
<1>5. NumbersInHand' /\ NumbersGapFree' /\ Recorded' = Recorded
  BY <1>1, <1>2, <1>3, <1>4, NumbersKept
<1>6. drafts' = drafts \/ \E d \in Drafts :
        /\ drafts[d] = NoDraft
        /\ drafts' = [drafts EXCEPT ![d] = [status |-> "pending", charge |-> {c}, events |-> 0]]
  BY DEF Draft
<1>7. /\ drafts' \in [Drafts -> DraftRow]
      /\ \A b \in Drafts : drafts'[b] = drafts[b] \/ (/\ drafts[b] = NoDraft /\ drafts'[b].events = 0
                                                     /\ drafts'[b].charge = {c}
                                                     /\ drafts'[b].status = "pending")
      /\ NoDraft.status = "none"
  BY <1>1, <1>6 DEF PaymentsInv, PaymentsTypes, DraftRow, NoDraft
<1>8. PaymentsTypes'
  BY <1>3, <1>7, RestingIsWork DEF PaymentsInv, PaymentsTypes
<1>9. ChargesKnown' /\ CaptureNotLost'  BY <1>2, <1>4, <1>5, <1>7, KnownKept DEF Knows
<1>10. DraftsInHand'  BY <1>1, <1>4, <1>7 DEF PaymentsInv, DraftsInHand, Delivers
<1>11. ReceiptsCounted'
  BY <1>4, <1>7, ReceiptsKept DEF PaymentsInv, PaymentsTypes, ApprovedOf, LeftFor, Delivers
<1>12. QED
  BY <1>5, <1>8, <1>9, <1>10, <1>11 DEF PaymentsInv

LEMMA ConfirmersKeep ==
  ASSUME PaymentsInv, NEW k \in Clerks, NEW c \in Charges,
         RequestReceipt(k, c) \/ ConfirmCapture(k, c)
  PROVE  PaymentsInv'
<1>1. CASE RequestReceipt(k, c)
  BY <1>1, ConfirmingKeeps DEF RequestReceipt, PaymentsInv, ChargesKnown, Knows,
     PaymentsTypes, Put
<1>2. CASE ConfirmCapture(k, c)
  <2>1. c \in Recorded /\ charges[c] \in ChargeRow
    BY <1>2 DEF ConfirmCapture, PaymentsInv, ChargesKnown, Knows, PaymentsTypes
  <2>2. captures' \in [Captures -> {"unseen", "stored", "processed"}]
    BY <1>2 DEF ConfirmCapture, PaymentsInv, PaymentsTypes
  <2>3. (MarkPaid(c) /\ Draft(c)) \/ UNCHANGED <<charges, drafts>>
    BY <1>2 DEF ConfirmCapture
  <2>4. \A e \in Captures : captures'[e] # captures[e] => clerk[k].capture = {e}
    BY <1>2 DEF ConfirmCapture
  <2>5. Unpaid(k) => Settled(c)'
    BY <1>2, <2>1 DEF MarkPaid, PaymentsInv, PaymentsTypes, ChargeRow, ConfirmCapture, Settled
  <2>6. ASSUME NEW e \in Captures, clerk[k].capture = {e}
        PROVE  CaptureOf[e] = c /\ Settled(c)'
    BY <1>2, <2>5, <2>6 DEF ConfirmCapture, PaymentsInv, ChargesKnown, Knows, Unpaid, Settled
  <2>7. \A e \in Captures : captures'[e] # "unseen" => captures[e] # "unseen" \/ CaptureOf[e] \in Recorded
    BY <2>1, <2>4, <2>6
  <2>8. \A e \in Captures : captures'[e] = "processed" =>
                              captures[e] = "processed" \/ Settled(CaptureOf[e])'
    BY <2>4, <2>6
  <2>9. /\ clerk[k].doing \notin {"deliver", "sent"} /\ clerk' = [clerk EXCEPT ![k] = Resting]
        /\ UNCHANGED <<receipts, slips>>
    BY <1>2 DEF ConfirmCapture, Put
  <2>10. QED
    BY <2>1, <2>2, <2>3, <2>7, <2>8, <2>9, ConfirmingKeeps
<1>3. QED
  BY <1>1, <1>2

LEMMA ResolveDraftKeeps ==
  ASSUME PaymentsInv, NEW d \in Drafts, ResolveDraft(d)
  PROVE  PaymentsInv'
<1>1. PICK verdict \in {"approved", "rejected"} :
        drafts' = [drafts EXCEPT ![d].status = verdict, ![d].events = 1]
  BY DEF ResolveDraft
<1>2. drafts[d] \in DraftRow /\ drafts[d].status = "pending"
      /\ UNCHANGED <<charges, captures, receipts, clerk, slips>>
  BY DEF ResolveDraft, PaymentsInv, PaymentsTypes
<1>3. /\ drafts'[d] \in DraftRow /\ drafts'[d].status = verdict /\ drafts'[d].events = 1
      /\ drafts'[d].charge = drafts[d].charge
      /\ \A b \in Drafts \ {d} : drafts'[b] = drafts[b]
  BY <1>1, <1>2 DEF PaymentsInv, PaymentsTypes, DraftRow
<1>4. drafts' \in [Drafts -> DraftRow]
  BY <1>1, <1>2, <1>3 DEF PaymentsInv, PaymentsTypes, DraftRow
<1>5. PaymentsTypes'
  BY <1>2, <1>4 DEF PaymentsInv, PaymentsTypes
<1>6. NumbersInHand' /\ NumbersGapFree' /\ Recorded' = Recorded
  BY <1>2, <1>5, NumbersKept DEF PaymentsTypes
<1>7. ChargesKnown' /\ CaptureNotLost'  BY <1>2, <1>3, <1>6, KnownKept DEF Settled
<1>8. DraftsInHand'
  <2>1. \E a \in Charges : drafts[d].charge = {a}
    BY <1>2 DEF PaymentsInv, DraftsInHand, NoDraft
  <2>2. \A b \in Drafts :
          drafts'[b] = NoDraft \/ (drafts'[b].status # "none" /\ \E a \in Charges : drafts'[b].charge = {a})
    BY <1>1, <1>3, <2>1 DEF PaymentsInv, DraftsInHand
  <2>3. \A b \in Drafts : drafts'[b].events > 0 => drafts'[b].status \notin {"none", "pending"}
    BY <1>1, <1>3 DEF PaymentsInv, DraftsInHand
  <2>4. \A j \in Clerks :
          IF clerk[j].doing \in {"deliver", "sent"}
          THEN \E b \in Drafts : /\ clerk[j].draft = {b} /\ drafts'[b].status = "approved"
                                 /\ drafts'[b].events > 0 /\ clerk[j].charge = drafts'[b].charge
          ELSE clerk[j].draft = {}
    BY <1>2, <1>3 DEF PaymentsInv, DraftsInHand, Delivers
  <2>5. QED
    BY <1>2, <2>2, <2>3, <2>4 DEF PaymentsInv, DraftsInHand, Delivers
<1>9. ReceiptsCounted'
  BY <1>2, <1>3, ReceiptsKept DEF PaymentsInv, PaymentsTypes, ApprovedOf, LeftFor, Delivers
<1>10. QED
  BY <1>5, <1>6, <1>7, <1>8, <1>9 DEF PaymentsInv

LEMMA ReadForDeliveryKeeps ==
  ASSUME PaymentsInv, NEW k \in Clerks, NEW d \in Drafts, ReadForDelivery(k, d)
  PROVE  PaymentsInv'
<1> DEFINE states == {charges[c].status : c \in drafts[d].charge}
<1> DEFINE seen == CHOOSE s \in states : TRUE
<1> DEFINE new == [Resting EXCEPT !.doing = "deliver", !.charge = drafts[d].charge,
                                  !.draft = {d}, !.read = seen]
<1>1. /\ drafts[d].events > 0 /\ drafts[d].status = "approved" /\ clerk[k] = Resting
      /\ \A other \in Clerks : clerk[other].draft # {d}
      /\ UNCHANGED <<charges, captures, drafts, receipts, slips>>
      /\ clerk' = [clerk EXCEPT ![k] = new]
  BY DEF ReadForDelivery, Released, Put
<1>2. PICK c \in Charges : drafts[d].charge = {c}
  BY <1>1 DEF PaymentsInv, DraftsInHand, NoDraft
<1>3. seen \in {"none", "created", "paid", "receipted"}
  <2>1. states # {} /\ states \subseteq {"none", "created", "paid", "receipted"}
    BY <1>2 DEF PaymentsInv, PaymentsTypes, ChargeRow
  <2> HIDE DEF states
  <2>2. QED
    BY <2>1
<1> HIDE DEF seen
<1>4. /\ new \in ClerkWork /\ new.doing = "deliver" /\ new.charge = drafts[d].charge
      /\ new.draft = {d}
  BY <1>2, <1>3 DEF Resting, ClerkWork
<1> HIDE DEF new
<1>5. PaymentsTypes'
  BY <1>1, <1>4 DEF PaymentsInv, PaymentsTypes
<1>6. /\ clerk'[k] = new /\ \A j \in Clerks \ {k} : clerk'[j] = clerk[j]
      /\ clerk[k].doing = "nothing"
  BY <1>1 DEF PaymentsInv, PaymentsTypes, Resting
<1>7. NumbersInHand' /\ NumbersGapFree' /\ Recorded' = Recorded
  BY <1>1, <1>4, <1>5, <1>6, NumbersKept DEF PaymentsTypes
<1>8. ChargesKnown' /\ CaptureNotLost'
  BY <1>1, <1>4, <1>6, <1>7, KnownKept DEF Settled, PaymentsInv, ChargesKnown, Knows
<1>9. DraftsInHand'  BY <1>1, <1>4, <1>6 DEF PaymentsInv, DraftsInHand, Delivers
<1>10. ReceiptsCounted'
  BY <1>1, <1>6, NothingSent
<1>11. QED
  BY <1>5, <1>7, <1>8, <1>9, <1>10 DEF PaymentsInv

(* deliver_receipt: the copy left for a draft it had not left for before.    *)
LEMMA SendReceiptKeeps ==
  ASSUME PaymentsInv, NEW k \in Clerks, NEW c \in Charges, SendReceipt(k, c)
  PROVE  PaymentsInv'
<1> DEFINE new == [clerk[k] EXCEPT !.doing = "sent"]
<1>1. /\ clerk[k].doing = "deliver" /\ clerk[k].charge = {c} /\ clerk[k] \in ClerkWork
      /\ receipts' = [receipts EXCEPT ![c] = @ + 1]
      /\ clerk' = [clerk EXCEPT ![k] = new]
      /\ UNCHANGED <<charges, captures, drafts, slips>>
  BY DEF SendReceipt, PaymentsInv, PaymentsTypes
<1>2. /\ new \in ClerkWork /\ new.doing = "sent" /\ new.charge = clerk[k].charge
      /\ new.draft = clerk[k].draft
  BY <1>1 DEF ClerkWork
<1> HIDE DEF new
<1>3. clerk'[k] = new /\ \A j \in Clerks \ {k} : clerk'[j] = clerk[j]
  BY <1>1 DEF PaymentsInv, PaymentsTypes
<1>4. PaymentsTypes'
  BY <1>1, <1>2 DEF PaymentsInv, PaymentsTypes
<1>5. NumbersInHand' /\ NumbersGapFree' /\ Recorded' = Recorded
  BY <1>1, <1>2, <1>3, <1>4, NumbersKept DEF PaymentsTypes
<1>6. ChargesKnown' /\ CaptureNotLost'
  BY <1>1, <1>2, <1>3, <1>5, KnownKept DEF Settled, Knows, PaymentsInv, ChargesKnown
<1>7. PICK d \in Drafts : /\ clerk[k].draft = {d} /\ drafts[d].status = "approved"
                          /\ drafts[d].events > 0 /\ clerk[k].charge = drafts[d].charge
  BY <1>1 DEF PaymentsInv, DraftsInHand, Delivers
<1>8. \A j \in Clerks : clerk'[j].draft = clerk[j].draft
  BY <1>2, <1>3
<1>9. DraftsInHand'
  <2>1. \A j \in Clerks :
          IF clerk'[j].doing \in {"deliver", "sent"}
          THEN \E b \in Drafts : /\ clerk'[j].draft = {b} /\ drafts[b].status = "approved"
                                 /\ drafts[b].events > 0 /\ clerk'[j].charge = drafts[b].charge
          ELSE clerk'[j].draft = {}
    BY <1>2, <1>3, <1>7 DEF PaymentsInv, DraftsInHand, Delivers
  <2>2. QED
    BY <1>1, <1>8, <2>1 DEF PaymentsInv, DraftsInHand, Delivers
<1>10. ReceiptsCounted'
  <2>1. \A a \in Charges : ApprovedOf(a)' = ApprovedOf(a)
    BY <1>1 DEF ApprovedOf
  <2>2. ASSUME NEW a \in Charges, NEW b \in LeftFor(a) PROVE b \in LeftFor(a)'
    BY <1>1, <1>3, <2>1, <2>2 DEF LeftFor, Delivers
  <2>3. d \in ApprovedOf(c) /\ d \in LeftFor(c)'
    BY <1>1, <1>2, <1>3, <1>7, <2>1 DEF ApprovedOf, LeftFor, Delivers
  <2>4. d \notin LeftFor(c)
    BY <1>1, <1>7 DEF PaymentsInv, PaymentsTypes, DraftRow, DraftsInHand, Delivers, LeftFor
  <2>5. \A a \in Charges : IsFiniteSet(LeftFor(a)) /\ IsFiniteSet(LeftFor(a)')
    BY PaymentsAssumption, FS_Subset DEF LeftFor, ApprovedOf
  <2>6. \A a \in Charges :
          /\ Cardinality(LeftFor(a)) <= Cardinality(LeftFor(a)')
          /\ Cardinality(LeftFor(a)) \in Nat /\ Cardinality(LeftFor(a)') \in Nat
    BY <2>2, <2>5, FS_Subset, FS_CardinalityType
  <2>7. Cardinality(LeftFor(c) \cup {d}) = Cardinality(LeftFor(c)) + 1
    BY <2>4, <2>5, FS_AddElement
  <2>8. LeftFor(c) \cup {d} \subseteq LeftFor(c)'
    BY <2>2, <2>3
  <2>9. Cardinality(LeftFor(c)) + 1 <= Cardinality(LeftFor(c)')
    BY <2>5, <2>7, <2>8, FS_Subset
  <2>10. \A a \in Charges : receipts[a] \in Nat /\ receipts[a] <= Cardinality(LeftFor(a)) + slips
                            /\ (receipts[a] > 0 => ApprovedOf(a) # {})
    BY DEF PaymentsInv, PaymentsTypes, ReceiptsCounted
  <2>11. receipts'[c] = receipts[c] + 1 /\ \A a \in Charges \ {c} : receipts'[a] = receipts[a]
    BY <1>1 DEF PaymentsInv, PaymentsTypes
  <2>12. slips \in Nat /\ slips' = slips
    BY <1>1 DEF PaymentsInv, PaymentsTypes
  <2>13. ASSUME NEW a \in Charges
         PROVE  receipts'[a] <= Cardinality(LeftFor(a)') + slips'
    BY <2>6, <2>9, <2>10, <2>11, <2>12
  <2>14. \A a \in Charges : receipts'[a] > 0 => ApprovedOf(a)' # {}
    BY <2>1, <2>3, <2>10, <2>11
  <2>15. QED
    BY <2>13, <2>14 DEF ReceiptsCounted
<1>11. QED
  BY <1>4, <1>5, <1>6, <1>9, <1>10 DEF PaymentsInv

(* The delivery is done with: the charge is receipted, now or before.        *)
LEMMA MarkReceiptedKeeps ==
  ASSUME PaymentsInv, NEW k \in Clerks, NEW c \in Charges, MarkReceipted(k, c)
  PROVE  PaymentsInv'
<1>1. /\ clerk[k].doing \in {"deliver", "sent"} /\ clerk[k].charge = {c}
      /\ charges' = [charges EXCEPT ![c].status = "receipted"] \/ charges' = charges
      /\ drafts' = [d \in Drafts |-> IF clerk[k].draft = {d} THEN [drafts[d] EXCEPT !.events = 0]
                                     ELSE drafts[d]]
      /\ clerk' = [clerk EXCEPT ![k] = Resting]
      /\ UNCHANGED <<captures, receipts, slips>>
  BY DEF MarkReceipted, Put
<1>2. charges[c] \in ChargeRow /\ c \in Recorded
  BY <1>1 DEF PaymentsInv, PaymentsTypes, ChargesKnown, Knows
<1>3. \A a \in Charges : /\ charges'[a] \in ChargeRow /\ charges'[a].seq = charges[a].seq
                         /\ charges'[a].linked = charges[a].linked
                         /\ a # c => charges'[a] = charges[a]
                         /\ charges[a].status # "none" => charges'[a].status # "none"
                         /\ Settled(a) => Settled(a)'
  BY <1>1, <1>2 DEF PaymentsInv, PaymentsTypes, Settled, ChargeRow
<1>4. charges' \in [Charges -> ChargeRow]  BY <1>1, <1>3 DEF PaymentsInv, PaymentsTypes
<1>5. /\ clerk'[k] = Resting /\ \A j \in Clerks \ {k} : clerk'[j] = clerk[j]
      /\ Resting.doing = "nothing" /\ Resting.draft = {}
  BY <1>1 DEF PaymentsInv, PaymentsTypes, Resting
<1>6. NumbersInHand' /\ NumbersGapFree' /\ Recorded' = Recorded
  BY <1>2, <1>3, <1>4, <1>5, NumbersKept DEF Recorded
<1>7. \A b \in Drafts :
        /\ drafts'[b] \in DraftRow /\ drafts'[b].status = drafts[b].status
        /\ drafts'[b].charge = drafts[b].charge
        /\ drafts'[b] = drafts[b] \/ drafts'[b].events = 0
        /\ clerk[k].draft = {b} => drafts'[b].events = 0
        /\ clerk[k].draft # {b} => drafts'[b] = drafts[b]
  BY <1>1 DEF PaymentsInv, PaymentsTypes, DraftRow
<1>8. PaymentsTypes'  BY <1>1, <1>4, <1>7, RestingIsWork DEF PaymentsInv, PaymentsTypes
<1>9. ChargesKnown' /\ CaptureNotLost'  BY <1>1, <1>3, <1>5, <1>6, <1>7, KnownKept DEF Knows
<1>10. DraftsInHand'  BY <1>1, <1>5, <1>7 DEF PaymentsInv, DraftsInHand, Delivers, NoDraft
<1>11. ReceiptsCounted'
  BY <1>1, <1>5, <1>7, ReceiptsKept DEF PaymentsInv, PaymentsTypes, ApprovedOf, LeftFor,
     Delivers
<1>12. QED
  BY <1>6, <1>8, <1>9, <1>10, <1>11 DEF PaymentsInv

(* A clerk that dies takes at most one draft off the list, and is counted.   *)
LEMMA ClerkDiesKeeps ==
  ASSUME PaymentsInv, NEW k \in Clerks, ClerkDies(k)
  PROVE  PaymentsInv'
<1>1. /\ clerk' = [clerk EXCEPT ![k] = Resting] /\ slips' = slips + 1
      /\ UNCHANGED <<charges, captures, drafts, receipts>>
  BY DEF ClerkDies, Put
<1>2. /\ clerk'[k] = Resting /\ \A j \in Clerks \ {k} : clerk'[j] = clerk[j]
      /\ Resting.doing = "nothing" /\ Resting.draft = {}
  BY <1>1 DEF PaymentsInv, PaymentsTypes, Resting
<1>3. PaymentsTypes'
  BY <1>1, RestingIsWork DEF PaymentsInv, PaymentsTypes
<1>4. NumbersInHand' /\ NumbersGapFree' /\ Recorded' = Recorded
  BY <1>1, <1>2, <1>3, NumbersKept DEF PaymentsTypes
<1>5. ChargesKnown' /\ CaptureNotLost'  BY <1>1, <1>2, <1>4, KnownKept DEF Settled, Knows
<1>6. DraftsInHand'
  BY <1>1, <1>2, DraftsKept
<1>7. ReceiptsCounted'
  <2> SUFFICES ASSUME NEW c \in Charges
               PROVE  /\ receipts'[c] <= Cardinality(LeftFor(c)') + slips'
                      /\ receipts'[c] > 0 => ApprovedOf(c)' # {}
    BY DEF ReceiptsCounted
  <2>1. ApprovedOf(c)' = ApprovedOf(c)
    BY <1>1 DEF ApprovedOf
  <2>2. PICK d : \A b : Delivers(k, b) => b = d
    BY DEF Delivers
  <2>3. LeftFor(c) \ {d} \subseteq LeftFor(c)'
    BY <1>1, <1>2, <2>1, <2>2 DEF LeftFor, Delivers
  <2>4. IsFiniteSet(LeftFor(c)) /\ IsFiniteSet(LeftFor(c)') /\ IsFiniteSet(LeftFor(c) \ {d})
    BY PaymentsAssumption, FS_Subset DEF LeftFor, ApprovedOf
  <2>5. /\ Cardinality(LeftFor(c)) \in Nat /\ Cardinality(LeftFor(c)') \in Nat
        /\ Cardinality(LeftFor(c) \ {d}) \in Nat
    BY <2>4, FS_CardinalityType
  <2>6. Cardinality(LeftFor(c) \ {d}) <= Cardinality(LeftFor(c)')
    BY <2>3, <2>4, FS_Subset
  <2>7. Cardinality(LeftFor(c)) <= Cardinality(LeftFor(c) \ {d}) + 1
    <3>1. CASE d \in LeftFor(c)
      BY <2>4, <2>5, <3>1, FS_RemoveElement
    <3>2. CASE d \notin LeftFor(c)
      <4>1. LeftFor(c) \ {d} = LeftFor(c)
        BY <3>2
      <4>2. QED
        BY <4>1, <2>5
    <3>3. QED
      BY <3>1, <3>2
  <2>8. /\ receipts[c] \in Nat /\ slips \in Nat /\ receipts'[c] = receipts[c]
        /\ receipts[c] <= Cardinality(LeftFor(c)) + slips /\ (receipts[c] > 0 => ApprovedOf(c) # {})
    BY <1>1 DEF PaymentsInv, PaymentsTypes, ReceiptsCounted
  <2>9. receipts'[c] <= Cardinality(LeftFor(c)') + slips'
    BY <1>1, <2>5, <2>6, <2>7, <2>8
  <2>10. QED
    BY <2>1, <2>8, <2>9
<1>8. QED
  BY <1>3, <1>4, <1>5, <1>6, <1>7 DEF PaymentsInv

LEMMA PaymentsSteps == PaymentsInv /\ [PaymentsNext]_paymentVars => PaymentsInv'
<1> SUFFICES ASSUME PaymentsInv, [PaymentsNext]_paymentVars PROVE PaymentsInv'
  OBVIOUS
<1>1. CASE UNCHANGED paymentVars
  BY <1>1, NumbersKept, KnownKept, DraftsKept, NothingSent DEF paymentVars, PaymentsInv,
     PaymentsTypes, Settled
<1>2. CASE PaymentsNext
  <2>1. ASSUME NEW e \in Captures, PostCapture(e) PROVE PaymentsInv'
    BY <2>1, PostCaptureKeeps
  <2>2. ASSUME NEW d \in Drafts, ResolveDraft(d) PROVE PaymentsInv'
    BY <2>2, ResolveDraftKeeps
  <2>3. ASSUME NEW k \in Clerks, NEW e \in Captures, ReadCapture(k, e) PROVE PaymentsInv'
    BY <2>3, ReadCaptureKeeps
  <2>4. ASSUME NEW k \in Clerks, NEW d \in Drafts, ReadForDelivery(k, d) PROVE PaymentsInv'
    BY <2>4, ReadForDeliveryKeeps
  <2>5. ASSUME NEW k \in Clerks, ClerkDies(k) PROVE PaymentsInv'
    BY <2>5, ClerkDiesKeeps
  <2>6. ASSUME NEW k \in Clerks, NEW c \in Charges, AskForLink(k, c) PROVE PaymentsInv'
    BY <2>6, ReadersKeep
  <2>7. ASSUME NEW k \in Clerks, NEW c \in Charges, ReadForReceipt(k, c) PROVE PaymentsInv'
    BY <2>7, ReadersKeep
  <2>8. ASSUME NEW k \in Clerks, NEW c \in Charges,
               ReadNumber(k, c) \/ InsertCharge(k, c) \/ KeepLink(k, c)
        PROVE  PaymentsInv'
    BY <2>8, ReadNumberKeeps, InsertChargeKeeps, KeepLinkKeeps
  <2>9. ASSUME NEW k \in Clerks, NEW c \in Charges,
               RequestReceipt(k, c) \/ ConfirmCapture(k, c) \/ SendReceipt(k, c) \/ MarkReceipted(k, c)
        PROVE  PaymentsInv'
    BY <2>9, ConfirmersKeep, SendReceiptKeeps, MarkReceiptedKeeps
  <2>10. QED
    BY <1>2, <2>1, <2>2, <2>3, <2>4, <2>5, <2>6, <2>7, <2>8, <2>9 DEF PaymentsNext
<1>3. QED
  BY <1>1, <1>2

LEMMA PaymentsInvShows ==
  PaymentsInv => PaymentsTypeOK /\ NumbersGapFree /\ CaptureNotLost /\ ReceiptsAccounted
<1> SUFFICES ASSUME PaymentsInv
             PROVE  PaymentsTypeOK /\ NumbersGapFree /\ CaptureNotLost /\ ReceiptsAccounted
  OBVIOUS
<1>1. PaymentsTypeOK
  BY DEF PaymentsInv, PaymentsTypes, PaymentsTypeOK, ChargeRow, DraftRow, ClerkWork
<1>2. ASSUME NEW c \in Charges
      PROVE  receipts[c] <= IF ApprovedOf(c) = {} THEN 0 ELSE Cardinality(ApprovedOf(c)) + slips
  <2>1. IsFiniteSet(ApprovedOf(c)) /\ LeftFor(c) \subseteq ApprovedOf(c)
    BY PaymentsAssumption, FS_Subset DEF LeftFor, ApprovedOf
  <2>2. /\ Cardinality(LeftFor(c)) <= Cardinality(ApprovedOf(c))
        /\ Cardinality(LeftFor(c)) \in Nat /\ Cardinality(ApprovedOf(c)) \in Nat
    BY <2>1, FS_Subset, FS_CardinalityType
  <2>3. /\ receipts[c] \in Nat /\ slips \in Nat
        /\ receipts[c] <= Cardinality(LeftFor(c)) + slips /\ (receipts[c] > 0 => ApprovedOf(c) # {})
    BY DEF PaymentsInv, PaymentsTypes, ReceiptsCounted
  <2>4. QED
    BY <2>2, <2>3
<1>3. ReceiptsAccounted
  BY <1>2 DEF ReceiptsAccounted, ApprovedOf
<1>4. QED
  BY <1>1, <1>3 DEF PaymentsInv

(* A receipted charge stays so: the update spares it, and a number is only   *)
(* given to a row that was not there.                                        *)
LEMMA PaymentsActions == PaymentsInv /\ PaymentsNext => ReceiptedIsFinal
<1> SUFFICES ASSUME PaymentsInv, PaymentsNext, NEW c \in Charges, charges[c].status = "receipted"
             PROVE  charges'[c].status = "receipted"
  BY DEF ReceiptedIsFinal
<1>1. \A a \in Charges : charges[a] \in ChargeRow
  BY DEF PaymentsInv, PaymentsTypes
<1>2. ASSUME NEW k \in Clerks, NEW a \in Charges, InsertCharge(k, a) PROVE charges'[c].status = "receipted"
  BY <1>2 DEF InsertCharge, NoCharge, PaymentsInv, PaymentsTypes
<1>3. ASSUME NEW a \in Charges, MarkPaid(a) PROVE charges'[c].status = "receipted"
  BY <1>1, <1>3 DEF MarkPaid, PaymentsInv, PaymentsTypes, ChargeRow
<1>4. ASSUME NEW k \in Clerks, NEW a \in Charges, KeepLink(k, a) \/ MarkReceipted(k, a)
      PROVE  charges'[c].status = "receipted"
  BY SMTT(30), <1>1, <1>4 DEF KeepLink, MarkReceipted, PaymentsInv, PaymentsTypes, ChargeRow
<1>5. ASSUME charges' = charges PROVE charges'[c].status = "receipted"
  BY <1>5
<1>6. QED
  BY ZenonT(60), <1>2, <1>3, <1>4, <1>5
  DEF PaymentsNext, PostCapture, ResolveDraft, ReadCapture, ReadForDelivery, ClerkDies, ReadNumber,
      AskForLink, ReadForReceipt, RequestReceipt, ConfirmCapture, SendReceipt

(*************************************************************************)
(* Billing                                                               *)
(*************************************************************************)

PlanRow == [there : BOOLEAN, terms : 0..TermsMax, active : BOOLEAN]
Sale == [org : Orgs, plan : Plans, terms : 1..TermsMax]
DeskWork ==
  [doing : {"nothing", "edit", "rewrite", "retire", "assign", "insert", "charge"},
   plan : SUBSET Plans, org : SUBSET Orgs, seen : SUBSET Plans]

BillingTypes ==
  /\ plans \in [Plans -> PlanRow] /\ edition \in 1..TermsMax
  /\ onPlan \in [Orgs -> SUBSET Plans] /\ \A o \in Orgs : onPlan[o] = {} \/ \E p \in Plans : onPlan[o] = {p}
  /\ bought \subseteq Sale /\ desk \in [Desks -> DeskWork] /\ seed \subseteq Presets
  /\ budget \in [Orgs -> {{}} \cup {{n} : n \in 0..ChargesMax - 1}]
  /\ spent \in [Orgs -> 0..ChargesMax] /\ ceiling \in [Orgs -> 0..ChargesMax]

(* A plan that is there has terms, and what was sold is there.               *)
PlansKnown ==
  /\ \A p \in Plans : plans[p].there => plans[p].terms # 0
  /\ \A b \in bought : plans[b.plan].there

(* What a request found under the lock of its plan still holds: the plan is   *)
(* there, unsold for a rewrite, active for an assignment.                     *)
StillHolds(k) ==
  /\ desk[k].doing \in {"nothing", "charge"} => desk[k].plan = {}
  /\ desk[k].doing \notin {"nothing", "charge"} =>
       \E p \in Plans :
         /\ desk[k].plan = {p} /\ plans[p].there
         /\ desk[k].doing = "rewrite" => ~Sold(p)
         /\ desk[k].doing \in {"assign", "insert"} => plans[p].active
PlansHeld ==
  /\ \A k \in Desks : StillHolds(k)
  /\ \A j, k \in Desks : desk[j].plan = desk[k].plan /\ desk[k].plan # {} => j = k

(* What is spent and what is judged and not yet recorded.                    *)
Charging(o) == {k \in Desks : desk[k].doing = "charge" /\ desk[k].org = {o}}
SpendingCounted ==
  \A o \in Orgs :
    \/ ceiling[o] = ChargesMax
    \/ spent[o] + Cardinality(Charging(o)) <= ceiling[o] + Cardinality(Desks) - 1

BillingInv == BillingTypes /\ PlansKnown /\ PlansHeld /\ SpendingCounted

LEMMA AtRestIsWork ==
  AtRest \in DeskWork /\ AtRest.doing = "nothing" /\ AtRest.plan = {} /\ AtRest.org = {}
BY DEF AtRest, DeskWork

LEMMA DesksFinite == /\ Cardinality(Desks) \in Nat /\ Cardinality(Desks) >= 1
                     /\ ChargesMax \in Nat /\ TermsMax \in Nat /\ TermsMax >= 1
<1>1. Cardinality(Desks) \in Nat /\ (Cardinality(Desks) = 0 <=> Desks = {})
  BY BillingAssumption, FS_CardinalityType, FS_EmptySet
<1>2. QED
  BY <1>1, BillingAssumption

LEMMA ChargingFinite == \A o \in Orgs : /\ IsFiniteSet(Charging(o)) /\ Cardinality(Charging(o)) \in Nat
                                        /\ Cardinality(Charging(o)) <= Cardinality(Desks)
<1>1. \A o \in Orgs : Charging(o) \subseteq Desks
  BY DEF Charging
<1>2. QED
  BY <1>1, BillingAssumption, FS_Subset, FS_CardinalityType

LEMMA BillingStarts == BillingInit => BillingInv
<1> SUFFICES ASSUME BillingInit PROVE BillingInv
  OBVIOUS
<1> USE DEF BillingInit
<1>1. NoPlan \in PlanRow /\ ~NoPlan.there
  BY BillingAssumption DEF NoPlan, PlanRow
<1>2. BillingTypes
  BY <1>1, AtRestIsWork, BillingAssumption DEF BillingTypes
<1>3. PlansKnown
  BY <1>1 DEF PlansKnown
<1>4. PlansHeld
  BY AtRestIsWork DEF PlansHeld, StillHolds
<1>5. SpendingCounted
  <2> SUFFICES ASSUME NEW o \in Orgs
               PROVE  spent[o] + Cardinality(Charging(o)) <= ceiling[o] + Cardinality(Desks) - 1
    BY DEF SpendingCounted
  <2>1. Charging(o) = {}
    BY AtRestIsWork DEF Charging
  <2>2. QED
    BY <2>1, FS_EmptySet, DesksFinite
<1>6. QED
  BY <1>2, <1>3, <1>4, <1>5 DEF BillingInv

(* Nothing is spent, and no request begins to charge.                        *)
LEMMA SpendingKept ==
  ASSUME BillingInv, UNCHANGED <<spent, ceiling>>,
         \A k \in Desks : desk'[k].doing = "charge" => desk'[k] = desk[k]
  PROVE  SpendingCounted'
<1> SUFFICES ASSUME NEW o \in Orgs, ceiling[o] # ChargesMax
             PROVE  spent[o] + Cardinality(Charging(o)') <= ceiling[o] + Cardinality(Desks) - 1
  BY DEF SpendingCounted
<1>1. Charging(o)' \subseteq Charging(o)
  BY DEF Charging
<1>2. /\ Cardinality(Charging(o)') <= Cardinality(Charging(o)) /\ Cardinality(Charging(o)) \in Nat
      /\ Cardinality(Charging(o)') \in Nat
  BY <1>1, ChargingFinite, FS_Subset, FS_CardinalityType
<1>3. spent[o] + Cardinality(Charging(o)) <= ceiling[o] + Cardinality(Desks) - 1
  BY DEF BillingInv, SpendingCounted
<1>4. spent[o] \in Nat /\ ceiling[o] \in Nat
  BY DesksFinite DEF BillingInv, BillingTypes
<1>5. QED
  BY <1>2, <1>3, <1>4, DesksFinite

(* The locks stand where a request goes on with its plan or comes to rest,    *)
(* and no plan in another's hands is touched.                                 *)
LEMMA LocksKept ==
  ASSUME BillingInv, NEW k \in Desks, \A j \in Desks \ {k} : desk'[j] = desk[j],
         desk'[k].plan = desk[k].plan \/ desk'[k].plan = {}, StillHolds(k)',
         \A p \in Plans : /\ plans[p].there => plans'[p].there
                          /\ plans[p].there /\ desk[k].plan # {p} /\ plans[p].active => plans'[p].active
                          /\ Sold(p)' => Sold(p) \/ desk[k].plan = {p}
  PROVE  PlansHeld'
<1>1. \A i, j \in Desks : desk'[i].plan = desk'[j].plan /\ desk'[j].plan # {} => i = j
  BY DEF BillingInv, PlansHeld
<1>2. ASSUME NEW j \in Desks, j # k PROVE StillHolds(j)'
  <2>1. StillHolds(j) /\ desk'[j] = desk[j]
    BY <1>2 DEF BillingInv, PlansHeld
  <2>2. desk[j].plan # {} => desk[j].plan # desk[k].plan
    BY <1>2 DEF BillingInv, PlansHeld
  <2>3. CASE desk[j].doing \in {"nothing", "charge"}
    BY <2>1, <2>3 DEF StillHolds
  <2>4. CASE desk[j].doing \notin {"nothing", "charge"}  BY <2>1, <2>2, <2>4 DEF StillHolds
  <2>5. QED
    BY <2>3, <2>4
<1>3. QED
  BY <1>1, <1>2 DEF PlansHeld

LEMMA RowsChange ==
  ASSUME BillingInv, desk' = desk,
         \A p \in Plans : /\ plans[p].there => plans'[p].there
                          /\ plans[p].there /\ plans[p].active => plans'[p].active
                          /\ Sold(p)' => Sold(p)
  PROVE  PlansHeld'
<1>1. \A i, j \in Desks : desk'[i].plan = desk'[j].plan /\ desk'[j].plan # {} => i = j
  BY DEF BillingInv, PlansHeld
<1>2. ASSUME NEW j \in Desks PROVE StillHolds(j)'  BY DEF BillingInv, PlansHeld, StillHolds
<1>3. QED
  BY <1>1, <1>2 DEF PlansHeld

-----------------------------------------------------------------------------
(* Plans                                                                     *)

(* A row is inserted: a plan of an operator's own, a copy, a preset.         *)
LEMMA InsertsKeep ==
  ASSUME BillingInv, NEW p \in Plans, NEW row \in PlanRow, plans' = [plans EXCEPT ![p] = row],
         row.there, row.terms # 0, row.active,
         UNCHANGED <<edition, onPlan, bought, desk, budget, spent, ceiling>>,
         seed' \subseteq Presets
  PROVE  BillingInv'
<1>1. BillingTypes'
  BY DEF BillingInv, BillingTypes
<1>2. plans'[p] = row /\ \A q \in Plans \ {p} : plans'[q] = plans[q]
  BY DEF BillingInv, BillingTypes
<1>3. \A b \in bought : b.plan \in Plans
  BY DEF BillingInv, BillingTypes, Sale
<1>4. PlansKnown'
  BY <1>2, <1>3 DEF BillingInv, PlansKnown
<1>5. \A q \in Plans : Sold(q)' = Sold(q)
  BY DEF Sold
<1>6. PlansHeld'
  BY <1>2, <1>5, RowsChange
<1>7. SpendingCounted'
  BY SpendingKept
<1>8. QED
  BY <1>1, <1>4, <1>6, <1>7 DEF BillingInv

LEMMA PlansMadeKeep ==
  ASSUME BillingInv, NEW p \in Plans,
         \/ \E t \in 1..TermsMax : CreatePlan(p, t)
         \/ \E q \in Plans : CopyPlan(p, q)
         \/ SeedWrite(p)
  PROVE  BillingInv'
<1>1. seed \subseteq Presets /\ edition \in 1..TermsMax /\ TermsMax \in Nat
  BY DesksFinite DEF BillingInv, BillingTypes
<1>2. ASSUME NEW t \in 1..TermsMax, CreatePlan(p, t) PROVE BillingInv'
  <2> DEFINE row == [there |-> TRUE, terms |-> t, active |-> TRUE]
  <2>1. row \in PlanRow /\ row.there /\ row.active /\ row.terms # 0
    BY <1>1 DEF PlanRow
  <2>2. plans' = [plans EXCEPT ![p] = row] /\ UNCHANGED <<edition, onPlan, bought, desk, seed, moneyVars>>
    BY <1>2 DEF CreatePlan
  <2> HIDE DEF row
  <2>3. QED
    BY <1>1, <2>1, <2>2, InsertsKeep DEF moneyVars
<1>3. ASSUME NEW q \in Plans, CopyPlan(p, q) PROVE BillingInv'
  <2> DEFINE row == [plans[p] EXCEPT !.active = TRUE]
  <2>1. plans[p] \in PlanRow /\ plans[p].there /\ plans[p].terms # 0
    BY <1>3 DEF CopyPlan, BillingInv, BillingTypes, PlansKnown
  <2>2. row \in PlanRow /\ row.there /\ row.active /\ row.terms # 0
    BY <2>1 DEF PlanRow
  <2>3. plans' = [plans EXCEPT ![q] = row] /\ UNCHANGED <<edition, onPlan, bought, desk, seed, moneyVars>>
    BY <1>3 DEF CopyPlan
  <2> HIDE DEF row
  <2>4. QED
    BY <1>1, <2>2, <2>3, InsertsKeep DEF moneyVars
<1>4. CASE SeedWrite(p)
  <2> DEFINE row == [there |-> TRUE, terms |-> edition, active |-> TRUE]
  <2>1. row \in PlanRow /\ row.there /\ row.active /\ row.terms # 0
    BY <1>1 DEF PlanRow
  <2>2. /\ plans' = [plans EXCEPT ![p] = row] /\ seed' = {}
        /\ UNCHANGED <<edition, onPlan, bought, desk, moneyVars>>
    BY <1>4 DEF SeedWrite
  <2> HIDE DEF row
  <2>3. QED
    BY <2>1, <2>2, InsertsKeep DEF moneyVars
<1>5. QED
  BY <1>2, <1>3, <1>4

(* The script's reading, a release and a cancellation hold no lock.          *)
LEMMA UnlockedKeep ==
  ASSUME BillingInv, (\E p \in Plans : SeedRead(p)) \/ Release \/ \E o \in Orgs : CancelSubscription(o)
  PROVE  BillingInv'
<1>1. UNCHANGED <<plans, bought, desk, budget, spent, ceiling>>
  BY DEF SeedRead, Release, CancelSubscription, moneyVars
<1>2. edition' \in 1..TermsMax /\ seed' \subseteq Presets
  BY DesksFinite DEF SeedRead, Release, CancelSubscription, BillingInv, BillingTypes
<1>3. /\ onPlan' \in [Orgs -> SUBSET Plans]
      /\ \A o \in Orgs : onPlan'[o] = {} \/ \E p \in Plans : onPlan'[o] = {p}
  BY DEF SeedRead, Release, CancelSubscription, BillingInv, BillingTypes
<1>4. BillingTypes'
  BY <1>1, <1>2, <1>3 DEF BillingInv, BillingTypes
<1>5. PlansKnown'
  BY <1>1 DEF BillingInv, PlansKnown
<1>6. PlansHeld'
  BY <1>1, RowsChange DEF Sold
<1>7. SpendingCounted'
  BY <1>1, SpendingKept DEF BillingInv
<1>8. QED
  BY <1>4, <1>5, <1>6, <1>7 DEF BillingInv

(* A request locks a plan, or goes on from what it found.                    *)
LEMMA DesksTurn ==
  ASSUME BillingInv, NEW k \in Desks, NEW new \in DeskWork, desk' = [desk EXCEPT ![k] = new],
         UNCHANGED <<plans, edition, onPlan, bought, seed, budget, spent, ceiling>>,
         new.doing # "charge", StillHolds(k)', \A j \in Desks \ {k} : desk[j].plan = new.plan => new.plan = {}
  PROVE  BillingInv'
<1>1. BillingTypes'
  BY DEF BillingInv, BillingTypes
<1>2. desk'[k] = new /\ \A j \in Desks \ {k} : desk'[j] = desk[j]
  BY DEF BillingInv, BillingTypes
<1>3. PlansKnown'
  BY DEF BillingInv, PlansKnown
<1>4. PlansHeld'  BY <1>2 DEF BillingInv, PlansHeld, Sold, StillHolds
<1>5. SpendingCounted'
  BY <1>2, SpendingKept
<1>6. QED
  BY <1>1, <1>3, <1>4, <1>5 DEF BillingInv

LEMMA LockPlanKeeps ==
  ASSUME BillingInv, NEW p \in Plans, NEW k \in Desks, NEW what \in {"edit", "retire", "assign"},
         NEW org \in {{}} \cup {{o} : o \in Orgs}, LockPlan(k, p, what, org)
  PROVE  BillingInv'
<1> DEFINE new == [AtRest EXCEPT !.doing = what, !.plan = {p}, !.org = org]
<1>1. /\ desk' = [desk EXCEPT ![k] = new] /\ plans[p].there
      /\ what = "assign" => plans[p].active
      /\ \A j \in Desks : desk[j].plan # {p}
      /\ UNCHANGED <<plans, edition, onPlan, bought, seed, budget, spent, ceiling>>
  BY DEF LockPlan, HoldsPlan, Turn, tradeVars, moneyVars
<1>2. org \subseteq Orgs
  OBVIOUS
<1>3. new \in DeskWork /\ new.doing = what /\ new.plan = {p}
  BY <1>2, AtRestIsWork DEF AtRest, DeskWork
<1> HIDE DEF new
<1>4. desk'[k] = new
  BY <1>1 DEF BillingInv, BillingTypes
<1>5. StillHolds(k)'
  BY <1>1, <1>3, <1>4 DEF StillHolds
<1>6. QED
  BY <1>1, <1>3, <1>5, DesksTurn

(* What a request that holds a plan knows.                                   *)
LEMMA Holding ==
  ASSUME BillingInv, NEW k \in Desks, desk[k].doing \notin {"nothing", "charge"}
  PROVE  /\ desk[k] \in DeskWork
         /\ \A j \in Desks \ {k} : desk[j].plan # desk[k].plan
         /\ \E p \in Plans : /\ desk[k].plan = {p} /\ plans[p].there
                             /\ desk[k].doing = "rewrite" => ~Sold(p)
                             /\ desk[k].doing \in {"assign", "insert"} => plans[p].active
<1>1. StillHolds(k)
  BY DEF BillingInv, PlansHeld
<1>2. desk[k].plan # {}
  BY <1>1 DEF StillHolds
<1>3. \A j \in Desks \ {k} : desk[j].plan # desk[k].plan
  BY <1>2 DEF BillingInv, PlansHeld
<1>4. QED
  BY <1>1, <1>3 DEF StillHolds, BillingInv, BillingTypes

LEMMA GoingOnKeeps ==
  ASSUME BillingInv, NEW k \in Desks,
         (\E p \in Plans : JudgeEdit(k, p)) \/ \E o \in Orgs : CancelOld(k, o)
  PROVE  BillingInv'
<1>1. desk[k].doing \in {"edit", "assign"}
  BY DEF JudgeEdit, CancelOld, Working
<1>2. PICK p \in Plans : /\ desk[k].plan = {p} /\ plans[p].there
                         /\ desk[k].doing \in {"assign", "insert"} => plans[p].active
  BY <1>1, Holding
<1>3. desk[k] \in DeskWork /\ \A j \in Desks \ {k} : desk[j].plan # {p}
  BY <1>1, <1>2, Holding
<1>4. UNCHANGED <<plans, edition, onPlan, bought, seed, budget, spent, ceiling>>
  BY DEF JudgeEdit, CancelOld, tradeVars, moneyVars
<1>5. Sold(p)' = Sold(p)
  BY <1>4 DEF Sold
<1>6. ASSUME NEW q \in Plans, JudgeEdit(k, q) PROVE BillingInv'
  <2> DEFINE new == [desk[k] EXCEPT !.doing = "rewrite"]
  <2>1. new \in DeskWork /\ new.doing = "rewrite" /\ new.plan = {p}
    BY <1>2, <1>3 DEF DeskWork
  <2> HIDE DEF new
  <2>2. q = p
    BY <1>2, <1>6 DEF JudgeEdit
  <2>3. CASE MayRewrite(q)
    <3>1. desk' = [desk EXCEPT ![k] = new]
      BY <1>6, <2>3 DEF JudgeEdit, Turn, new
    <3>2. desk'[k] = new
      BY <3>1 DEF BillingInv, BillingTypes
    <3>3. StillHolds(k)'
      BY <1>2, <1>4, <1>5, <2>1, <2>2, <2>3, <3>2 DEF StillHolds, MayRewrite
    <3>4. QED
      BY <1>3, <1>4, <2>1, <3>1, <3>3, DesksTurn
  <2>4. CASE ~MayRewrite(q)
    BY <1>4, <1>6, <2>4, AtRestIsWork, DesksTurn DEF JudgeEdit, Turn, BillingInv,
       BillingTypes, StillHolds
  <2>5. QED
    BY <2>3, <2>4
<1>7. ASSUME NEW o \in Orgs, CancelOld(k, o) PROVE BillingInv'
  <2> DEFINE new == [desk[k] EXCEPT !.doing = "insert", !.seen = onPlan[o]]
  <2>1. onPlan[o] \subseteq Plans
    BY DEF BillingInv, BillingTypes
  <2>2. new \in DeskWork /\ new.doing = "insert" /\ new.plan = {p}
    BY <1>2, <1>3, <2>1 DEF DeskWork
  <2>3. desk' = [desk EXCEPT ![k] = new] /\ plans[p].active
    BY <1>2, <1>7 DEF CancelOld, Turn, Working
  <2> HIDE DEF new
  <2>4. desk'[k] = new
    BY <2>3 DEF BillingInv, BillingTypes
  <2>5. StillHolds(k)'
    BY <1>2, <1>4, <2>2, <2>3, <2>4 DEF StillHolds
  <2>6. QED
    BY <1>3, <1>4, <2>2, <2>3, <2>5, DesksTurn
<1>8. QED
  BY <1>6, <1>7

(* An edit or a retirement touches the plan the request has locked.          *)
LEMMA WritesKeep ==
  ASSUME BillingInv, NEW k \in Desks, NEW p \in Plans,
         (\E t \in 1..TermsMax : RewritePlan(k, p, t)) \/ SetPlanActive(k, p)
  PROVE  BillingInv'
<1>1. /\ desk[k].plan = {p} /\ desk[k].doing \in {"rewrite", "retire"}
      /\ desk' = [desk EXCEPT ![k] = AtRest]
      /\ UNCHANGED <<edition, onPlan, bought, seed, budget, spent, ceiling>>
  BY DEF RewritePlan, SetPlanActive, Working, Turn, moneyVars
<1>2. \A j \in Desks \ {k} : desk[j].plan # {p}
  BY <1>1, Holding
<1>3. plans[p].there /\ plans[p] \in PlanRow /\ plans[p].terms # 0
  BY <1>1, Holding DEF BillingInv, BillingTypes, PlansKnown
<1>4. PICK row \in PlanRow : plans' = [plans EXCEPT ![p] = row] /\ row.there /\ row.terms # 0
  <2>1. CASE \E t \in 1..TermsMax : RewritePlan(k, p, t)
    <3>1. PICK t \in 1..TermsMax : plans' = [plans EXCEPT ![p].terms = t]
      BY <2>1 DEF RewritePlan
    <3> DEFINE new == [plans[p] EXCEPT !.terms = t]
    <3>2. new \in PlanRow /\ new.there /\ new.terms # 0
      BY <1>3, DesksFinite DEF PlanRow
    <3>3. plans' = [plans EXCEPT ![p] = new]
      BY <3>1
    <3> HIDE DEF new
    <3>4. QED
      BY <3>2, <3>3
  <2>2. CASE SetPlanActive(k, p)
    <3> DEFINE new == [plans[p] EXCEPT !.active = ~plans[p].active]
    <3>1. new \in PlanRow /\ new.there /\ new.terms # 0
      BY <1>3 DEF PlanRow
    <3>2. plans' = [plans EXCEPT ![p] = new] \/ plans' = [plans EXCEPT ![p] = plans[p]]
      BY <2>2 DEF SetPlanActive, BillingInv, BillingTypes
    <3> HIDE DEF new
    <3>3. QED
      BY <1>3, <3>1, <3>2
  <2>3. QED
    BY <2>1, <2>2
<1>5. BillingTypes'
  BY <1>1, <1>4, AtRestIsWork DEF BillingInv, BillingTypes
<1>6. /\ desk'[k] = AtRest /\ \A j \in Desks \ {k} : desk'[j] = desk[j]
      /\ plans'[p] = row /\ \A q \in Plans \ {p} : plans'[q] = plans[q]
  BY <1>1, <1>4 DEF BillingInv, BillingTypes
<1>7. PlansKnown'  BY <1>1, <1>4, <1>6 DEF BillingInv, BillingTypes, Sale, PlansKnown
<1>8. PlansHeld'  BY <1>1, <1>4, <1>6, AtRestIsWork, LocksKept DEF StillHolds, Sold
<1>9. SpendingCounted'
  BY <1>1, <1>6, AtRestIsWork, SpendingKept
<1>10. QED
  BY <1>5, <1>7, <1>8, <1>9 DEF BillingInv

(* A subscription is sold under the lock of its plan.                        *)
LEMMA InsertSubscriptionKeeps ==
  ASSUME BillingInv, NEW k \in Desks, NEW o \in Orgs, InsertSubscription(k, o)
  PROVE  BillingInv'
<1>1. /\ desk[k].doing = "insert" /\ desk' = [desk EXCEPT ![k] = AtRest]
      /\ UNCHANGED <<plans, edition, seed, budget, spent, ceiling>>
  BY DEF InsertSubscription, Working, Turn, moneyVars
<1>2. PICK p \in Plans : desk[k].plan = {p} /\ plans[p].there /\ plans[p].active
  BY <1>1, Holding
<1>3. \/ UNCHANGED <<onPlan, bought>>
      \/ /\ onPlan[o] \subseteq desk[k].seen
         /\ onPlan' = [onPlan EXCEPT ![o] = (@ \ desk[k].seen) \cup {p}]
         /\ bought' = bought \cup {[org |-> o, plan |-> p, terms |-> plans[p].terms]}
  BY <1>2 DEF InsertSubscription, NoneElseActive
<1>4. \/ UNCHANGED <<onPlan, bought>>
      \/ /\ onPlan' = [onPlan EXCEPT ![o] = {p}]
         /\ bought' = bought \cup {[org |-> o, plan |-> p, terms |-> plans[p].terms]}  BY <1>3
<1>5. [org |-> o, plan |-> p, terms |-> plans[p].terms] \in Sale
  BY <1>2, DesksFinite DEF BillingInv, BillingTypes, PlansKnown, PlanRow, Sale
<1>6. BillingTypes'  BY <1>1, <1>4, <1>5, AtRestIsWork DEF BillingInv, BillingTypes
<1>7. desk'[k] = AtRest /\ \A j \in Desks \ {k} : desk'[j] = desk[j]
  BY <1>1 DEF BillingInv, BillingTypes
<1>8. PlansKnown'
  BY <1>1, <1>2, <1>4 DEF BillingInv, PlansKnown
<1>9. PlansHeld'  BY <1>1, <1>2, <1>4, <1>7, AtRestIsWork, LocksKept DEF StillHolds, Sold
<1>10. SpendingCounted'
  BY <1>1, <1>7, AtRestIsWork, SpendingKept
<1>11. QED
  BY <1>6, <1>8, <1>9, <1>10 DEF BillingInv

-----------------------------------------------------------------------------
(* Budgets                                                                   *)

LEMMA SetBudgetKeeps ==
  ASSUME BillingInv, NEW o \in Orgs, NEW cap \in {{}} \cup {{n} : n \in 0..ChargesMax - 1},
         SetBudget(o, cap)
  PROVE  BillingInv'
<1>1. budget' = [budget EXCEPT ![o] = cap]
      /\ UNCHANGED <<plans, edition, onPlan, bought, seed, desk, spent, ceiling>>
  BY DEF SetBudget, tradeVars
<1>2. BillingTypes'
  BY <1>1 DEF BillingInv, BillingTypes
<1>3. PlansKnown'
  BY <1>1 DEF BillingInv, PlansKnown
<1>4. PlansHeld'
  BY <1>1, RowsChange DEF Sold
<1>5. SpendingCounted'
  BY <1>1, SpendingKept
<1>6. QED
  BY <1>2, <1>3, <1>4, <1>5 DEF BillingInv

LEMMA LargestOfTwo ==
  ASSUME NEW a \in Nat, NEW b \in Nat
  PROVE  Largest({a} \cup {b}) \in {a, b} /\ Largest({a} \cup {b}) >= a /\ Largest({a} \cup {b}) >= b
<1>1. \E n \in {a} \cup {b} : \A m \in {a} \cup {b} : n >= m  OBVIOUS
<1>2. QED
  BY <1>1 DEF Largest

(* record_charge: the cap is read, and the charge is judged against it.      *)
LEMMA JudgeChargeKeeps ==
  ASSUME BillingInv, NEW k \in Desks, NEW o \in Orgs, JudgeCharge(k, o)
  PROVE  BillingInv'
<1> DEFINE new == [AtRest EXCEPT !.doing = "charge", !.org = {o}]
<1> DEFINE caps == IF budget[o] = {} THEN {ChargesMax} ELSE budget[o]
<1>1. /\ desk[k] = AtRest /\ FitsBudget(o) /\ desk' = [desk EXCEPT ![k] = new]
      /\ ceiling' = [ceiling EXCEPT ![o] = Largest({ceiling[o]} \cup caps)]
      /\ UNCHANGED <<plans, edition, onPlan, bought, seed, budget, spent>>
  BY DEF JudgeCharge, Turn, tradeVars
<1>2. PICK cap \in 0..ChargesMax : /\ caps = {cap}
                                   /\ cap = ChargesMax \/ spent[o] + 1 <= cap
  BY <1>1, DesksFinite DEF BillingInv, BillingTypes, FitsBudget
<1>3. /\ ceiling[o] \in 0..ChargesMax /\ ceiling[o] \in Nat /\ cap \in Nat
      /\ spent[o] \in 0..ChargesMax /\ spent[o] \in Nat
  BY DesksFinite DEF BillingInv, BillingTypes
<1> DEFINE top == Largest({ceiling[o]} \cup {cap})
<1>4. top \in {ceiling[o], cap} /\ top >= ceiling[o] /\ top >= cap
  BY <1>3, LargestOfTwo
<1>5. ceiling' = [ceiling EXCEPT ![o] = top]
  BY <1>1, <1>2
<1>6. new \in DeskWork /\ new.doing = "charge" /\ new.org = {o} /\ new.plan = {}
  BY AtRestIsWork DEF AtRest, DeskWork
<1> HIDE DEF new, caps, top
<1>7. BillingTypes'
  BY <1>1, <1>3, <1>4, <1>5, <1>6 DEF BillingInv, BillingTypes
<1>8. /\ desk'[k] = new /\ \A j \in Desks \ {k} : desk'[j] = desk[j]
      /\ ceiling'[o] = top /\ \A a \in Orgs \ {o} : ceiling'[a] = ceiling[a]
  BY <1>1, <1>5 DEF BillingInv, BillingTypes
<1>9. PlansKnown'
  BY <1>1 DEF BillingInv, PlansKnown
<1>10. PlansHeld'  BY <1>1, <1>6, <1>8, LocksKept DEF StillHolds, Sold
<1>11. SpendingCounted'
  <2> SUFFICES ASSUME NEW a \in Orgs, ceiling'[a] # ChargesMax
               PROVE  spent[a] + Cardinality(Charging(a)') <= ceiling'[a] + Cardinality(Desks) - 1
    BY <1>1 DEF SpendingCounted
  <2>1. CASE a = o
    BY SMTT(30), <1>2, <1>3, <1>4, <1>8, <2>1, BillingAssumption, FS_Subset, FS_CardinalityType,
       DesksFinite DEF Charging
  <2>2. CASE a # o
    <3>1. Charging(a)' \subseteq Charging(a)
      BY <1>6, <1>8, <2>2 DEF Charging
    <3>2. /\ Cardinality(Charging(a)') <= Cardinality(Charging(a)) /\ Cardinality(Charging(a)) \in Nat
          /\ Cardinality(Charging(a)') \in Nat
      BY <3>1, ChargingFinite, FS_Subset, FS_CardinalityType
    <3>3. /\ spent[a] + Cardinality(Charging(a)) <= ceiling[a] + Cardinality(Desks) - 1
          /\ ceiling'[a] = ceiling[a]
      BY <1>8, <2>2 DEF BillingInv, SpendingCounted
    <3>4. spent[a] \in Nat /\ ceiling[a] \in Nat
      BY DesksFinite DEF BillingInv, BillingTypes
    <3>5. QED
      BY <3>2, <3>3, <3>4, DesksFinite
  <2>3. QED
    BY <2>1, <2>2
<1>12. QED
  BY <1>7, <1>9, <1>10, <1>11 DEF BillingInv

LEMMA RecordChargeKeeps ==
  ASSUME BillingInv, NEW k \in Desks, NEW o \in Orgs, RecordCharge(k, o)
  PROVE  BillingInv'
<1>1. /\ desk[k].doing = "charge" /\ desk[k].org = {o} /\ spent[o] < ChargesMax
      /\ spent' = [spent EXCEPT ![o] = @ + 1] /\ desk' = [desk EXCEPT ![k] = AtRest]
      /\ UNCHANGED <<plans, edition, onPlan, bought, seed, budget, ceiling>>
  BY DEF RecordCharge, Working, Turn, tradeVars
<1>2. /\ desk'[k] = AtRest /\ \A j \in Desks \ {k} : desk'[j] = desk[j]
      /\ spent'[o] = spent[o] + 1 /\ \A a \in Orgs \ {o} : spent'[a] = spent[a]
      /\ spent[o] \in Nat
  BY <1>1, DesksFinite DEF BillingInv, BillingTypes
<1>3. BillingTypes'  BY <1>1, <1>2, DesksFinite, AtRestIsWork DEF BillingInv, BillingTypes
<1>4. PlansKnown'
  BY <1>1 DEF BillingInv, PlansKnown
<1>5. PlansHeld'  BY <1>1, <1>2, AtRestIsWork, LocksKept DEF StillHolds, Sold
<1>6. SpendingCounted'
  <2> SUFFICES ASSUME NEW a \in Orgs, ceiling[a] # ChargesMax
               PROVE  spent'[a] + Cardinality(Charging(a)') <= ceiling[a] + Cardinality(Desks) - 1
    BY <1>1 DEF SpendingCounted
  <2>1. /\ spent[a] + Cardinality(Charging(a)) <= ceiling[a] + Cardinality(Desks) - 1
        /\ spent[a] \in Nat /\ ceiling[a] \in Nat /\ Cardinality(Charging(a)) \in Nat
    BY DesksFinite, ChargingFinite DEF BillingInv, BillingTypes, SpendingCounted
  <2>2. CASE a = o
    <3>1. k \in Charging(o) /\ Charging(o)' = Charging(o) \ {k}
      BY <1>1, <1>2, AtRestIsWork DEF Charging
    <3>2. Cardinality(Charging(o) \ {k}) = Cardinality(Charging(o)) - 1
      BY <3>1, ChargingFinite, FS_RemoveElement
    <3>3. Cardinality(Charging(o)') = Cardinality(Charging(o)) - 1
      BY <3>1, <3>2
    <3>4. QED
      BY <1>2, <2>1, <2>2, <3>3, DesksFinite
  <2>3. CASE a # o
    <3>1. Charging(a)' \subseteq Charging(a)
      BY <1>2, AtRestIsWork DEF Charging
    <3>2. /\ Cardinality(Charging(a)') <= Cardinality(Charging(a)) /\ Cardinality(Charging(a)') \in Nat
      BY <3>1, ChargingFinite, FS_Subset, FS_CardinalityType
    <3>3. spent'[a] = spent[a]
      BY <1>2, <2>3
    <3>4. QED
      BY <2>1, <3>2, <3>3, DesksFinite
  <2>4. QED
    BY <2>2, <2>3
<1>7. QED
  BY <1>3, <1>4, <1>5, <1>6 DEF BillingInv

LEMMA BillingSteps == BillingInv /\ [BillingNext]_billingVars => BillingInv'
<1> SUFFICES ASSUME BillingInv, [BillingNext]_billingVars PROVE BillingInv'
  OBVIOUS
<1>1. CASE UNCHANGED billingVars
  BY <1>1, RowsChange, SpendingKept DEF billingVars, BillingInv, BillingTypes, PlansKnown,
     Sold
<1>2. CASE BillingNext
  BY <1>2, PlansMadeKeep, UnlockedKeep, LockPlanKeeps, GoingOnKeeps, WritesKeep,
     SetBudgetKeeps, InsertSubscriptionKeeps, JudgeChargeKeeps, RecordChargeKeeps DEF
     BillingNext
<1>3. QED
  BY <1>1, <1>2

LEMMA BillingInvShows == BillingInv => BillingTypeOK /\ BudgetOverrunBounded
<1> SUFFICES ASSUME BillingInv PROVE BillingTypeOK /\ BudgetOverrunBounded
  OBVIOUS
<1>1. \A o \in Orgs : Cardinality(onPlan[o]) < 2
  <2> SUFFICES ASSUME NEW o \in Orgs PROVE Cardinality(onPlan[o]) < 2
    OBVIOUS
  <2>1. onPlan[o] = {} \/ \E p \in Plans : onPlan[o] = {p}
    BY DEF BillingInv, BillingTypes
  <2>2. Cardinality({}) = 0 /\ \A p : Cardinality({p}) = 1
    BY FS_EmptySet, FS_Singleton
  <2>3. Cardinality(onPlan[o]) \in {0, 1}
    BY <2>1, <2>2
  <2>4. QED
    BY <2>3
<1>2. BillingTypeOK
  BY <1>1 DEF BillingInv, BillingTypes, BillingTypeOK, PlanRow, Sale, DeskWork
<1>3. ASSUME NEW o \in Orgs PROVE spent[o] <= ceiling[o] + Cardinality(Desks) - 1
  BY DesksFinite, ChargingFinite DEF BillingInv, BillingTypes, SpendingCounted
<1>4. QED
  BY <1>2, <1>3 DEF BudgetOverrunBounded

(* What was sold keeps its terms, but for the script's race, and a retired   *)
(* plan takes nobody: whoever writes holds the plan, or inserts a new one.   *)
LEMMA BillingActions == BillingInv /\ [BillingNext]_billingVars => SoldTermsHold /\ RetiredTakesNobody
<1> SUFFICES ASSUME BillingInv, [BillingNext]_billingVars PROVE SoldTermsHold /\ RetiredTakesNobody
  OBVIOUS
<1>1. ASSUME NEW b \in bought, plans'[b.plan].terms # plans[b.plan].terms
      PROVE  seed = {b.plan}
  <2>1. b.plan \in Plans /\ plans[b.plan].there /\ Sold(b.plan)
    BY DEF BillingInv, BillingTypes, PlansKnown, Sale, Sold
  <2>2. ASSUME NEW p \in Plans, NEW q \in Plans, NEW t, CreatePlan(p, t) \/ CopyPlan(p, q)
        PROVE  seed = {b.plan}
    BY <1>1, <2>1, <2>2 DEF CreatePlan, CopyPlan, BillingInv, BillingTypes
  <2>3. ASSUME NEW p \in Plans, SeedWrite(p) PROVE seed = {b.plan}
    BY <1>1, <2>1, <2>3 DEF SeedWrite, BillingInv, BillingTypes
  <2>4. ASSUME NEW k \in Desks, NEW p \in Plans, SetPlanActive(k, p) PROVE seed = {b.plan}
    BY <1>1, <2>1, <2>4 DEF BillingInv, BillingTypes, SetPlanActive, PlanRow
  <2>5. ASSUME NEW k \in Desks, NEW p \in Plans, NEW t, RewritePlan(k, p, t) PROVE seed = {b.plan}
    <3>1. desk[k].doing = "rewrite" /\ desk[k].plan = {p}
      BY <2>5 DEF RewritePlan, Working
    <3>2. ~Sold(p)
      BY <3>1, Holding
    <3>3. plans'[b.plan] = plans[b.plan]
      BY <2>1, <2>5, <3>2 DEF RewritePlan, BillingInv, BillingTypes
    <3>4. QED
      BY <1>1, <3>3
  <2>6. ASSUME plans' = plans PROVE seed = {b.plan}
    BY <1>1, <2>6
  <2>7. QED
    BY <2>2, <2>3, <2>4, <2>5, <2>6
    DEF BillingNext, LockPlan, JudgeEdit, SeedRead, Release, CancelOld, InsertSubscription,
        CancelSubscription, SetBudget, JudgeCharge, RecordCharge, tradeVars, billingVars
<1>2. ASSUME NEW o \in Orgs, onPlan'[o] \notin {onPlan[o], {}}, NEW p \in onPlan'[o]
      PROVE  plans[p].active
  <2>1. ASSUME NEW k \in Desks, NEW a \in Orgs, InsertSubscription(k, a) PROVE plans[p].active
    BY <1>2, <2>1, Holding DEF InsertSubscription, Working, NoneElseActive, BillingInv,
       BillingTypes
  <2>2. ASSUME NEW a \in Orgs, CancelSubscription(a) PROVE plans[p].active
    BY <1>2, <2>2 DEF CancelSubscription, BillingInv, BillingTypes
  <2>3. ASSUME onPlan' = onPlan PROVE plans[p].active
    BY <1>2, <2>3
  <2>4. QED
    BY <2>1, <2>2, <2>3
    DEF BillingNext, CreatePlan, CopyPlan, SeedRead, SeedWrite, LockPlan, JudgeEdit, SetPlanActive,
        RewritePlan, Release, CancelOld, SetBudget, JudgeCharge, RecordCharge, tradeVars, billingVars
<1>3. QED
  BY <1>1, <1>2 DEF SoldTermsHold, RetiredTakesNobody

Sifted(X, ch, ag) == {k \in X : Supported(k, X, ch, ag)}

IsRounds(f, S, ch, ag, n) ==
  f = [m \in 0..n |-> IF m = 0 THEN S ELSE Sifted(f[m - 1], ch, ag)]

(* A function that starts from S and sifts at every step exists.             *)
LEMMA RoundExists ==
  ASSUME NEW S, NEW ch, NEW ag, NEW n \in Nat
  PROVE  \E f : IsRounds(f, S, ch, ag, n)
<1> DEFINE Good(i) == \E f : f = [m \in 0..i |-> IF m = 0 THEN S ELSE Sifted(f[m - 1], ch, ag)]
<1> DEFINE Bad == {i \in Nat : ~Good(i)}
<1>1. Good(0)
  <2> DEFINE f == [m \in 0..0 |-> S]
  <2>1. [m \in 0..0 |-> S] = [m \in 0..0 |-> IF m = 0 THEN S ELSE Sifted(f[m - 1], ch, ag)]
    <3>1. \A m \in 0..0 : m = 0  OBVIOUS
    <3> HIDE DEF f
    <3> QED  BY <3>1
  <2> QED  BY <2>1
<1>2. ASSUME NEW x \in Nat, x # 0, Good(x - 1)  PROVE Good(x)
  <2>1. PICK g : g = [m \in 0..(x - 1) |-> IF m = 0 THEN S ELSE Sifted(g[m - 1], ch, ag)]
    BY <1>2
  <2> DEFINE f == [m \in 0..x |-> IF m = x THEN Sifted(g[x - 1], ch, ag) ELSE g[m]]
  <2>2. \A m \in 0..x : m # x => m \in 0..(x - 1)  BY <1>2
  <2>3. \A m \in 0..(x - 1) : f[m] = g[m]
    <3>1. \A m \in 0..(x - 1) : m \in 0..x /\ m # x  BY <1>2
    <3> QED  BY <3>1
  <2>4. f[x] = Sifted(f[x - 1], ch, ag)
    <3>1. x \in 0..x /\ x - 1 \in 0..(x - 1)  BY <1>2
    <3>2. f[x] = Sifted(g[x - 1], ch, ag)  BY <3>1
    <3>3. f[x - 1] = g[x - 1]  BY <3>1, <2>3
    <3> HIDE DEF f
    <3> QED  BY <3>2, <3>3
  <2>5. ASSUME NEW m \in 0..x
        PROVE  f[m] = IF m = 0 THEN S ELSE Sifted(f[m - 1], ch, ag)
    <3>1. CASE m = x
      <4>1. m # 0  BY <1>2, <3>1
      <4> HIDE DEF f
      <4> QED  BY <4>1, <3>1, <2>4
    <3>2. CASE m # x
      <4>1. m \in 0..(x - 1)  BY <3>2, <2>2
      <4>2. f[m] = g[m]  BY <4>1, <2>3
      <4>3. g[m] = IF m = 0 THEN S ELSE Sifted(g[m - 1], ch, ag)
        <5> HIDE DEF f
        <5> QED  BY <4>1, <2>1
      <4>4. m # 0 => f[m - 1] = g[m - 1]
        <5>1. m # 0 => m - 1 \in 0..(x - 1)  BY <4>1
        <5> QED  BY <5>1, <2>3
      <4> HIDE DEF f
      <4> QED  BY <4>2, <4>3, <4>4
    <3> QED  BY <3>1, <3>2
  <2>6. f = [m \in 0..x |-> f[m]]  OBVIOUS
  <2>7. [m \in 0..x |-> f[m]] = [m \in 0..x |-> IF m = 0 THEN S ELSE Sifted(f[m - 1], ch, ag)]
    <3> HIDE DEF f
    <3> QED  BY <2>5
  <2> HIDE DEF f
  <2> QED  BY <2>6, <2>7
<1> HIDE DEF Good
<1>3. Bad = {}
  <2> SUFFICES ASSUME Bad # {} PROVE FALSE  OBVIOUS
  <2>1. PICK x \in Bad : \A y \in Bad : x <= y  BY NatMinimum
  <2>2. x # 0  BY <1>1
  <2>3. x \in Nat /\ x - 1 \in Nat /\ ~(x <= x - 1)  BY <2>2
  <2>4. Good(x - 1)  BY <2>1, <2>3
  <2> QED  BY <1>2, <2>2, <2>3, <2>4
<1>4. Good(n)  BY <1>3
<1> QED  BY <1>4 DEF Good, IsRounds

LEMMA PrunedRounds ==
  ASSUME NEW S, NEW ch, NEW ag, IsFiniteSet(S)
  PROVE  \E r : /\ r[0] = S
                /\ \A m \in 1..Cardinality(S) : r[m] = Sifted(r[m - 1], ch, ag)
                /\ Pruned(S, ch, ag) = r[Cardinality(S)]
<1> DEFINE n == Cardinality(S)
           Is(f) == f = [m \in 0..n |->
                           IF m = 0 THEN S ELSE Sifted(f[m - 1], ch, ag)]
           r == CHOOSE f : Is(f)
<1>1. n \in Nat  BY FS_CardinalityType
<1>2. \E f : Is(f)
  <2> HIDE DEF n, r
  <2>1. \E f : IsRounds(f, S, ch, ag, n)  BY <1>1, RoundExists
  <2> QED  BY <2>1 DEF IsRounds
<1>3. Is(r)
  <2> HIDE DEF Is
  <2> QED  BY <1>2
<1>4. Pruned(S, ch, ag) = r[n]  BY DEF Pruned, Sifted
<1> HIDE DEF n, r
<1>5. r[0] = S  BY <1>1, <1>3
<1>6. \A m \in 1..n : r[m] = Sifted(r[m - 1], ch, ag)
  <2>1. \A m \in 1..n : m \in 0..n /\ m # 0  BY <1>1
  <2> QED  BY <2>1, <1>3
<1> QED  BY <1>4, <1>5, <1>6 DEF n

LEMMA SatisfiedGrows ==
  ASSUME NEW d, NEW X, NEW Y, NEW ch, NEW ag, NEW ch2, NEW ag2,
         X \subseteq Y, ch \subseteq ch2, ag \subseteq ag2, Satisfied(d, X, ch, ag)
  PROVE  Satisfied(d, Y, ch2, ag2)
<1> QED  BY DEF Satisfied

LEMMA SupportedGrows ==
  ASSUME NEW k, NEW X, NEW Y, NEW ch, NEW ag, NEW ch2, NEW ag2,
         X \subseteq Y, ch \subseteq ch2, ag \subseteq ag2, Supported(k, X, ch, ag)
  PROVE  Supported(k, Y, ch2, ag2)
<1> QED  BY SatisfiedGrows DEF Supported

SelfSupported(T, ch, ag) == \A k \in T : Supported(k, T, ch, ag)

LEMMA SiftedKeeps ==
  ASSUME NEW X, NEW T, NEW ch, NEW ag, SelfSupported(T, ch, ag), T \subseteq X
  PROVE  T \subseteq Sifted(X, ch, ag)
<1>1. \A k \in T : Supported(k, X, ch, ag)  BY SupportedGrows DEF SelfSupported
<1> QED  BY <1>1 DEF Sifted

LEMMA RoundsStay ==
  ASSUME NEW S, NEW ch, NEW ag, IsFiniteSet(S), NEW r, r[0] = S,
         \A m \in 1..Cardinality(S) : r[m] = Sifted(r[m - 1], ch, ag),
         NEW T \in SUBSET S, SelfSupported(T, ch, ag),
         NEW n \in 0..Cardinality(S)
  PROVE  /\ r[n] \subseteq S
         /\ T \subseteq r[n]
         /\ Sifted(r[n], ch, ag) = r[n] \/ Cardinality(r[n]) + n <= Cardinality(S)
<1> DEFINE C == Cardinality(S)
           Good(m) == /\ r[m] \subseteq S
                      /\ T \subseteq r[m]
                      /\ Sifted(r[m], ch, ag) = r[m] \/ Cardinality(r[m]) + m <= C
           Bad == {m \in 0..C : ~Good(m)}
<1>1. C \in Nat  BY FS_CardinalityType
<1>2. Good(0)  BY <1>1
<1>3. ASSUME NEW m \in 1..C, Good(m - 1)  PROVE Good(m)
  <2>1. r[m] = Sifted(r[m - 1], ch, ag)  OBVIOUS
  <2>2. r[m] \subseteq r[m - 1]  BY <2>1 DEF Sifted
  <2>3. r[m] \subseteq S  BY <1>3, <2>2
  <2>4. T \subseteq r[m]  BY <1>3, <2>1, SiftedKeeps
  <2>5. CASE r[m] = r[m - 1]
    <3>1. Sifted(r[m], ch, ag) = r[m]  BY <2>1, <2>5
    <3> QED  BY <2>3, <2>4, <3>1
  <2>6. CASE r[m] # r[m - 1]
    <3>1. Cardinality(r[m - 1]) + (m - 1) <= C  BY <1>3, <2>1, <2>6
    <3>2. IsFiniteSet(r[m - 1])  BY <1>3, FS_Subset
    <3>3. Cardinality(r[m]) < Cardinality(r[m - 1])
      <4> HIDE DEF C
      <4>1. Cardinality(r[m]) <= Cardinality(r[m - 1])
              /\ (Cardinality(r[m]) = Cardinality(r[m - 1]) => r[m] = r[m - 1])
        BY <2>2, <3>2, FS_Subset
      <4>2. Cardinality(r[m]) \in Nat /\ Cardinality(r[m - 1]) \in Nat
        BY <2>2, <3>2, FS_Subset, FS_CardinalityType
      <4> QED  BY <4>1, <4>2, <2>6
    <3>4. Cardinality(r[m]) \in Nat /\ Cardinality(r[m - 1]) \in Nat
      BY <2>2, <3>2, FS_Subset, FS_CardinalityType
    <3>5. Cardinality(r[m]) + m <= C
      <4> HIDE DEF C
      <4> QED  BY <1>1, <3>1, <3>3, <3>4
    <3> QED  BY <2>3, <2>4, <3>5
  <2> QED  BY <2>5, <2>6
<1> HIDE DEF Good, C
<1>4. Bad = {}
  <2> SUFFICES ASSUME Bad # {} PROVE FALSE  OBVIOUS
  <2>0. Bad \subseteq Nat  BY <1>1
  <2>1. PICK x \in Bad : \A y \in Bad : x <= y  BY <2>0, NatMinimum
  <2>2. x # 0  BY <1>2
  <2>3. x \in 1..C /\ x - 1 \in 0..C /\ ~(x <= x - 1)  BY <1>1, <2>2
  <2>4. Good(x - 1)  BY <2>1, <2>3
  <2> QED  BY <1>3, <2>3, <2>4
<1>5. Good(n)  BY <1>4 DEF C
<1> QED  BY <1>5 DEF Good, C

LEMMA PrunedIsLargest ==
  ASSUME NEW S, NEW ch, NEW ag, IsFiniteSet(S)
  PROVE  /\ Pruned(S, ch, ag) \subseteq S
         /\ SelfSupported(Pruned(S, ch, ag), ch, ag)
         /\ \A T \in SUBSET S : SelfSupported(T, ch, ag) => T \subseteq Pruned(S, ch, ag)
<1> DEFINE C == Cardinality(S)
<1>1. PICK r : /\ r[0] = S
               /\ \A m \in 1..C : r[m] = Sifted(r[m - 1], ch, ag)
               /\ Pruned(S, ch, ag) = r[C]
  BY PrunedRounds
<1>2. C \in Nat /\ C \in 0..C  BY FS_CardinalityType
<1>3. ASSUME NEW T \in SUBSET S, SelfSupported(T, ch, ag)  PROVE T \subseteq r[C]
  BY <1>1, <1>2, <1>3, RoundsStay
<1>4. SelfSupported({}, ch, ag)  BY DEF SelfSupported
<1>5. /\ r[C] \subseteq S
      /\ Sifted(r[C], ch, ag) = r[C] \/ Cardinality(r[C]) + C <= C
  <2>1. {} \in SUBSET S  OBVIOUS
  <2> QED  BY <1>1, <1>2, <1>4, <2>1, RoundsStay
<1>6. Sifted(r[C], ch, ag) = r[C]
  <2>1. CASE Cardinality(r[C]) + C <= C
    <3>1. IsFiniteSet(r[C])  BY <1>5, FS_Subset
    <3>2. Cardinality(r[C]) \in Nat  BY <3>1, FS_CardinalityType
    <3>3. Cardinality(r[C]) = 0
      <4> HIDE DEF C
      <4> QED  BY <1>2, <2>1, <3>2
    <3>4. r[C] = {}  BY <3>1, <3>3, FS_EmptySet
    <3> QED  BY <3>4 DEF Sifted
  <2> QED  BY <1>5, <2>1
<1>7. SelfSupported(r[C], ch, ag)  BY <1>6 DEF Sifted, SelfSupported
<1> QED  BY <1>1, <1>3, <1>5, <1>7

-----------------------------------------------------------------------------
LEMMA SurvivorsFinite ==
  ASSUME NEW config, NEW packs, NEW t
  PROVE  Survivors(config, packs, t) \subseteq Keys /\ IsFiniteSet(Survivors(config, packs, t))
<1>1. Survivors(config, packs, t) \subseteq Keys  BY DEF Survivors, Grantable
<1>2. IsFiniteSet(Keys)  BY EntAssumption DEF Keys
<1> QED  BY <1>1, <1>2, FS_Subset

(* What the resolver grants is the largest self-supported set of survivors.  *)
LEMMA GrantedIsLargest ==
  ASSUME NEW config, NEW packs, NEW instances, NEW t
  PROVE  LET S == Survivors(config, packs, t)
             ch == Channels(config)
             ag == Agents(config, instances)
         IN /\ Granted(config, packs, instances, t) \subseteq S
            /\ SelfSupported(Granted(config, packs, instances, t), ch, ag)
            /\ \A T \in SUBSET S :
                 SelfSupported(T, ch, ag) => T \subseteq Granted(config, packs, instances, t)
<1>1. IsFiniteSet(Survivors(config, packs, t))  BY SurvivorsFinite
<1> QED  BY <1>1, PrunedIsLargest DEF Granted

LEMMA LargestHolds == GrantsAreLargest
<1> DEFINE S == Survivors(plan, installed, now)
           ch == Channels(plan)
           ag == Agents(plan, bound)
           G == Granted(plan, installed, bound, now)
           self == {T \in SUBSET S : \A k \in T : Supported(k, T, ch, ag)}
<1>1. /\ G \subseteq S
      /\ SelfSupported(G, ch, ag)
      /\ \A T \in SUBSET S : SelfSupported(T, ch, ag) => T \subseteq G
  BY GrantedIsLargest
<1> HIDE DEF S, ch, ag, G
<1>2. G \in self  BY <1>1 DEF SelfSupported
<1>3. \A T \in self : T \subseteq G  BY <1>1 DEF SelfSupported
<1> HIDE DEF self
<1>4. G = UNION self  BY <1>2, <1>3, Zenon
<1> QED  BY <1>4 DEF GrantsAreLargest, self, S, ch, ag, G

-----------------------------------------------------------------------------
EntTypes ==
  /\ plan \in Configs \cup {NoConfig}  \/ source # {}
  /\ source \subseteq Configs
  /\ \A s, r \in source : s = r
  /\ IsFiniteSet(source)
  /\ blessed \in BOOLEAN /\ installed \subseteq Packs
  /\ bound \subseteq Of("agent") /\ now \in 0..LastTick

(* validate_draft still finds nothing wrong with a plan it passed, copied or  *)
(* not.                                                                       *)
StillValid == blessed => Valid(plan)

(* The store holds the copy of what it was copied from.                       *)
HoldsCopy == \A s \in source : plan = Copied(s)

EntInv == EntTypes /\ StillValid /\ HoldsCopy

LEMMA CopyOfValid ==
  ASSUME NEW config \in Configs \cup {NoConfig}, Valid(config)
  PROVE  Valid(Copied(config))
<1>1. config.schema = "one"  BY DEF Valid
<1>2. Copied(config) = [config EXCEPT !.features = {}]  BY <1>1 DEF Copied, Legacy
<1>3. config = [schema |-> config.schema, entitlements |-> config.entitlements,
                features |-> config.features, vertical |-> config.vertical,
                agents |-> config.agents, channels |-> config.channels,
                promotions |-> config.promotions]
  BY EntAssumption DEF NoConfig
<1>4. LET c == Copied(config)
      IN /\ c.schema = config.schema /\ c.entitlements = config.entitlements
         /\ c.vertical = config.vertical /\ c.agents = config.agents
         /\ c.channels = config.channels /\ c.promotions = config.promotions
  BY <1>2, <1>3
<1> QED  BY <1>4 DEF Valid, SoundPromotion, Fits

LEMMA EntStarts == EntInit => EntInv
<1> SUFFICES ASSUME EntInit PROVE EntInv  OBVIOUS
<1>1. EntTypes
  <2>1. IsFiniteSet({})  BY FS_EmptySet
  <2>2. 0 \in 0..LastTick  BY EntAssumption
  <2> QED  BY <2>1, <2>2 DEF EntInit, EntTypes
<1>2. StillValid  BY DEF EntInit, StillValid
<1>3. HoldsCopy  BY DEF EntInit, HoldsCopy
<1> QED  BY <1>1, <1>2, <1>3 DEF EntInv

LEMMA EntSteps == EntInv /\ [EntNext]_entVars => EntInv'
<1> SUFFICES ASSUME EntInv, [EntNext]_entVars PROVE EntInv'  OBVIOUS
<1> USE DEF EntInv
<1>1. ASSUME NEW config \in Configs, AssignBuilt(config)  PROVE EntInv'
  <2>1. EntTypes'  BY <1>1 DEF EntTypes, AssignBuilt
  <2>2. StillValid'  BY <1>1 DEF StillValid, AssignBuilt
  <2>3. HoldsCopy'  BY <1>1 DEF HoldsCopy, AssignBuilt
  <2> QED  BY <2>1, <2>2, <2>3
<1>2. ASSUME NEW config \in Configs, AssignStored(config)  PROVE EntInv'
  <2>1. EntTypes'  BY <1>2 DEF EntTypes, AssignStored
  <2>2. ~Valid(NoConfig)  BY DEF Valid, NoConfig
  <2>3. StillValid'  BY <1>2, <2>2 DEF StillValid, AssignStored
  <2>4. HoldsCopy'  BY <1>2 DEF HoldsCopy, AssignStored
  <2> QED  BY <2>1, <2>3, <2>4
<1>3. CASE AssignCopy
  <2>1. plan \in Configs /\ source' = {plan}  BY <1>3 DEF AssignCopy, EntTypes
  <2>2. IsFiniteSet({plan})  BY FS_Singleton
  <2>3. EntTypes'  BY <1>3, <2>1, <2>2 DEF EntTypes, AssignCopy
  <2>4. StillValid'  BY <1>3, <2>1, CopyOfValid DEF StillValid, AssignCopy
  <2>5. HoldsCopy'  BY <1>3, <2>1 DEF HoldsCopy, AssignCopy
  <2> QED  BY <2>3, <2>4, <2>5
<1>4. ASSUME NEW p \in Packs, InstallPack(p) \/ UninstallPack(p)  PROVE EntInv'
  <2>1. UNCHANGED <<plan, source, blessed, bound, now>>  BY <1>4 DEF InstallPack, UninstallPack
  <2>2. installed' \subseteq Packs  BY <1>4 DEF InstallPack, UninstallPack, EntTypes
  <2>3. EntTypes'  BY <2>1, <2>2 DEF EntTypes
  <2> QED  BY <2>1, <2>3 DEF StillValid, HoldsCopy
<1>5. CASE ReconcileAgents
  <2>1. UNCHANGED <<plan, source, blessed, installed, now>>  BY <1>5 DEF ReconcileAgents
  <2>2. bound' \subseteq Of("agent")  BY <1>5 DEF ReconcileAgents, EntTypes
  <2>3. EntTypes'  BY <2>1, <2>2 DEF EntTypes
  <2> QED  BY <2>1, <2>3 DEF StillValid, HoldsCopy
<1>6. CASE Tick
  <2>1. UNCHANGED <<plan, source, blessed, installed, bound>>  BY <1>6 DEF Tick
  <2>2. now' \in 0..LastTick  BY <1>6, EntAssumption DEF Tick, EntTypes
  <2>3. EntTypes'  BY <2>1, <2>2 DEF EntTypes
  <2> QED  BY <2>1, <2>3 DEF StillValid, HoldsCopy
<1>7. CASE UNCHANGED entVars
  BY <1>7 DEF entVars, EntTypes, StillValid, HoldsCopy
<1> QED  BY <1>1, <1>2, <1>3, <1>4, <1>5, <1>6, <1>7 DEF EntNext

(* A plan validate_draft passed: what it names is supported by itself.       *)
LEMMA ValidDelivers ==
  ASSUME NEW config, Valid(config), NEW packs, NEW instances, NEW t,
         config.vertical \in packs \cup {""}, config.agents \subseteq instances
  PROVE  /\ {Canonical(k) : k \in config.entitlements} \subseteq Granted(config, packs, instances, t)
         /\ \A p \in config.promotions :
              Live(p, t) => Canonical(p.key) \in Granted(config, packs, instances, t)
<1> DEFINE caps == {Canonical(k) : k \in config.entitlements}
           promoted == {Canonical(p.key) : p \in {q \in config.promotions : Live(q, t)}}
           T == caps \cup promoted
           S == Survivors(config, packs, t)
           ch == Channels(config)
           ag == Agents(config, instances)
<1>1. T = Candidates(config, t)  BY DEF Valid, Candidates, Legacy
<1>2. config.channels \subseteq ch  BY DEF Valid, Channels, Legacy
<1>3. config.agents \subseteq ag  BY DEF Valid, Agents
<1>4. ASSUME NEW k \in T
      PROVE  Grantable(k) /\ Fits(k, config) /\ Supported(k, T, ch, ag)
  <2>1. CASE k \in caps
    <3>1. Grantable(k) /\ Fits(k, config) /\ Supported(k, caps, config.channels, config.agents)
      BY <2>1 DEF Valid
    <3>2. caps \subseteq T  OBVIOUS
    <3> HIDE DEF caps, promoted, T, ch, ag
    <3> QED  BY <1>2, <1>3, <3>1, <3>2, SupportedGrows
  <2>2. CASE k \in promoted
    <3>1. PICK p \in config.promotions : k = Canonical(p.key)  BY <2>2
    <3>2. Grantable(k) /\ Fits(k, config)
            /\ Supported(k, caps \cup {k}, config.channels, config.agents)
      BY <3>1 DEF Valid, SoundPromotion
    <3>3. caps \cup {k} \subseteq T  BY <2>2
    <3> DEFINE X == caps \cup {k}
    <3>4. X \subseteq T /\ Supported(k, X, config.channels, config.agents)  BY <3>2, <3>3
    <3> HIDE DEF caps, promoted, T, ch, ag, X
    <3>5. Supported(k, T, ch, ag)  BY <1>2, <1>3, <3>4, SupportedGrows
    <3> QED  BY <3>2, <3>5
  <2> QED  BY <2>1, <2>2
<1>5. T \subseteq S
  <2>1. ASSUME NEW k \in T  PROVE Catalogue[k].vertical \in packs \cup {""}
    <3>1. Catalogue[k].vertical \in {"", config.vertical}  BY <1>4 DEF Fits
    <3> QED  BY <3>1
  <2> HIDE DEF T
  <2> QED  BY <1>1, <1>4, <2>1 DEF Survivors
<1>6. SelfSupported(T, ch, ag)
  <2> HIDE DEF T, ch, ag
  <2> QED  BY <1>4 DEF SelfSupported
<1>7. T \subseteq Granted(config, packs, instances, t)
  <2> HIDE DEF T
  <2> QED  BY <1>5, <1>6, GrantedIsLargest
<1> QED  BY <1>7

(* copy_plan writes out what a plan of the old form granted.                 *)
LEMMA CopyDelivers ==
  ASSUME NEW s \in Configs, NEW packs, NEW instances, NEW t
  PROVE  Granted(Copied(s), packs, instances, t) = Granted(s, packs, instances, t)
<1> DEFINE c == Copied(s)
<1>1. s = [schema |-> s.schema, entitlements |-> s.entitlements, features |-> s.features,
           vertical |-> s.vertical, agents |-> s.agents, channels |-> s.channels,
           promotions |-> s.promotions]
  BY EntAssumption
<1>2. c.promotions = s.promotions /\ c.agents = s.agents  BY <1>1 DEF Copied
<1>3. CASE ~Legacy(s)
  <2>1. c.schema = s.schema /\ c.entitlements = s.entitlements /\ c.channels = s.channels
    BY <1>1, <1>3 DEF Copied
  <2> HIDE DEF c
  <2>2. Candidates(c, t) = Candidates(s, t)
    BY <1>2, <1>3, <2>1 DEF Candidates, Legacy
  <2>3. Channels(c) = Channels(s) /\ Agents(c, instances) = Agents(s, instances)
    BY <1>2, <1>3, <2>1 DEF Channels, Agents, Legacy
  <2> QED  BY <2>2, <2>3 DEF Granted, Survivors, c
<1>4. CASE Legacy(s)
  <2>1. /\ c.schema = "one" /\ c.entitlements = LegacyCaps(s)
        /\ c.channels = s.channels \cup ImpliedChannels(LegacyCaps(s))
    BY <1>1, <1>4 DEF Copied
  <2> HIDE DEF c
  <2>2. {Canonical(k) : k \in LegacyCaps(s)} = LegacyCaps(s)
    <3>1. LegacyCaps(s) \subseteq LegacyBaseline \cup LegacyKeys  BY DEF LegacyCaps
    <3>2. \A k \in LegacyCaps(s) : Canonical(k) = k  BY <3>1, EntAssumption DEF Canonical
    <3> QED  BY <3>2
  <2>3. Candidates(c, t) = Candidates(s, t)
    <3>1. s.schema # "unknown" /\ c.schema # "unknown" /\ ~Legacy(c)
      BY <1>4, <2>1 DEF Legacy
    <3> QED  BY <1>2, <1>4, <2>1, <2>2, <3>1 DEF Candidates
  <2>4. Channels(c) = Channels(s)
    <3>1. s.schema # "unknown" /\ c.schema # "unknown" /\ ~Legacy(c)
      BY <1>4, <2>1 DEF Legacy
    <3>2. ImpliedChannels(LegacyCaps(s)) \subseteq Of("channel")  BY DEF ImpliedChannels
    <3> QED  BY <1>4, <2>1, <3>1, <3>2 DEF Channels
  <2>5. Agents(c, instances) = Agents(s, instances)
    BY <1>2, <1>4, <2>1 DEF Agents, Legacy
  <2> QED  BY <2>3, <2>4, <2>5 DEF Granted, Survivors, c
<1> QED  BY <1>3, <1>4

LEMMA EntInvShows ==
  EntInv => EntTypeOK /\ BlessedPlanDelivers /\ GrantsAreLargest /\ CopyKeepsGrants
<1> SUFFICES ASSUME EntInv
             PROVE  EntTypeOK /\ BlessedPlanDelivers /\ GrantsAreLargest /\ CopyKeepsGrants
  OBVIOUS
<1> USE DEF EntInv
<1>1. EntTypeOK
  <2>1. Cardinality(source) < 2
    <3>1. CASE source = {}  BY <3>1, FS_EmptySet
    <3>2. CASE source # {}
      <4>1. PICK s : s \in source  BY <3>2
      <4>2. source = {s}  BY <4>1 DEF EntTypes
      <4>3. Cardinality(source) = 1  BY <4>2, FS_Singleton, Zenon
      <4> QED  BY <4>3
    <3> QED  BY <3>1, <3>2
  <2> QED  BY <2>1 DEF EntTypeOK, EntTypes
<1>2. BlessedPlanDelivers
  <2> SUFFICES ASSUME blessed, plan.vertical \in installed \cup {""}, plan.agents \subseteq bound
               PROVE  /\ {Canonical(k) : k \in plan.entitlements}
                           \subseteq Granted(plan, installed, bound, now)
                      /\ \A p \in plan.promotions :
                           Live(p, now) => Canonical(p.key) \in Granted(plan, installed, bound, now)
    BY DEF BlessedPlanDelivers
  <2>1. Valid(plan)  BY DEF StillValid
  <2> QED  BY <2>1, ValidDelivers
<1>3. CopyKeepsGrants
  <2> SUFFICES ASSUME NEW s \in source
               PROVE  Granted(plan, installed, bound, now) = Granted(s, installed, bound, now)
    BY DEF CopyKeepsGrants
  <2>1. s \in Configs /\ plan = Copied(s)  BY DEF EntTypes, HoldsCopy
  <2> QED  BY <2>1, CopyDelivers
<1> QED  BY <1>1, <1>2, <1>3, LargestHolds

(*************************************************************************)
(* Catalog and its imports                                               *)
(*************************************************************************)

(* A row whose updated_at did not move had writes of its pictures only.      *)
ItemFields == [key : IdemKeys \cup {Blank}, sku : Skus \cup {Blank}, saw : Nat, row : Nat,
               live : BOOLEAN, written : Nat, pictured : Nat, stamped : BOOLEAN,
               patched : BOOLEAN, raced : BOOLEAN]
ItemRow == {x \in ItemFields : ~x.stamped => x.written = x.pictured}
OnlyPictured(x) == x.raced \/ x.written = x.pictured
Call_ == [doing : BOOLEAN, key : IdemKeys \cup {Blank}, sku : Skus \cup {Blank}, read : Nat]
StagedRow == [state : {"extracted", "confirmed", "rejected", "loaded", "skipped_duplicate"},
              sku : Skus \cup {Blank}, titled : BOOLEAN, flagged : BOOLEAN]
Job_ == [doing : {"nothing", "extracting", "validating", "loading", "extracted", "review",
                  "loaded", "confirm", "reverted"},
         from : {"created", "extracted", "review", "failed"},
         rows : SUBSET Nat, skips : SUBSET Nat, stale : SUBSET Nat, saw : Nat]

IngestionTypes ==
  /\ items \in Seq(ItemRow) /\ Len(items) <= MaxItems
  /\ request \in [Callers_ -> Call_]
  /\ import \in {"created", "extracted", "review", "loaded", "reverted", "failed"}
  /\ staged \in Seq(StagedRow) /\ Len(staged) \in {0, Len(Sheet)}
  /\ handler \in [Handlers -> Job_]
  /\ blob \in BOOLEAN /\ overwrote \in BOOLEAN /\ slipped \subseteq DOMAIN staged

(* Up to row n no live item holds the sku, but one a patch made so.          *)
Clear(sku, n) ==
  \A i \in DOMAIN items :
    i <= n /\ items[i].live /\ items[i].sku = sku /\ sku # Blank => items[i].patched
CallClear(r) == r.doing => r.read <= Len(items) /\ Clear(r.sku, r.read)

(* What each request on the batch holds is true of the batch now:            *)
HoldsLock(j) == j.doing \in {"extracted", "review", "loaded"}
JobInRange(j) ==
  j.doing \in {"confirm", "review", "loaded"} =>
    j.rows \subseteq DOMAIN staged /\ j.stale \subseteq DOMAIN staged
JobClear(j) ==
  j.doing = "loaded" =>
    /\ j.saw <= Len(items)
    /\ \A i \in j.rows : Clear(staged[i].sku, j.saw)
    /\ \A i, k \in j.rows : staged[i].sku = staged[k].sku /\ staged[i].sku # Blank => i = k
JobFirst(j) == HoldsLock(j) /\ ~overwrote => import \notin {"loaded", "reverted"}
JobTitles(j) ==
  /\ j.doing = "confirm" =>
       \A i \in j.rows : staged[i].titled \/ i \in j.stale \/ i \in slipped
  /\ j.doing = "review" =>
       \A i \in DOMAIN staged : staged[i].titled \/ i \in j.rows \/ i \in j.stale \/ i \in slipped
JobSpares(j) ==
  j.doing = "reverted" =>
    j.rows \subseteq DOMAIN items /\ \A i \in j.rows : OnlyPictured(items[i])
JobOK(j) == JobInRange(j) /\ JobClear(j) /\ JobFirst(j) /\ JobTitles(j) /\ JobSpares(j)

OneHolder == \A g, h \in Handlers : HoldsLock(handler[g]) /\ HoldsLock(handler[h]) => g = h
JobsTrue == \A h \in Handlers : JobOK(handler[h])
CallsTrue == \A c \in Callers_ : CallClear(request[c])

(* Rows became items only if the batch was loaded.                           *)
LoadedIfRows ==
  ~overwrote => \A i \in DOMAIN items : items[i].row # 0 => import \in {"loaded", "reverted"}

(* A row without a title is flagged, or slipped.                             *)
FlagsTrue ==
  /\ \A i \in DOMAIN staged : staged[i].titled \/ staged[i].flagged \/ i \in slipped
  /\ UntitledSlippedIn

IngestionInv ==
  /\ IngestionTypes /\ OneHolder /\ JobsTrue /\ CallsTrue
  /\ OneItemPerKey /\ DuplicatesOverlapped /\ LoadedIfRows /\ RowsLoadOnce /\ FlagsTrue

LEMMA RestingJob ==
  /\ Resting_ \in Job_ /\ Resting_.doing = "nothing"
  /\ ~HoldsLock(Resting_) /\ JobOK(Resting_)
<1>1. Resting_ \in Job_ /\ Resting_.doing = "nothing"  BY DEF Resting_, Job_
<1> QED  BY <1>1 DEF HoldsLock, JobOK, JobInRange, JobClear, JobFirst, JobTitles, JobSpares

LEMMA NoCall == NoRequest \in Call_ /\ ~NoRequest.doing
<1> QED  BY DEF NoRequest, Call_

LEMMA IngestionStarts == IngestionInit => IngestionInv
<1> SUFFICES ASSUME IngestionInit PROVE IngestionInv  OBVIOUS
<1>1. /\ items = << >> /\ request = [c \in Callers_ |-> NoRequest] /\ import = "created"
      /\ staged = << >> /\ handler = [h \in Handlers |-> Resting_] /\ blob = TRUE
      /\ overwrote = FALSE /\ slipped = {}
  BY DEF IngestionInit, CatalogInit
<1>2. IngestionTypes
  <2>1. items \in Seq(ItemRow) /\ Len(items) = 0 /\ staged \in Seq(StagedRow) /\ Len(staged) = 0
    BY <1>1
  <2>2. request \in [Callers_ -> Call_]  BY <1>1, NoCall
  <2>3. handler \in [Handlers -> Job_]  BY <1>1, RestingJob
  <2>4. 0 <= MaxItems  BY CatalogAssumption
  <2> QED  BY <1>1, <2>1, <2>2, <2>3, <2>4 DEF IngestionTypes
<1>3. OneHolder /\ JobsTrue  BY <1>1, RestingJob DEF OneHolder, JobsTrue
<1>4. CallsTrue  BY <1>1, NoCall DEF CallsTrue, CallClear
<1>5. OneItemPerKey /\ DuplicatesOverlapped /\ LoadedIfRows /\ RowsLoadOnce
  BY <1>1 DEF OneItemPerKey, DuplicatesOverlapped, LoadedIfRows, RowsLoadOnce
<1>6. FlagsTrue  BY <1>1 DEF FlagsTrue, UntitledSlippedIn
<1> QED  BY <1>2, <1>3, <1>4, <1>5, <1>6 DEF IngestionInv

(* Items are added behind those that are there.                              *)
LEMMA ItemsAppended ==
  ASSUME IngestionInv, NEW more \in Seq(ItemRow), items' = items \o more,
         Len(items) + Len(more) <= MaxItems,
         \A n \in DOMAIN more : /\ Clear(more[n].sku, more[n].saw) /\ more[n].saw <= Len(items)
                                /\ ~KeyTaken(more[n].key),
         \A m, n \in DOMAIN more : more[m].sku = more[n].sku /\ more[m].sku # Blank => m = n,
         \A m, n \in DOMAIN more : more[m].key = more[n].key /\ more[m].key # Blank => m = n
  PROVE  /\ items' \in Seq(ItemRow) /\ Len(items') <= MaxItems /\ Len(items') >= Len(items)
         /\ OneItemPerKey' /\ DuplicatesOverlapped'
         /\ \A i \in DOMAIN items : i \in DOMAIN items' /\ items'[i] = items[i]
         /\ \A i \in DOMAIN items' : i \in DOMAIN items
                                     \/ (i - Len(items) \in DOMAIN more /\ items'[i] = more[i - Len(items)])
         /\ \A sku, n : n \in Nat /\ n <= Len(items) /\ Clear(sku, n) => Clear(sku, n)'
<1> USE DEF IngestionInv
<1> DEFINE k == Len(items)
<1>1. items \in Seq(ItemRow) /\ k \in Nat /\ Len(more) \in Nat /\ k + Len(more) <= MaxItems
  BY DEF IngestionTypes
<1>2. items' \in Seq(ItemRow) /\ Len(items') = k + Len(more)  BY <1>1
<1>3. \A i \in DOMAIN items : i \in DOMAIN items' /\ items'[i] = items[i]  BY <1>1
<1>4. \A i \in DOMAIN items' : i \in DOMAIN items
                               \/ (i > k /\ i - k \in DOMAIN more /\ items'[i] = more[i - k])
  <2> SUFFICES ASSUME NEW i \in DOMAIN items', i \notin DOMAIN items
               PROVE  i > k /\ i - k \in DOMAIN more /\ items'[i] = more[i - k]
    OBVIOUS
  <2>1. i \in 1..(k + Len(more)) /\ i \notin 1..k  BY <1>1, <1>2
  <2>2. i > k /\ i - k \in 1..Len(more)
    <3> HIDE DEF k
    <3> QED  BY <1>1, <2>1
  <2> QED  BY <1>1, <2>1, <2>2
<1>5. \A i \in DOMAIN items : i \in 1..k  BY <1>1
<1>6. \A i \in DOMAIN items' : i \in Nat  BY <1>2
<1>7. OneItemPerKey'  BY <1>1, <1>3, <1>4, <1>6 DEF OneItemPerKey, KeyTaken
<1>8. DuplicatesOverlapped'
  <2> SUFFICES ASSUME NEW i \in DOMAIN items', NEW j \in DOMAIN items', i < j,
                      items'[i].live, items'[j].live, items'[i].sku = items'[j].sku,
                      items'[i].sku # Blank, ~items'[i].patched, ~items'[j].patched
               PROVE  items'[j].saw < i
    BY DEF DuplicatesOverlapped
  <2>1. CASE i \in DOMAIN items /\ j \in DOMAIN items
    BY <1>3, <2>1 DEF DuplicatesOverlapped
  <2>2. CASE i \notin DOMAIN items /\ j \notin DOMAIN items  BY <1>1, <1>4, <1>6, <2>2
  <2>3. CASE i \in DOMAIN items /\ j \notin DOMAIN items
    <3>1. j - k \in DOMAIN more /\ items'[j] = more[j - k]  BY <1>4, <2>3
    <3>2. Clear(items'[j].sku, items'[j].saw)  BY <3>1
    <3>3. items'[j] \in ItemRow  BY <1>2
    <3>4. items'[j].saw \in Nat  BY <3>3 DEF ItemRow, ItemFields
    <3>5. ~(i <= items'[j].saw)  BY <1>3, <2>3, <3>2 DEF Clear
    <3> QED  BY <1>6, <3>4, <3>5
  <2>4. CASE i \notin DOMAIN items /\ j \in DOMAIN items  BY <1>1, <1>4, <1>5, <1>6, <2>4
  <2> QED  BY <2>1, <2>2, <2>3, <2>4
<1>9. ASSUME NEW sku, NEW n \in Nat, n <= k, Clear(sku, n)  PROVE Clear(sku, n)'
  BY <1>1, <1>3, <1>4, <1>6, <1>9 DEF Clear
<1>10. \A sku, n : n \in Nat /\ n <= k /\ Clear(sku, n) => Clear(sku, n)'
  <2> HIDE DEF k
  <2> QED  BY <1>9
<1> QED  BY <1>1, <1>2, <1>3, <1>4, <1>7, <1>8, <1>10

(* Items are written where they are: none comes to life or gets a sku         *)
(* without being marked patched.                                             *)
SameIdentity(x, y) ==
  /\ y.key = x.key /\ y.saw = x.saw /\ y.row = x.row
  /\ x.patched => y.patched
  /\ y.live /\ ~y.patched => x.live /\ y.sku = x.sku

LEMMA ItemsWritten ==
  ASSUME IngestionInv, items' \in Seq(ItemRow), Len(items') = Len(items),
         \A i \in DOMAIN items : SameIdentity(items[i], items'[i])
  PROVE  /\ OneItemPerKey' /\ DuplicatesOverlapped'
         /\ \A sku, n : Clear(sku, n) => Clear(sku, n)'
         /\ \A i \in DOMAIN items' : items'[i].row = items[i].row
<1> USE DEF IngestionInv
<1>1. DOMAIN items' = DOMAIN items /\ \A i \in DOMAIN items : items[i] \in ItemRow /\ items'[i] \in ItemRow
  BY DEF IngestionTypes
<1>2. OneItemPerKey'  BY <1>1 DEF OneItemPerKey, SameIdentity
<1>3. DuplicatesOverlapped'  BY <1>1 DEF DuplicatesOverlapped, SameIdentity
<1>4. ASSUME NEW sku, NEW n, Clear(sku, n)  PROVE Clear(sku, n)'
  BY <1>1, <1>4 DEF Clear, SameIdentity
<1>5. \A i \in DOMAIN items' : items'[i].row = items[i].row  BY <1>1 DEF SameIdentity
<1> QED  BY <1>2, <1>3, <1>4, <1>5

(* A call on the catalog, which leaves the batch alone.                      *)
LEMMA CatalogKeeps ==
  ASSUME IngestionInv, UNCHANGED importVars,
         items' \in Seq(ItemRow), Len(items') <= MaxItems, Len(items) <= Len(items'),
         request' \in [Callers_ -> Call_], CallsTrue', OneItemPerKey', DuplicatesOverlapped',
         \A sku, n : n \in Nat /\ n <= Len(items) /\ Clear(sku, n) => Clear(sku, n)',
         \A i \in DOMAIN items :
           /\ items'[i].row = items[i].row
           /\ (\E h \in Handlers : handler[h].doing = "reverted") =>
                (OnlyPictured(items[i]) => OnlyPictured(items'[i])),
         \A i \in DOMAIN items' : i \notin DOMAIN items => items'[i].row = 0
  PROVE  IngestionInv'
<1> USE DEF IngestionInv
<1>1. UNCHANGED <<import, staged, handler, blob, overwrote, slipped>>  BY DEF importVars
<1>2. DOMAIN items \subseteq DOMAIN items' /\ Len(items) \in Nat /\ Len(items') \in Nat
  BY DEF IngestionTypes
<1>3. IngestionTypes'  BY <1>1 DEF IngestionTypes
<1>4. OneHolder'  BY <1>1 DEF OneHolder, HoldsLock
<1>5. ASSUME NEW h \in Handlers  PROVE JobOK(handler[h])'
  BY <1>1, <1>2 DEF JobsTrue, IngestionTypes, JobClear, JobOK, Job_, JobSpares, JobInRange,
     JobFirst, JobTitles, HoldsLock
<1>6. JobsTrue'  BY <1>5 DEF JobsTrue
<1>7. LoadedIfRows'
  BY <1>1 DEF LoadedIfRows
<1>8. RowsLoadOnce'  BY <1>1 DEF RowsLoadOnce
<1>9. FlagsTrue'  BY <1>1 DEF FlagsTrue, UntitledSlippedIn
<1> QED  BY <1>3, <1>4, <1>6, <1>7, <1>8, <1>9

LEMMA ReadCreateKeeps ==
  ASSUME IngestionInv, UNCHANGED importVars, NEW c \in Callers_, NEW key \in IdemKeys \cup {Blank},
         NEW sku \in Skus \cup {Blank}, ReadCreate(c, key, sku)
  PROVE  IngestionInv'
<1> USE DEF IngestionInv
<1> DEFINE r == [doing |-> TRUE, key |-> key, sku |-> sku, read |-> Len(items)]
<1>1. request' = [request EXCEPT ![c] = r] /\ items' = items /\ SameSku(items, sku) = {}
  BY DEF ReadCreate, Ask
<1>2. Len(items) \in Nat  BY DEF IngestionTypes
<1>3. r \in Call_  BY <1>2 DEF Call_
<1>4. r.read = Len(items) /\ r.sku = sku  OBVIOUS
<1> HIDE DEF r
<1>5. \A n : Clear(sku, n)  BY <1>1 DEF SameSku, Clear
<1>6. request' \in [Callers_ -> Call_]  BY <1>1, <1>3 DEF IngestionTypes
<1>7. CallsTrue'  BY <1>1, <1>2, <1>4, <1>5 DEF CallsTrue, IngestionTypes, CallClear, Clear
<1>8. /\ items' \in Seq(ItemRow) /\ Len(items') <= MaxItems /\ Len(items) <= Len(items')
      /\ OneItemPerKey' /\ DuplicatesOverlapped'
      /\ \A s, n : Clear(s, n) => Clear(s, n)'
  BY <1>1, <1>2 DEF IngestionTypes, OneItemPerKey, DuplicatesOverlapped, Clear
<1> QED  BY <1>1, <1>6, <1>7, <1>8, CatalogKeeps

(* A call that ends, or fails; what the other calls hold is untouched.        *)
LEMMA CallEnds ==
  ASSUME IngestionInv, NEW c \in Callers_, Ask(c, NoRequest),
         Len(items) <= Len(items'), items' \in Seq(ItemRow),
         \A sku, n : n \in Nat /\ n <= Len(items) /\ Clear(sku, n) => Clear(sku, n)'
  PROVE  request' \in [Callers_ -> Call_] /\ CallsTrue'
<1> USE DEF IngestionInv
<1>1. request' = [request EXCEPT ![c] = NoRequest]  BY DEF Ask
<1>2. request' \in [Callers_ -> Call_]  BY <1>1, NoCall DEF IngestionTypes
<1>3. ASSUME NEW d \in Callers_  PROVE CallClear(request[d])'
  <2>1. CASE d = c  BY <1>1, <2>1, NoCall DEF IngestionTypes, CallClear
  <2>2. CASE d # c
    <3>1. request'[d] = request[d] /\ request[d] \in Call_ /\ CallClear(request[d])
      BY <1>1, <2>2 DEF IngestionTypes, CallsTrue
    <3>2. SUFFICES ASSUME request[d].doing
                   PROVE  request[d].read <= Len(items') /\ Clear(request[d].sku, request[d].read)'
      BY <3>1 DEF CallClear
    <3>3. request[d].read \in Nat /\ request[d].read <= Len(items)
            /\ Clear(request[d].sku, request[d].read)
      BY <3>1, <3>2 DEF CallClear, Call_
    <3>4. Len(items) \in Nat /\ Len(items') \in Nat  BY DEF IngestionTypes
    <3>5. request[d].read <= Len(items')  BY <3>3, <3>4
    <3>6. request'[d].sku = request[d].sku /\ request'[d].read = request[d].read  BY <3>1
    <3>7. PICK s, n : s = request[d].sku /\ n = request[d].read  OBVIOUS
    <3>8. Clear(s, n)'  BY <3>3, <3>7
    <3> QED  BY <3>5, <3>6, <3>7, <3>8 DEF Clear
  <2> QED  BY <2>1, <2>2
<1> QED  BY <1>2, <1>3 DEF CallsTrue

LEMMA DropRequestKeeps ==
  ASSUME IngestionInv, UNCHANGED importVars, NEW c \in Callers_, Ask(c, NoRequest), UNCHANGED items
  PROVE  IngestionInv'
<1> USE DEF IngestionInv
<1>1. items \in Seq(ItemRow) /\ Len(items) \in Nat /\ Len(items) <= MaxItems  BY DEF IngestionTypes
<1>2. OneItemPerKey' /\ DuplicatesOverlapped' /\ \A s, n : Clear(s, n) => Clear(s, n)'
  BY DEF OneItemPerKey, DuplicatesOverlapped, Clear
<1>3. request' \in [Callers_ -> Call_] /\ CallsTrue'  BY <1>1, <1>2, CallEnds
<1> QED  BY <1>1, <1>2, <1>3, CatalogKeeps

LEMMA InsertItemKeeps ==
  ASSUME IngestionInv, UNCHANGED importVars, NEW c \in Callers_, InsertItem(c)
  PROVE  IngestionInv'
<1> USE DEF IngestionInv
<1>1. CASE KeyTaken(request[c].key)  BY <1>1, DropRequestKeeps DEF InsertItem
<1>2. CASE ~KeyTaken(request[c].key)
  <2> DEFINE r == request[c]
             x == NewItem(r.key, r.sku, r.read, 0)
             more == <<x>>
  <2>1. r.doing /\ Len(items) < MaxItems /\ Ask(c, NoRequest) /\ items' = Append(items, x)
    BY <1>2 DEF InsertItem
  <2>2. r \in Call_ /\ CallClear(r)  BY DEF IngestionTypes, CallsTrue
  <2>3. x \in ItemRow /\ x.key = r.key /\ x.sku = r.sku /\ x.saw = r.read /\ x.row = 0
    BY <2>2 DEF Call_, NewItem, ItemRow, ItemFields
  <2> HIDE DEF x
  <2>4. items \in Seq(ItemRow) /\ Len(items) \in Nat  BY DEF IngestionTypes
  <2>5. items' = items \o more /\ more \in Seq(ItemRow) /\ Len(more) = 1 /\ DOMAIN more = {1} /\ more[1] = x
    BY <2>1, <2>3, <2>4
  <2> HIDE DEF more
  <2>6. /\ Len(items) + Len(more) <= MaxItems
        /\ \A n \in DOMAIN more : /\ Clear(more[n].sku, more[n].saw) /\ more[n].saw <= Len(items)
                                  /\ ~KeyTaken(more[n].key)
        /\ \A m, n \in DOMAIN more : m = n
    BY <1>2, <2>1, <2>2, <2>3, <2>4, <2>5, CatalogAssumption DEF CallClear
  <2>7. /\ items' \in Seq(ItemRow) /\ Len(items') <= MaxItems /\ Len(items') >= Len(items)
        /\ OneItemPerKey' /\ DuplicatesOverlapped'
        /\ \A i \in DOMAIN items : i \in DOMAIN items' /\ items'[i] = items[i]
        /\ \A i \in DOMAIN items' : i \in DOMAIN items
                                    \/ (i - Len(items) \in DOMAIN more /\ items'[i] = more[i - Len(items)])
        /\ \A sku, n : n \in Nat /\ n <= Len(items) /\ Clear(sku, n) => Clear(sku, n)'
    BY <2>5, <2>6, ItemsAppended
  <2>8. Len(items) <= Len(items')  BY <2>4, <2>7
  <2>9. request' \in [Callers_ -> Call_] /\ CallsTrue'  BY <2>1, <2>7, <2>8, CallEnds
  <2>10. \A i \in DOMAIN items' : i \notin DOMAIN items => items'[i].row = 0
    BY <2>3, <2>5, <2>7
  <2> QED  BY <2>7, <2>8, <2>9, <2>10, CatalogKeeps
<1> QED  BY <1>1, <1>2

(* An UPDATE of one item by its id.                                           *)
LEMMA WriteItemKeeps ==
  ASSUME IngestionInv, UNCHANGED importVars, UNCHANGED request, NEW i \in DOMAIN items,
         NEW x \in ItemRow, items' = [items EXCEPT ![i] = x], SameIdentity(items[i], x),
         (\E h \in Handlers : handler[h].doing = "reverted") => x.raced
  PROVE  IngestionInv'
<1> USE DEF IngestionInv
<1>1. items \in Seq(ItemRow) /\ Len(items) \in Nat /\ Len(items) <= MaxItems  BY DEF IngestionTypes
<1>2. items' \in Seq(ItemRow) /\ Len(items') = Len(items)  BY <1>1
<1>3. \A k \in DOMAIN items : items'[k] = IF k = i THEN x ELSE items[k]  BY <1>1
<1>4. \A k \in DOMAIN items : SameIdentity(items[k], items'[k])  BY <1>3 DEF SameIdentity
<1>5. /\ OneItemPerKey' /\ DuplicatesOverlapped'
      /\ \A sku, n : Clear(sku, n) => Clear(sku, n)'
      /\ \A k \in DOMAIN items' : items'[k].row = items[k].row
  BY <1>2, <1>4, ItemsWritten
<1>6. request' \in [Callers_ -> Call_]  BY DEF IngestionTypes
<1>7. CallsTrue'  BY ZenonT(60), <1>2, <1>5 DEF CallsTrue, CallClear, Clear
<1>8. DOMAIN items' = DOMAIN items  BY <1>1, <1>2
<1>9. Len(items') <= MaxItems /\ Len(items) <= Len(items')  BY <1>1, <1>2
<1>10. ASSUME NEW k \in DOMAIN items, \E h \in Handlers : handler[h].doing = "reverted"
       PROVE  OnlyPictured(items[k]) => OnlyPictured(items'[k])
  BY <1>3, <1>10 DEF OnlyPictured
<1> QED  BY <1>2, <1>5, <1>6, <1>7, <1>8, <1>9, <1>10, CatalogKeeps

LEMMA TouchKeeps ==
  ASSUME IngestionInv, NEW i \in DOMAIN items, NEW racing \in BOOLEAN
  PROVE  LET t == Touch(i, racing) IN
         /\ t \in ItemRow /\ (racing => t.raced)
         /\ t.key = items[i].key /\ t.saw = items[i].saw /\ t.row = items[i].row
         /\ t.sku = items[i].sku /\ t.live = items[i].live /\ t.patched = items[i].patched
<1> DEFINE t == Touch(i, racing)
<1>1. items[i] \in ItemRow  BY DEF IngestionInv, IngestionTypes
<1>2. t = [items[i] EXCEPT !.written = @ + 1, !.stamped = TRUE, !.raced = @ \/ racing]
  BY DEF Touch
<1>3. t \in ItemRow
  <2>1. items[i].written + 1 \in Nat  BY <1>1 DEF ItemRow, ItemFields
  <2>2. (items[i].raced \/ racing) \in BOOLEAN  OBVIOUS
  <2>3. PICK w, r : w = items[i].written + 1 /\ r = (items[i].raced \/ racing)  OBVIOUS
  <2>4. t = [items[i] EXCEPT !.written = w, !.stamped = TRUE, !.raced = r]  BY <1>2, <2>3
  <2> HIDE DEF t
  <2> QED  BY <1>1, <2>1, <2>2, <2>3, <2>4 DEF ItemRow, ItemFields
<1> QED  BY <1>1, <1>2, <1>3 DEF ItemRow, ItemFields

LEMMA PatchKeeps ==
  ASSUME IngestionInv, UNCHANGED importVars, NEW i \in DOMAIN items, NEW racing \in BOOLEAN,
         NEW sku \in Skus \cup {Blank}, NEW live \in BOOLEAN, Patch(i, sku, live, racing),
         (\E h \in Handlers : handler[h].doing = "reverted") => racing
  PROVE  IngestionInv'
<1> DEFINE t == Touch(i, racing)
           x == [t EXCEPT !.sku = sku, !.live = live,
                          !.patched = @ \/ sku # items[i].sku \/ (live /\ ~items[i].live)]
<1>1. /\ t \in ItemRow /\ (racing => t.raced)
      /\ t.key = items[i].key /\ t.saw = items[i].saw /\ t.row = items[i].row
      /\ t.sku = items[i].sku /\ t.live = items[i].live /\ t.patched = items[i].patched
  BY TouchKeeps
<1>2. items' = [items EXCEPT ![i] = x] /\ UNCHANGED request  BY DEF Patch
<1> HIDE DEF t
<1>3. x \in ItemRow  BY <1>1 DEF ItemRow, ItemFields
<1>4. /\ x.key = t.key /\ x.saw = t.saw /\ x.row = t.row /\ x.sku = sku /\ x.live = live
      /\ x.patched = (t.patched \/ sku # items[i].sku \/ (live /\ ~items[i].live))
      /\ x.raced = t.raced
  BY <1>1 DEF ItemRow, ItemFields
<1> HIDE DEF x
<1>5. SameIdentity(items[i], x)  BY <1>1, <1>4 DEF SameIdentity
<1> QED  BY <1>1, <1>2, <1>3, <1>4, <1>5, WriteItemKeeps

LEMMA ArchiveKeeps ==
  ASSUME IngestionInv, UNCHANGED importVars, NEW i \in DOMAIN items, NEW racing \in BOOLEAN,
         Archive(i, racing), (\E h \in Handlers : handler[h].doing = "reverted") => racing
  PROVE  IngestionInv'
<1> DEFINE t == Touch(i, racing)
           x == [t EXCEPT !.live = FALSE]
<1>1. /\ t \in ItemRow /\ (racing => t.raced)
      /\ t.key = items[i].key /\ t.saw = items[i].saw /\ t.row = items[i].row
      /\ t.sku = items[i].sku /\ t.live = items[i].live /\ t.patched = items[i].patched
  BY TouchKeeps
<1>2. items' = [items EXCEPT ![i] = x] /\ UNCHANGED request  BY DEF Archive
<1> HIDE DEF t
<1>3. x \in ItemRow  BY <1>1 DEF ItemRow, ItemFields
<1>4. /\ x.key = t.key /\ x.saw = t.saw /\ x.row = t.row /\ x.sku = t.sku /\ x.live = FALSE
      /\ x.patched = t.patched /\ x.raced = t.raced
  BY <1>1 DEF ItemRow, ItemFields
<1> HIDE DEF x
<1>5. SameIdentity(items[i], x)  BY <1>1, <1>4 DEF SameIdentity
<1> QED  BY <1>1, <1>2, <1>3, <1>4, <1>5, WriteItemKeeps

LEMMA PictureKeeps ==
  ASSUME IngestionInv, UNCHANGED importVars, NEW i \in DOMAIN items, NEW racing \in BOOLEAN,
         Picture(i, racing), (\E h \in Handlers : handler[h].doing = "reverted") => racing
  PROVE  IngestionInv'
<1> DEFINE x == [items[i] EXCEPT !.written = @ + 1, !.pictured = @ + 1, !.raced = @ \/ racing]
<1>1. items[i] \in ItemRow  BY DEF IngestionInv, IngestionTypes
<1>2. items' = [items EXCEPT ![i] = x] /\ UNCHANGED request  BY DEF Picture
<1>3. PICK w, p, r : /\ w = items[i].written + 1 /\ p = items[i].pictured + 1
                     /\ r = (items[i].raced \/ racing)
  OBVIOUS
<1>4. w \in Nat /\ p \in Nat /\ r \in BOOLEAN  BY <1>1, <1>3 DEF ItemRow, ItemFields
<1>5. x = [items[i] EXCEPT !.written = w, !.pictured = p, !.raced = r]  BY <1>3
<1> HIDE DEF x
<1>6. x \in ItemFields /\ x.stamped = items[i].stamped /\ x.written = w /\ x.pictured = p
      /\ x.raced = r /\ SameIdentity(items[i], x)
  BY <1>1, <1>4, <1>5 DEF ItemRow, ItemFields, SameIdentity
<1>7. x \in ItemRow  BY <1>1, <1>3, <1>6 DEF ItemRow, ItemFields
<1>8. racing => x.raced  BY <1>3, <1>6
<1> QED  BY <1>2, <1>6, <1>7, <1>8, WriteItemKeeps

LEMMA CatalogSteps ==
  ASSUME IngestionInv, UNCHANGED importVars, NEW racing \in BOOLEAN, CatalogNext(racing),
         (\E h \in Handlers : handler[h].doing = "reverted") => racing
  PROVE  IngestionInv'
<1>1. ASSUME NEW c \in Callers_, NEW key \in IdemKeys \cup {Blank}, NEW sku \in Skus \cup {Blank},
             ReadCreate(c, key, sku)
      PROVE  IngestionInv'
  BY <1>1, ReadCreateKeeps
<1>2. ASSUME NEW c \in Callers_, InsertItem(c) \/ DropRequest(c)  PROVE IngestionInv'
  BY <1>2, InsertItemKeeps, DropRequestKeeps DEF DropRequest
<1>3. ASSUME NEW i \in DOMAIN items, NEW sku \in Skus \cup {Blank}, NEW live \in BOOLEAN,
             Patch(i, sku, live, racing)
      PROVE  IngestionInv'
  BY <1>3, PatchKeeps
<1>4. ASSUME NEW i \in DOMAIN items, Archive(i, racing) \/ Picture(i, racing)
      PROVE  IngestionInv'
  BY <1>4, ArchiveKeeps, PictureKeeps
<1> QED  BY <1>1, <1>2, <1>3, <1>4 DEF CatalogNext

-----------------------------------------------------------------------------
(* A request on the batch, which leaves the catalog alone.                   *)
LEMMA BatchKeeps ==
  ASSUME IngestionInv, UNCHANGED catalogVars, overwrote => overwrote',
         IngestionTypes', OneHolder', JobsTrue', LoadedIfRows', FlagsTrue'
  PROVE  IngestionInv'
<1> USE DEF IngestionInv
<1>1. items' = items /\ request' = request  BY DEF catalogVars
<1>2. CallsTrue'  BY <1>1 DEF CallsTrue, CallClear, Clear
<1>3. OneItemPerKey' /\ DuplicatesOverlapped'  BY <1>1 DEF OneItemPerKey, DuplicatesOverlapped
<1>4. RowsLoadOnce'  BY <1>1 DEF RowsLoadOnce
<1> QED  BY <1>2, <1>3, <1>4

(* Only what one request holds changes.                                      *)
LEMMA JobSet ==
  ASSUME IngestionInv, UNCHANGED <<catalogVars, import, staged, blob, slipped>>,
         NEW h \in Handlers, NEW j \in Job_, handler' = [handler EXCEPT ![h] = j],
         overwrote' \in BOOLEAN, overwrote => overwrote', JobOK(j)',
         HoldsLock(j) => \A g \in Handlers : g # h => ~HoldsLock(handler[g])
  PROVE  IngestionInv'
<1> USE DEF IngestionInv
<1>1. \A g \in Handlers : handler'[g] = IF g = h THEN j ELSE handler[g]  BY DEF IngestionTypes
<1>2. items' = items  BY DEF catalogVars
<1>3. IngestionTypes'  BY DEF IngestionTypes, catalogVars
<1>4. OneHolder'  BY <1>1 DEF OneHolder, HoldsLock
<1>5. ASSUME NEW g \in Handlers  PROVE JobOK(handler[g])'
  BY <1>1, <1>2 DEF JobOK, JobInRange, JobClear, JobFirst, JobTitles, JobSpares, Clear,
     HoldsLock, JobsTrue
<1>6. JobsTrue'  BY <1>5 DEF JobsTrue
<1>7. LoadedIfRows'  BY <1>2 DEF LoadedIfRows
<1>8. FlagsTrue'  BY DEF FlagsTrue, UntitledSlippedIn
<1> QED  BY <1>3, <1>4, <1>6, <1>7, <1>8, BatchKeeps

LEMMA ReadStateKeeps ==
  ASSUME IngestionInv, NEW h \in Handlers, NEW stage \in DOMAIN Ends, ReadState(h, stage)
  PROVE  IngestionInv'
<1> DEFINE j == [Resting_ EXCEPT !.doing = stage, !.from = import]
<1>1. /\ handler' = [handler EXCEPT ![h] = j] /\ stage \in After(import)
      /\ UNCHANGED <<catalogVars, import, staged, blob, overwrote, slipped>>
  BY DEF ReadState, Serve_
<1>2. stage \in {"extracting", "validating", "loading"}  BY DEF Ends
<1>3. import \in {"created", "extracted", "review", "failed"}
  BY <1>1 DEF IngestionInv, IngestionTypes, After
<1>4. j \in Job_ /\ j.doing = stage  BY <1>2, <1>3 DEF Resting_, Job_
<1>5. PICK w : w = j  OBVIOUS
<1>6. w \in Job_ /\ w.doing = stage /\ handler' = [handler EXCEPT ![h] = w]  BY <1>1, <1>4, <1>5
<1> HIDE DEF j
<1>7. ~HoldsLock(w) /\ JobOK(w)'
  BY <1>2, <1>6 DEF HoldsLock, JobOK, JobInRange, JobClear, JobFirst, JobTitles, JobSpares
<1>8. overwrote' \in BOOLEAN  BY <1>1 DEF IngestionInv, IngestionTypes
<1> QED  BY <1>1, <1>6, <1>7, <1>8, JobSet

LEMMA DropHandlerKeeps ==
  ASSUME IngestionInv, NEW h \in Handlers, DropHandler(h)
  PROVE  IngestionInv'
<1>1. /\ handler' = [handler EXCEPT ![h] = Resting_]
      /\ UNCHANGED <<catalogVars, import, staged, blob, overwrote, slipped>>
  BY DEF DropHandler, Serve_
<1>2. JobOK(Resting_)'
  BY RestingJob DEF JobOK, JobInRange, JobClear, JobFirst, JobTitles, JobSpares, HoldsLock
<1>3. overwrote' \in BOOLEAN  BY <1>1 DEF IngestionInv, IngestionTypes
<1>4. PICK j : j = Resting_  OBVIOUS
<1>5. j \in Job_ /\ ~HoldsLock(j)  BY <1>4, RestingJob
<1>6. JobOK(j)'  BY <1>5, <1>4, RestingJob
                 DEF JobOK, JobInRange, JobClear, JobFirst, JobTitles, JobSpares, HoldsLock
<1> QED  BY <1>1, <1>3, <1>4, <1>5, <1>6, JobSet

LEMMA ConfirmReadKeeps ==
  ASSUME IngestionInv, NEW h \in Handlers, NEW rows \in SUBSET DOMAIN staged,
         \A i \in rows : ~staged[i].flagged, ConfirmRead(h, rows)
  PROVE  IngestionInv'
<1> USE DEF IngestionInv
<1> DEFINE j == [Resting_ EXCEPT !.doing = "confirm", !.rows = rows]
<1>1. /\ handler' = [handler EXCEPT ![h] = j]
      /\ UNCHANGED <<catalogVars, import, staged, blob, overwrote, slipped>>
  BY DEF ConfirmRead, Serve_
<1>2. rows \subseteq Nat  BY DEF IngestionTypes
<1>3. j \in Job_ /\ j.doing = "confirm" /\ j.rows = rows /\ j.stale = {}
  BY <1>2 DEF Resting_, Job_
<1> HIDE DEF j
<1>4. JobTitles(j)  BY <1>3 DEF JobTitles, FlagsTrue
<1>5. JobOK(j)'
  BY <1>1, <1>3, <1>4 DEF HoldsLock, JobOK, JobInRange, JobClear, JobFirst, JobTitles, JobSpares
<1>6. overwrote' \in BOOLEAN  BY <1>1 DEF IngestionTypes
<1>7. ~HoldsLock(j)  BY <1>3 DEF HoldsLock
<1> QED  BY <1>1, <1>3, <1>5, <1>6, <1>7, JobSet

LEMMA RevertReadKeeps ==
  ASSUME IngestionInv, NEW h \in Handlers, RevertRead(h)
  PROVE  IngestionInv'
<1> USE DEF IngestionInv
<1> DEFINE j == [Resting_ EXCEPT !.doing = "reverted", !.rows = Untouched(items)]
<1>1. /\ handler' = [handler EXCEPT ![h] = j]
      /\ UNCHANGED <<catalogVars, import, staged, blob, overwrote, slipped>>
  BY DEF RevertRead, Serve_
<1>2. /\ Untouched(items) \subseteq DOMAIN items
      /\ \A i \in Untouched(items) : OnlyPictured(items[i])
  BY DEF Untouched, IngestionTypes, ItemRow, OnlyPictured
<1>3. Untouched(items) \subseteq Nat  BY <1>2 DEF IngestionTypes
<1>4. j \in Job_ /\ j.doing = "reverted" /\ j.rows = Untouched(items)
  BY <1>3 DEF Resting_, Job_
<1>5. PICK w : w = j  OBVIOUS
<1>6. /\ w \in Job_ /\ w.doing = "reverted" /\ handler' = [handler EXCEPT ![h] = w]
      /\ w.rows \subseteq DOMAIN items /\ \A i \in w.rows : OnlyPictured(items[i])
  BY <1>1, <1>2, <1>4, <1>5
<1> HIDE DEF j
<1>7. items' = items  BY <1>1 DEF catalogVars
<1>8. JobOK(w)'
  BY <1>6, <1>7 DEF HoldsLock, JobOK, JobInRange, JobClear, JobFirst, JobTitles, JobSpares
<1>9. overwrote' \in BOOLEAN  BY <1>1 DEF IngestionTypes
<1>10. ~HoldsLock(w)  BY <1>6 DEF HoldsLock
<1> QED  BY <1>1, <1>6, <1>8, <1>9, <1>10, JobSet

LEMMA BeginKeeps ==
  ASSUME IngestionInv, NEW h \in Handlers, Begin(h)
  PROVE  IngestionInv'
<1> USE DEF IngestionInv
<1> DEFINE stage == handler[h].doing
           rows == {i \in DOMAIN staged :
                      IF stage = "loading" THEN Loads(i)
                      ELSE stage = "validating" /\ staged[i].flagged}
           skips == {i \in DOMAIN staged : /\ stage = "loading" /\ ~Loads(i)
                                           /\ staged[i].state = "confirmed"}
           j == [Resting_ EXCEPT !.doing = Ends[stage], !.saw = Len(items), !.rows = rows,
                                 !.skips = skips]
<1>1. /\ stage \in DOMAIN Ends /\ ~Held /\ overwrote' = (overwrote \/ import # handler[h].from)
      /\ handler' = [handler EXCEPT ![h] = j]
      /\ UNCHANGED <<catalogVars, import, staged, blob, slipped>>
  BY DEF Begin, Serve_
<1>2. /\ stage \in {"extracting", "validating", "loading"}
      /\ stage = "extracting" => Ends[stage] = "extracted"
      /\ stage = "validating" => Ends[stage] = "review"
      /\ stage = "loading" => Ends[stage] = "loaded"
  BY <1>1 DEF Ends
<1>3. staged \in Seq(StagedRow) /\ items \in Seq(ItemRow) /\ handler[h] \in Job_
        /\ overwrote \in BOOLEAN
  BY DEF IngestionTypes
<1>4. DOMAIN staged \subseteq Nat /\ Len(items) \in Nat  BY <1>3
<1>5. rows \subseteq DOMAIN staged /\ skips \subseteq DOMAIN staged  OBVIOUS
<1>6. /\ stage = "loading" => \A i \in rows : Loads(i)
      /\ stage = "validating" => \A i \in DOMAIN staged : staged[i].flagged => i \in rows
  OBVIOUS
<1>7. /\ j \in Job_ /\ j.doing = Ends[stage] /\ j.rows = rows /\ j.stale = {} /\ j.saw = Len(items)
  <2> HIDE DEF rows, skips, stage
  <2> QED  BY <1>2, <1>4, <1>5 DEF Resting_, Job_
<1>8. PICK S : S = rows  OBVIOUS
<1>9. /\ S \subseteq DOMAIN staged /\ j.rows = S
      /\ stage = "loading" => \A i \in S : Loads(i)
      /\ stage = "validating" => \A i \in DOMAIN staged : staged[i].flagged => i \in S
  BY <1>5, <1>6, <1>7, <1>8
<1>10. PICK stg, w : stg = stage /\ w = j  OBVIOUS
<1>11. /\ w \in Job_ /\ w.doing = Ends[stg] /\ w.rows = S /\ w.stale = {} /\ w.saw = Len(items)
       /\ stg = "loading" => \A i \in S : Loads(i)
       /\ stg = "validating" => \A i \in DOMAIN staged : staged[i].flagged => i \in S
       /\ stg \in {"extracting", "validating", "loading"}
       /\ stg = "extracting" => Ends[stg] = "extracted"
       /\ stg = "validating" => Ends[stg] = "review"
       /\ stg = "loading" => Ends[stg] = "loaded"
       /\ handler' = [handler EXCEPT ![h] = w]
  BY <1>1, <1>2, <1>7, <1>9, <1>10
<1> HIDE DEF stage, rows, skips, j
<1>12. w.doing \in {"extracted", "review", "loaded"}
       /\ (w.doing = "loaded" <=> stg = "loading") /\ (w.doing = "review" <=> stg = "validating")
  BY <1>11
<1>13. UNCHANGED <<items, staged, slipped, import>>  BY <1>1 DEF catalogVars
<1>14. JobInRange(w)'  BY <1>9, <1>11, <1>13 DEF JobInRange
<1>15. JobClear(w)'
  BY SMTT(30), <1>3, <1>4, <1>9, <1>11, <1>12, <1>13 DEF JobClear, Clear, Loads, SameSku
<1>16. JobFirst(w)'  BY <1>1, <1>3, <1>13 DEF Job_, JobFirst
<1>17. JobTitles(w)'  BY <1>11, <1>12, <1>13 DEF FlagsTrue, JobTitles
<1>18. JobSpares(w)'  BY <1>12 DEF JobSpares
<1>19. JobOK(w)'  BY <1>14, <1>15, <1>16, <1>17, <1>18 DEF JobOK
<1>20. \A g \in Handlers : ~HoldsLock(handler[g])  BY <1>1 DEF Held, HoldsLock
<1>21. overwrote' \in BOOLEAN /\ (overwrote => overwrote')  BY <1>1, <1>3
<1> QED  BY <1>1, <1>11, <1>19, <1>20, <1>21, JobSet

(* The request that holds the batch's row commits or lets go: no other holds it. *)
LEMMA OthersWait ==
  ASSUME IngestionInv, NEW h \in Handlers, HoldsLock(handler[h])
  PROVE  /\ \A g \in Handlers : g # h => ~HoldsLock(handler[g])
         /\ ~overwrote => \A i \in DOMAIN items : items[i].row = 0
  BY DEF IngestionInv, OneHolder, JobsTrue, JobOK, JobFirst, LoadedIfRows

(* A request that holds no lock keeps what it knew, as long as the rows it     *)
(* will confirm are there and titled, read since, or slipped.                 *)
LEMMA UnlockedKeepsJob ==
  ASSUME IngestionInv, NEW g \in Handlers, NEW j \in Job_, ~HoldsLock(handler[g]),
         j.doing = handler[g].doing, j.rows = handler[g].rows, items' = items,
         j.doing = "confirm" =>
           /\ j.rows \subseteq DOMAIN staged' /\ j.stale \subseteq DOMAIN staged'
           /\ \A i \in j.rows : staged'[i].titled \/ i \in j.stale \/ i \in slipped'
  PROVE  JobOK(j)'
<1>1. j.doing \notin {"extracted", "review", "loaded"}  BY DEF HoldsLock
<1>2. JobSpares(handler[g])  BY DEF IngestionInv, JobsTrue, JobOK
<1>3. JobSpares(j)'  BY <1>2 DEF JobSpares
<1>4. JobInRange(j)' /\ JobClear(j)' /\ JobFirst(j)' /\ JobTitles(j)'
  BY <1>1 DEF JobInRange, JobClear, JobFirst, JobTitles, HoldsLock
<1> QED  BY <1>3, <1>4 DEF JobOK

LEMMA CommitExtractKeeps ==
  ASSUME IngestionInv, NEW h \in Handlers, CommitExtract(h)
  PROVE  IngestionInv'
<1> USE DEF IngestionInv
<1>1. HoldsLock(handler[h]) /\ UNCHANGED <<catalogVars, blob, overwrote>>
  BY DEF CommitExtract, HoldsLock
<1>2. /\ \A g \in Handlers : g # h => ~HoldsLock(handler[g])
      /\ ~overwrote => \A i \in DOMAIN items : items[i].row = 0
  BY <1>1, OthersWait
<1>3. items' = items /\ request' = request  BY <1>1 DEF catalogVars
<1>4. LoadedIfRows'  BY <1>1, <1>2, <1>3 DEF LoadedIfRows
<1>5. handler \in [Handlers -> Job_]  BY DEF IngestionTypes
<1>6. CASE blob
  <2>1. /\ import' = "extracted" /\ slipped' = {}
        /\ staged' = [i \in DOMAIN Sheet |->
                        [state |-> "extracted", sku |-> Sheet[i].sku,
                         titled |-> Sheet[i].titled, flagged |-> ~Sheet[i].titled]]
        /\ handler' = [g \in Handlers |->
                         IF g = h THEN Resting_
                         ELSE [handler[g] EXCEPT !.stale = handler[g].rows]]
    BY <1>6 DEF CommitExtract
  <2>2. /\ Sheet \in Seq([sku : Skus \cup {Blank}, titled : BOOLEAN])
        /\ DOMAIN Sheet = 1..Len(Sheet) /\ Len(Sheet) \in Nat
    BY IngestionAssumption
  <2>3. staged' \in Seq(StagedRow) /\ Len(staged') = Len(Sheet) /\ DOMAIN staged' = DOMAIN Sheet
    <3>1. ASSUME NEW i \in DOMAIN Sheet
          PROVE  [state |-> "extracted", sku |-> Sheet[i].sku,
                  titled |-> Sheet[i].titled, flagged |-> ~Sheet[i].titled] \in StagedRow
      <4>1. Sheet[i] \in [sku : Skus \cup {Blank}, titled : BOOLEAN]
        <5> DEFINE R == [sku : Skus \cup {Blank}, titled : BOOLEAN]
        <5>1. Sheet \in Seq(R)  BY <2>2
        <5> HIDE DEF R
        <5>2. Sheet[i] \in R  BY <5>1
        <5> QED  BY <5>2 DEF R
      <4> QED  BY <4>1 DEF StagedRow
    <3>2. staged' \in [1..Len(Sheet) -> StagedRow]  BY <2>1, <2>2, <3>1
    <3> QED  BY <2>2, <3>2
  <2>4. ASSUME NEW g \in Handlers
        PROVE  /\ handler'[g] \in Job_
               /\ g = h => handler'[g] = Resting_
               /\ g # h => /\ handler'[g].doing = handler[g].doing
                           /\ handler'[g].rows = handler[g].rows
                           /\ handler'[g].stale = handler[g].rows
    BY <1>5, <2>1, RestingJob DEF Job_
  <2>5. DOMAIN staged \subseteq DOMAIN Sheet  BY <2>2 DEF IngestionTypes
  <2>6. ASSUME NEW g \in Handlers  PROVE JobOK(handler[g])' /\ ~HoldsLock(handler'[g])
    BY <1>2, <1>3, <2>3, <2>4, <2>5, RestingJob, UnlockedKeepsJob DEF JobOK, JobInRange,
       JobClear, JobFirst, JobTitles, JobSpares, Clear, HoldsLock, JobsTrue
  <2>7. handler' \in [Handlers -> Job_]  BY <2>1, <2>4
  <2>8. IngestionTypes'  BY <1>1, <1>3, <2>1, <2>3, <2>7 DEF IngestionTypes
  <2>9. OneHolder' /\ JobsTrue'  BY <2>6 DEF OneHolder, JobsTrue, HoldsLock
  <2>10. FlagsTrue'  BY <2>1, <2>3 DEF FlagsTrue, UntitledSlippedIn
  <2> QED  BY <1>1, <1>4, <2>8, <2>9, <2>10, BatchKeeps
<1>7. CASE ~blob
  <2>1. import' = "failed" /\ handler' = [handler EXCEPT ![h] = Resting_] /\ UNCHANGED <<staged, slipped>>
    BY <1>7 DEF CommitExtract, Serve_
  <2>2. \A g \in Handlers : handler'[g] = IF g = h THEN Resting_ ELSE handler[g]  BY <1>5, <2>1
  <2>3. ASSUME NEW g \in Handlers  PROVE JobOK(handler[g])' /\ ~HoldsLock(handler'[g])
    BY <1>2, <1>3, <1>5, <2>1, <2>2, RestingJob, UnlockedKeepsJob DEF JobOK, JobInRange,
       JobClear, JobFirst, JobTitles, JobSpares, Clear, HoldsLock, JobsTrue
  <2>4. IngestionTypes'  BY <1>1, <1>3, <2>1, RestingJob DEF IngestionTypes
  <2>5. OneHolder' /\ JobsTrue'  BY <2>3 DEF OneHolder, JobsTrue, HoldsLock
  <2>6. FlagsTrue'  BY <2>1 DEF FlagsTrue, UntitledSlippedIn
  <2> QED  BY <1>1, <1>4, <2>4, <2>5, <2>6, BatchKeeps
<1> QED  BY <1>6, <1>7

(* Request h is done, and the rows keep their places, skus and titles: the    *)
(* other requests keep what they knew.                                       *)
LEMMA JobDone ==
  ASSUME IngestionInv, NEW h \in Handlers, handler' = [handler EXCEPT ![h] = Resting_],
         UNCHANGED overwrote, DOMAIN staged' = DOMAIN staged,
         \A i \in DOMAIN staged : staged'[i].sku = staged[i].sku /\ staged'[i].titled = staged[i].titled,
         slipped \subseteq slipped',
         \A i \in DOMAIN items : /\ i \in DOMAIN items'
                                 /\ OnlyPictured(items[i]) => OnlyPictured(items'[i]),
         \/ import' = import /\ items' = items
         \/ \A g \in Handlers : g # h => ~HoldsLock(handler[g])
  PROVE  handler' \in [Handlers -> Job_] /\ OneHolder' /\ JobsTrue'
<1> USE DEF IngestionInv
<1>1. handler \in [Handlers -> Job_]  BY DEF IngestionTypes
<1>2. handler' \in [Handlers -> Job_]  BY <1>1, RestingJob
<1>3. \A g \in Handlers : handler'[g] = IF g = h THEN Resting_ ELSE handler[g]  BY <1>1
<1>4. OneHolder'  BY <1>3, RestingJob DEF OneHolder, HoldsLock
<1>5. ASSUME NEW g \in Handlers  PROVE JobOK(handler[g])'
  BY <1>3, RestingJob DEF JobOK, JobInRange, JobClear, JobFirst, JobTitles, JobSpares, Clear,
     HoldsLock, JobsTrue
<1> QED  BY <1>2, <1>4, <1>5 DEF JobsTrue

LEMMA CommitValidateKeeps ==
  ASSUME IngestionInv, NEW h \in Handlers, CommitValidate(h)
  PROVE  IngestionInv'
<1> USE DEF IngestionInv
<1>1. /\ handler[h].doing = "review" /\ import' = "review"
      /\ staged' = [i \in DOMAIN staged |-> [staged[i] EXCEPT !.flagged = i \in handler[h].rows]]
      /\ slipped' = slipped \cup handler[h].stale
      /\ handler' = [handler EXCEPT ![h] = Resting_] /\ UNCHANGED <<catalogVars, blob, overwrote>>
  BY DEF CommitValidate, Serve_
<1>2. HoldsLock(handler[h]) /\ JobOK(handler[h])  BY <1>1 DEF HoldsLock, JobsTrue
<1>3. items' = items /\ request' = request  BY <1>1 DEF catalogVars
<1>4. staged \in Seq(StagedRow)  BY DEF IngestionTypes
<1>5. ASSUME NEW i \in DOMAIN staged
      PROVE  /\ staged'[i] \in StagedRow
             /\ staged'[i].state = staged[i].state /\ staged'[i].sku = staged[i].sku
             /\ staged'[i].titled = staged[i].titled /\ (staged'[i].flagged <=> i \in handler[h].rows)
  <2>1. staged[i] \in StagedRow  BY <1>4
  <2>2. PICK b : b = (i \in handler[h].rows)  OBVIOUS
  <2>3. b \in BOOLEAN  BY <2>2
  <2>4. staged'[i] = [staged[i] EXCEPT !.flagged = b]  BY <1>1, <2>2
  <2> QED  BY <2>1, <2>2, <2>3, <2>4 DEF StagedRow
<1>6. staged' \in Seq(StagedRow) /\ Len(staged') = Len(staged) /\ DOMAIN staged' = DOMAIN staged
  BY <1>1, <1>4, <1>5
<1>7. handler[h].stale \subseteq DOMAIN staged  BY <1>1, <1>2 DEF JobOK, JobInRange
<1>8. handler' \in [Handlers -> Job_] /\ OneHolder' /\ JobsTrue'
  BY <1>1, <1>2, <1>3, <1>5, <1>6, OthersWait, JobDone
<1>9. IngestionTypes'  BY <1>1, <1>3, <1>6, <1>7, <1>8 DEF IngestionTypes
<1>10. LoadedIfRows'  BY <1>1, <1>2, <1>3, OthersWait DEF LoadedIfRows
<1>11. FlagsTrue'
  BY <1>1, <1>2, <1>5, <1>6 DEF JobOK, JobTitles, FlagsTrue, UntitledSlippedIn
<1> QED  BY <1>1, <1>8, <1>9, <1>10, <1>11, BatchKeeps

LEMMA ConfirmWriteKeeps ==
  ASSUME IngestionInv, NEW h \in Handlers, ConfirmWrite(h)
  PROVE  IngestionInv'
<1> USE DEF IngestionInv
<1>1. /\ handler[h].doing = "confirm"
      /\ staged' = [i \in DOMAIN staged |->
                      IF i \in handler[h].rows THEN [staged[i] EXCEPT !.state = "confirmed"]
                      ELSE staged[i]]
      /\ slipped' = slipped \cup handler[h].stale
      /\ handler' = [handler EXCEPT ![h] = Resting_] /\ UNCHANGED <<catalogVars, import, blob, overwrote>>
  BY DEF ConfirmWrite, Serve_
<1>2. JobOK(handler[h])  BY DEF JobsTrue
<1>3. items' = items /\ request' = request  BY <1>1 DEF catalogVars
<1>4. staged \in Seq(StagedRow)  BY DEF IngestionTypes
<1>5. ASSUME NEW i \in DOMAIN staged
      PROVE  /\ staged'[i] \in StagedRow
             /\ i \notin handler[h].rows => staged'[i].state = staged[i].state
             /\ staged'[i].sku = staged[i].sku
             /\ staged'[i].titled = staged[i].titled /\ staged'[i].flagged = staged[i].flagged
  <2>1. staged[i] \in StagedRow  BY <1>4
  <2>2. CASE i \in handler[h].rows  BY <1>1, <2>1, <2>2 DEF StagedRow
  <2>3. CASE i \notin handler[h].rows  BY <1>1, <2>1, <2>3
  <2> QED  BY <2>2, <2>3
<1>6. staged' \in Seq(StagedRow) /\ Len(staged') = Len(staged) /\ DOMAIN staged' = DOMAIN staged
  BY <1>1, <1>4, <1>5
<1>7. handler[h].stale \subseteq DOMAIN staged  BY <1>1, <1>2 DEF JobOK, JobInRange
<1>8. handler' \in [Handlers -> Job_] /\ OneHolder' /\ JobsTrue'
  BY <1>1, <1>3, <1>5, <1>6, JobDone
<1>9. IngestionTypes'  BY <1>1, <1>3, <1>6, <1>7, <1>8 DEF IngestionTypes
<1>10. LoadedIfRows'  BY <1>1, <1>3 DEF LoadedIfRows
<1>11. FlagsTrue'
  BY <1>1, <1>2, <1>5, <1>6 DEF JobOK, JobTitles, FlagsTrue, UntitledSlippedIn
<1> QED  BY <1>1, <1>8, <1>9, <1>10, <1>11, BatchKeeps

LEMMA RejectKeeps ==
  ASSUME IngestionInv, NEW r \in DOMAIN staged, Reject(r)
  PROVE  IngestionInv'
<1> USE DEF IngestionInv
<1>1. /\ staged' = [staged EXCEPT ![r].state = "rejected"]
      /\ UNCHANGED <<catalogVars, import, handler, blob, overwrote, slipped>>
  BY DEF Reject
<1>2. staged \in Seq(StagedRow) /\ staged[r] \in StagedRow  BY DEF IngestionTypes
<1>3. items' = items /\ request' = request  BY <1>1 DEF catalogVars
<1>4. PICK x : x = [staged[r] EXCEPT !.state = "rejected"]  OBVIOUS
<1>5. /\ x \in StagedRow /\ x.state = "rejected" /\ x.sku = staged[r].sku
      /\ x.titled = staged[r].titled /\ x.flagged = staged[r].flagged
  BY <1>2, <1>4 DEF StagedRow
<1>6. staged' = [staged EXCEPT ![r] = x]  BY <1>1, <1>4
<1>7. staged' \in Seq(StagedRow) /\ Len(staged') = Len(staged) /\ DOMAIN staged' = DOMAIN staged
  BY <1>2, <1>5, <1>6
<1>8. \A i \in DOMAIN staged :
        /\ staged'[i].sku = staged[i].sku /\ staged'[i].titled = staged[i].titled
        /\ staged'[i].flagged = staged[i].flagged
        /\ staged'[i].state = "confirmed" => staged[i].state = "confirmed"
  BY <1>2, <1>5, <1>6
<1>9. IngestionTypes'  BY <1>1, <1>3, <1>7 DEF IngestionTypes
<1>10. OneHolder'  BY <1>1 DEF OneHolder, HoldsLock
<1>11. JobsTrue'
  BY <1>1, <1>3, <1>7, <1>8 DEF JobsTrue, JobOK, JobInRange, JobSpares, JobFirst, HoldsLock,
     JobClear, Clear, JobTitles
<1>12. LoadedIfRows'  BY <1>1, <1>3 DEF LoadedIfRows
<1>13. FlagsTrue'  BY <1>1, <1>7, <1>8 DEF FlagsTrue, UntitledSlippedIn
<1> QED  BY <1>1, <1>9, <1>10, <1>11, <1>12, <1>13, BatchKeeps

LEMMA EditKeeps ==
  ASSUME IngestionInv, NEW r \in DOMAIN staged, NEW titled \in BOOLEAN, Edit(r, titled)
  PROVE  IngestionInv'
<1> USE DEF IngestionInv
<1>1. /\ staged' = [staged EXCEPT ![r].titled = titled, ![r].flagged = ~titled,
                                  ![r].state = IF titled THEN "confirmed" ELSE "extracted"]
      /\ handler' = [h \in Handlers |->
                       IF handler[h].doing \in {"confirm", "review", "loaded"}
                       THEN [handler[h] EXCEPT !.stale = @ \cup {r}] ELSE handler[h]]
      /\ slipped' = slipped \ {r} /\ UNCHANGED <<catalogVars, import, blob, overwrote>>
  BY DEF Edit
<1>2. staged \in Seq(StagedRow) /\ staged[r] \in StagedRow /\ handler \in [Handlers -> Job_]
  BY DEF IngestionTypes
<1>3. items' = items /\ request' = request  BY <1>1 DEF catalogVars
<1>4. PICK x : x = [staged[r] EXCEPT !.titled = titled, !.flagged = ~titled,
                                     !.state = IF titled THEN "confirmed" ELSE "extracted"]
  OBVIOUS
<1>5. /\ x \in StagedRow /\ x.sku = staged[r].sku /\ x.titled = titled /\ x.flagged = ~titled
      /\ x.state = "confirmed" => titled
  BY <1>2, <1>4 DEF StagedRow
<1>6. staged' = [staged EXCEPT ![r] = x]  BY <1>1, <1>2, <1>4 DEF StagedRow
<1>7. staged' \in Seq(StagedRow) /\ Len(staged') = Len(staged) /\ DOMAIN staged' = DOMAIN staged
  BY <1>2, <1>5, <1>6
<1>8. \A i \in DOMAIN staged : staged'[i] = IF i = r THEN x ELSE staged[i]  BY <1>2, <1>6
<1>9. \A i \in DOMAIN staged : staged'[i].sku = staged[i].sku  BY <1>5, <1>8
<1>10. ASSUME NEW h \in Handlers
       PROVE  /\ handler'[h] \in Job_ /\ handler'[h].doing = handler[h].doing
              /\ handler'[h].rows = handler[h].rows /\ handler'[h].saw = handler[h].saw
              /\ handler[h].doing \in {"confirm", "review", "loaded"} =>
                   handler'[h].stale = handler[h].stale \cup {r}
  <2>1. handler[h] \in Job_ /\ r \in Nat /\ handler[h].stale \cup {r} \in SUBSET Nat
    BY <1>2 DEF Job_
  <2>2. CASE handler[h].doing \in {"confirm", "review", "loaded"}
    BY <1>1, <2>1, <2>2 DEF Job_
  <2>3. CASE handler[h].doing \notin {"confirm", "review", "loaded"}
    BY <1>1, <2>1, <2>3
  <2> QED  BY <2>2, <2>3
<1>11. handler' \in [Handlers -> Job_]  BY <1>1, <1>10
<1>12. IngestionTypes'  BY <1>1, <1>3, <1>7, <1>11 DEF IngestionTypes
<1>13. OneHolder'  BY <1>10 DEF OneHolder, HoldsLock
<1>14. JobsTrue'
  BY <1>1, <1>3, <1>7, <1>8, <1>9, <1>10 DEF JobsTrue, JobOK, JobInRange, JobSpares, JobFirst,
     HoldsLock, JobClear, Clear, JobTitles
<1>15. LoadedIfRows'  BY <1>1, <1>3 DEF LoadedIfRows
<1>16. FlagsTrue'  BY <1>1, <1>5, <1>7, <1>8 DEF FlagsTrue, UntitledSlippedIn
<1> QED  BY <1>1, <1>12, <1>13, <1>14, <1>15, <1>16, BatchKeeps

LEMMA CommitLoadKeeps ==
  ASSUME IngestionInv, NEW h \in Handlers, CommitLoad(h)
  PROVE  IngestionInv'
<1> USE DEF IngestionInv
<1>1. PICK I, saw, skips : I = handler[h].rows /\ saw = handler[h].saw /\ skips = handler[h].skips
  OBVIOUS
<1> DEFINE taken == InOrder(I)
           more == [n \in DOMAIN taken |-> NewItem(Blank, staged[taken[n]].sku, saw, taken[n])]
           D == 1..Cardinality(I)
<1>2. /\ handler[h].doing = "loaded" /\ Len(items) + Len(taken) <= MaxItems
      /\ items' = items \o more
      /\ staged' = [i \in DOMAIN staged |->
                      IF i \in I THEN [staged[i] EXCEPT !.state = "loaded"]
                      ELSE IF i \in skips THEN [staged[i] EXCEPT !.state = "skipped_duplicate"]
                      ELSE staged[i]]
      /\ import' = "loaded" /\ handler' = [handler EXCEPT ![h] = Resting_]
      /\ UNCHANGED <<request, blob, overwrote, slipped>>
  BY <1>1 DEF CommitLoad, Serve_
<1>3. HoldsLock(handler[h]) /\ JobOK(handler[h])  BY <1>2 DEF HoldsLock, JobsTrue
<1>4. /\ \A g \in Handlers : g # h => ~HoldsLock(handler[g])
      /\ ~overwrote => \A i \in DOMAIN items : items[i].row = 0
  BY <1>3, OthersWait
<1>5. /\ I \subseteq DOMAIN staged /\ saw <= Len(items) /\ saw \in Nat
      /\ \A i \in I : Clear(staged[i].sku, saw)
      /\ \A i, k \in I : staged[i].sku = staged[k].sku /\ staged[i].sku # Blank => i = k
  BY <1>1, <1>2, <1>3 DEF IngestionTypes, Job_, JobOK, JobInRange, JobClear
<1>6. staged \in Seq(StagedRow) /\ items \in Seq(ItemRow)  BY DEF IngestionTypes
<1>7. I \subseteq Nat /\ IsFiniteSet(I) /\ Cardinality(I) \in Nat
  <2>1. DOMAIN staged = 1..Len(staged) /\ Len(staged) \in Nat  BY <1>6
  <2>2. IsFiniteSet(DOMAIN staged)  BY <2>1, FS_Interval
  <2>3. IsFiniteSet(I)  BY <1>5, <2>2, FS_Subset
  <2> QED  BY <1>5, <2>1, <2>3, FS_CardinalityType
<1>8. Lists(taken, I)  BY <1>7, ListExists DEF Lists, InOrder
<1>9. PICK T : T = taken  OBVIOUS
<1>10. Lists(T, I) /\ T \in [D -> I] /\ \A m, n \in D : T[m] = T[n] => m = n
  BY <1>7, <1>8, <1>9, ListIsAll DEF Lists
<1>11. more = [n \in D |-> NewItem(Blank, staged[T[n]].sku, saw, T[n])] /\ Len(T) = Len(taken)
  BY <1>9, <1>10
<1> HIDE DEF taken
<1>12. ASSUME NEW n \in D
       PROVE  /\ NewItem(Blank, staged[T[n]].sku, saw, T[n]) \in ItemRow
              /\ more[n] = NewItem(Blank, staged[T[n]].sku, saw, T[n])
              /\ more[n].key = Blank /\ more[n].sku = staged[T[n]].sku
              /\ more[n].saw = saw /\ more[n].row = T[n]
  <2>1. T[n] \in I  BY <1>10
  <2>2. staged[T[n]] \in StagedRow /\ T[n] \in Nat  BY <1>5, <1>6, <1>7, <2>1
  <2>3. staged[T[n]].sku \in Skus \cup {Blank}  BY <2>2 DEF StagedRow
  <2>4. more[n] = NewItem(Blank, staged[T[n]].sku, saw, T[n])  BY <1>11
  <2> QED  BY <1>5, <2>2, <2>3, <2>4 DEF NewItem, ItemRow, ItemFields
<1>13. more \in [D -> ItemRow]  BY <1>11, <1>12
<1>14. PICK M : M = more  OBVIOUS
<1>15. /\ M \in [D -> ItemRow] /\ items' = items \o M
       /\ \A n \in D : /\ M[n].key = Blank /\ M[n].sku = staged[T[n]].sku
                        /\ M[n].saw = saw /\ M[n].row = T[n]
  BY <1>2, <1>12, <1>13, <1>14
<1> HIDE DEF more
<1>16. M \in Seq(ItemRow) /\ Len(M) = Cardinality(I) /\ DOMAIN M = D
  BY <1>7, <1>15
<1>17. Len(T) = Cardinality(I)  BY <1>7, <1>10
<1>18. Len(items) + Len(M) <= MaxItems  BY <1>2, <1>11, <1>16, <1>17
<1>19. \A n \in DOMAIN M : /\ Clear(M[n].sku, M[n].saw) /\ M[n].saw <= Len(items)
                           /\ ~KeyTaken(M[n].key)
  BY SMTT(30), <1>5, <1>10, <1>15, <1>16 DEF KeyTaken
<1>20. \A m, n \in DOMAIN M : M[m].sku = M[n].sku /\ M[m].sku # Blank => m = n
  BY SMTT(30), <1>5, <1>10, <1>15, <1>16
<1>21. \A m, n \in DOMAIN M : M[m].key = M[n].key /\ M[m].key # Blank => m = n
  BY <1>15, <1>16
<1>22. /\ items' \in Seq(ItemRow) /\ Len(items') <= MaxItems /\ Len(items') >= Len(items)
       /\ OneItemPerKey' /\ DuplicatesOverlapped'
       /\ \A i \in DOMAIN items : i \in DOMAIN items' /\ items'[i] = items[i]
       /\ \A i \in DOMAIN items' : i \in DOMAIN items
                                   \/ (i - Len(items) \in DOMAIN M /\ items'[i] = M[i - Len(items)])
       /\ \A sku, n : n \in Nat /\ n <= Len(items) /\ Clear(sku, n) => Clear(sku, n)'
  BY <1>15, <1>16, <1>18, <1>19, <1>20, <1>21, ItemsAppended
<1>23. ASSUME NEW i \in DOMAIN staged
       PROVE  /\ staged'[i] \in StagedRow
              /\ staged'[i].state = "confirmed" => staged[i].state = "confirmed"
              /\ staged'[i].sku = staged[i].sku
              /\ staged'[i].titled = staged[i].titled /\ staged'[i].flagged = staged[i].flagged
  <2>1. staged[i] \in StagedRow  BY <1>6
  <2>2. CASE i \in I  BY <1>2, <2>1, <2>2 DEF StagedRow
  <2>3. CASE i \notin I /\ i \in skips  BY <1>2, <2>1, <2>3 DEF StagedRow
  <2>4. CASE i \notin I /\ i \notin skips  BY <1>2, <2>1, <2>4
  <2> QED  BY <2>2, <2>3, <2>4
<1>24. staged' \in Seq(StagedRow) /\ Len(staged') = Len(staged) /\ DOMAIN staged' = DOMAIN staged
  <2>1. DOMAIN staged' = DOMAIN staged /\ DOMAIN staged = 1..Len(staged) /\ Len(staged) \in Nat
    BY <1>2, <1>6
  <2>2. staged' = [i \in DOMAIN staged |-> staged'[i]]  BY <1>2
  <2>3. staged' \in [1..Len(staged) -> StagedRow]  BY <1>23, <2>1, <2>2
  <2> QED  BY <2>1, <2>3
<1>25. handler' \in [Handlers -> Job_] /\ OneHolder' /\ JobsTrue'
  BY <1>2, <1>4, <1>22, <1>23, <1>24, JobDone
<1>26. IngestionTypes'  BY <1>2, <1>22, <1>24, <1>25 DEF IngestionTypes
<1>27. CallsTrue'  BY <1>2, <1>6, <1>22 DEF CallsTrue, IngestionTypes, Call_, CallClear, Clear
<1>28. LoadedIfRows'  BY <1>2 DEF LoadedIfRows
<1>29. RowsLoadOnce'
  <2> SUFFICES ASSUME ~overwrote, NEW i \in DOMAIN items', NEW k \in DOMAIN items',
                      items'[i].row = items'[k].row, items'[i].row # 0
               PROVE  i = k
    BY <1>2 DEF RowsLoadOnce
  <2>1. i \notin DOMAIN items /\ k \notin DOMAIN items  BY <1>4, <1>22
  <2>2. /\ i - Len(items) \in D /\ items'[i] = M[i - Len(items)]
        /\ k - Len(items) \in D /\ items'[k] = M[k - Len(items)]
    BY <1>16, <1>22, <2>1
  <2>3. T[i - Len(items)] = T[k - Len(items)]  BY <1>15, <2>2
  <2>4. i - Len(items) = k - Len(items)  BY <1>10, <2>2, <2>3
  <2>5. i \in Nat /\ k \in Nat /\ Len(items) \in Nat  BY <1>6, <1>22
  <2> QED  BY <2>4, <2>5
<1>30. FlagsTrue'  BY <1>2, <1>23, <1>24 DEF FlagsTrue, UntitledSlippedIn
<1> QED  BY <1>22, <1>25, <1>26, <1>27, <1>28, <1>29, <1>30

LEMMA RevertCommitKeeps ==
  ASSUME IngestionInv, NEW h \in Handlers, RevertCommit(h)
  PROVE  IngestionInv'
<1> USE DEF IngestionInv
<1>1. /\ handler[h].doing = "reverted" /\ import = "loaded" /\ ~Held /\ import' = "reverted"
      /\ items' = [i \in DOMAIN items |->
                     IF i \in handler[h].rows
                     THEN [items[i] EXCEPT !.live = FALSE, !.stamped = TRUE] ELSE items[i]]
      /\ handler' = [handler EXCEPT ![h] = Resting_]
      /\ UNCHANGED <<request, staged, blob, overwrote, slipped>>
  BY DEF RevertCommit, Serve_
<1>2. items \in Seq(ItemRow)  BY DEF IngestionTypes
<1>3. ASSUME NEW i \in DOMAIN items
      PROVE  /\ items'[i] \in ItemRow /\ SameIdentity(items[i], items'[i])
             /\ OnlyPictured(items[i]) => OnlyPictured(items'[i])
  <2>1. items[i] \in ItemRow  BY <1>2
  <2>2. CASE i \in handler[h].rows
    BY <1>1, <2>1, <2>2 DEF ItemRow, ItemFields, SameIdentity, OnlyPictured
  <2>3. CASE i \notin handler[h].rows  BY <1>1, <2>1, <2>3 DEF SameIdentity
  <2> QED  BY <2>2, <2>3
<1>4. items' \in Seq(ItemRow) /\ Len(items') = Len(items) /\ DOMAIN items' = DOMAIN items
  <2> DEFINE n == Len(items)
  <2>1. n \in Nat /\ DOMAIN items = 1..n  BY <1>2
  <2>2. \A i \in 1..n : items'[i] \in ItemRow  BY <1>3, <2>1
  <2>3. DOMAIN items' = 1..n /\ items' = [i \in 1..n |-> items'[i]]  BY <1>1, <2>1
  <2> HIDE DEF n
  <2>4. items' \in [1..n -> ItemRow]  BY <2>2, <2>3
  <2>5. items' \in Seq(ItemRow) /\ Len(items') = n  BY <2>1, <2>4
  <2> QED  BY <2>1, <2>3, <2>5 DEF n
<1>5. /\ OneItemPerKey' /\ DuplicatesOverlapped'
      /\ \A sku, n : Clear(sku, n) => Clear(sku, n)'
      /\ \A i \in DOMAIN items' : items'[i].row = items[i].row
  BY <1>3, <1>4, ItemsWritten
<1>6. \A g \in Handlers : ~HoldsLock(handler[g])  BY <1>1 DEF Held, HoldsLock
<1>7. handler' \in [Handlers -> Job_] /\ OneHolder' /\ JobsTrue'
  BY <1>1, <1>3, <1>4, <1>6, JobDone
<1>8. IngestionTypes'  BY <1>1, <1>4, <1>7 DEF IngestionTypes
<1>9. CallsTrue'
  <2>1. request' = request /\ Len(items') = Len(items)  BY <1>1, <1>4
  <2>2. ASSUME NEW c \in Callers_ PROVE CallClear(request[c])'
    <3>1. CallClear(request[c])  BY DEF CallsTrue
    <3> QED  BY <1>5, <2>1, <3>1 DEF CallClear
  <2> QED  BY <2>1, <2>2 DEF CallsTrue
<1>10. LoadedIfRows'  BY <1>1 DEF LoadedIfRows
<1>11. RowsLoadOnce'
  <2>1. RowsLoadOnce /\ overwrote' = overwrote  BY <1>1
  <2> QED  BY <1>4, <1>5, <2>1 DEF RowsLoadOnce
<1>12. FlagsTrue'  BY <1>1 DEF FlagsTrue, UntitledSlippedIn
<1> QED  BY <1>5, <1>7, <1>8, <1>9, <1>10, <1>11, <1>12

LEMMA ReapKeeps ==
  ASSUME IngestionInv, Reap
  PROVE  IngestionInv'
<1> USE DEF IngestionInv
<1>1. /\ ~Held /\ staged' = << >> /\ blob' = FALSE /\ slipped' = {}
      /\ handler' = [h \in Handlers |->
                       IF handler[h].doing = "confirm" THEN Resting_ ELSE handler[h]]
      /\ UNCHANGED <<catalogVars, import, overwrote>>
  BY DEF Reap
<1>2. items' = items /\ request' = request  BY <1>1 DEF catalogVars
<1>3. staged' \in Seq(StagedRow) /\ Len(staged') = 0 /\ DOMAIN staged' = {}  BY <1>1
<1>4. ASSUME NEW g \in Handlers
      PROVE  handler'[g] \in Job_ /\ ~HoldsLock(handler'[g]) /\ JobOK(handler[g])'
  BY <1>1, <1>2, RestingJob, UnlockedKeepsJob DEF IngestionTypes, Held, HoldsLock, JobOK,
     JobInRange, JobClear, JobFirst, JobTitles, JobSpares, Clear
<1>5. handler' \in [Handlers -> Job_]  BY <1>1, <1>4
<1>6. IngestionTypes'  BY <1>1, <1>2, <1>3, <1>5 DEF IngestionTypes
<1>7. OneHolder' /\ JobsTrue'  BY <1>4 DEF OneHolder, JobsTrue, HoldsLock
<1>8. LoadedIfRows'  BY <1>1, <1>2 DEF LoadedIfRows
<1>9. FlagsTrue'  BY <1>3 DEF FlagsTrue, UntitledSlippedIn
<1> QED  BY <1>1, <1>6, <1>7, <1>8, <1>9, BatchKeeps

LEMMA LoseBlobKeeps ==
  ASSUME IngestionInv, LoseBlob
  PROVE  IngestionInv'
<1> USE DEF IngestionInv
<1>1. blob' = FALSE /\ UNCHANGED <<catalogVars, import, staged, handler, overwrote, slipped>>
  BY DEF LoseBlob
<1>2. items' = items /\ request' = request  BY <1>1 DEF catalogVars
<1>3. IngestionTypes'  BY <1>1, <1>2 DEF IngestionTypes
<1>4. OneHolder'  BY <1>1 DEF OneHolder, HoldsLock
<1>5. JobsTrue'
  BY <1>1, <1>2
  DEF JobsTrue, JobOK, JobInRange, JobClear, JobFirst, JobTitles, JobSpares, Clear, HoldsLock
<1>6. LoadedIfRows' /\ FlagsTrue'
  BY <1>1, <1>2 DEF LoadedIfRows, FlagsTrue, UntitledSlippedIn
<1> QED  BY <1>1, <1>3, <1>4, <1>5, <1>6, BatchKeeps

LEMMA IngestionSteps ==
  ASSUME IngestionInv, [IngestionNext]_ingestionVars
  PROVE  IngestionInv'
<1>1. CASE UNCHANGED ingestionVars
  <2>1. UNCHANGED <<catalogVars, items, request, import, staged, handler, blob, overwrote, slipped>>
    BY <1>1 DEF ingestionVars, importVars, catalogVars
  <2>2. IngestionTypes' /\ OneHolder' /\ JobsTrue' /\ LoadedIfRows' /\ FlagsTrue'
    BY <2>1
    DEF IngestionInv, IngestionTypes, OneHolder, JobsTrue, LoadedIfRows, FlagsTrue, UntitledSlippedIn,
        JobOK, JobInRange, JobClear, JobFirst, JobTitles, JobSpares, Clear, HoldsLock
  <2> QED  BY <2>1, <2>2, BatchKeeps
<1>2. CASE /\ UNCHANGED importVars
           /\ CatalogNext(\E h \in Handlers : handler[h].doing = "reverted")
  BY <1>2, CatalogSteps
<1>3. ASSUME NEW h \in Handlers,
             \/ \E stage \in DOMAIN Ends : ReadState(h, stage)
             \/ Begin(h) \/ CommitExtract(h) \/ CommitValidate(h) \/ CommitLoad(h)
             \/ RevertRead(h) \/ RevertCommit(h) \/ DropHandler(h)
             \/ ConfirmWrite(h)
      PROVE  IngestionInv'
  BY <1>3, ReadStateKeeps, BeginKeeps, CommitExtractKeeps, CommitValidateKeeps, CommitLoadKeeps,
     RevertReadKeeps, RevertCommitKeeps, DropHandlerKeeps, ConfirmWriteKeeps
<1>4. ASSUME NEW h \in Handlers, ConfirmRead(h, {i \in DOMAIN staged : Confirmable(staged[i])})
      PROVE  IngestionInv'
  BY <1>4, ConfirmReadKeeps DEF Confirmable
<1>5. ASSUME NEW h \in Handlers, NEW i \in DOMAIN staged, ~staged[i].flagged, ConfirmRead(h, {i})
      PROVE  IngestionInv'
  BY <1>5, ConfirmReadKeeps
<1>6. ASSUME NEW i \in DOMAIN staged, Reject(i) \/ \E titled \in BOOLEAN : Edit(i, titled)
      PROVE  IngestionInv'
  BY <1>6, RejectKeeps, EditKeeps
<1> QED  BY <1>1, <1>2, <1>3, <1>4, <1>5, <1>6, ReapKeeps, LoseBlobKeeps DEF IngestionNext

LEMMA IngestionInvShows ==
  IngestionInv => /\ IngestionTypeOK /\ OneItemPerKey /\ DuplicatesOverlapped
                  /\ RowsLoadOnce /\ UntitledSlippedIn
<1> SUFFICES ASSUME IngestionInv PROVE IngestionTypeOK  BY DEF IngestionInv, FlagsTrue
<1>1. staged \in Seq(StagedRow)  BY DEF IngestionInv, IngestionTypes
<1>2. \A i \in DOMAIN staged : staged[i] \in StagedRow  BY <1>1
<1> QED  BY <1>2 DEF IngestionInv, IngestionTypes, IngestionTypeOK, StagedRow

(* Only the step of a revert, of what it had read, archives items.           *)
LEMMA IngestionActions ==
  ASSUME IngestionInv, IngestionNext
  PROVE  RevertSparesEdits
<1> SUFFICES ASSUME import = "loaded", import' = "reverted", NEW i \in DOMAIN items,
                    items[i].live, ~items'[i].live
             PROVE  OnlyPictured(items[i])
  BY DEF RevertSparesEdits, OnlyPictured
<1>1. \E h \in Handlers : RevertCommit(h)
  BY DEF IngestionNext, importVars, ReadState, Begin, CommitExtract, CommitValidate, CommitLoad,
         RevertRead, DropHandler, ConfirmRead, ConfirmWrite, Reject, Edit, Reap, LoseBlob
<1>2. PICK h \in Handlers : RevertCommit(h)  BY <1>1
<1>3. JobSpares(handler[h])  BY DEF IngestionInv, JobsTrue, JobOK
<1>4. i \in handler[h].rows  BY <1>2 DEF RevertCommit
<1> QED  BY <1>2, <1>3, <1>4 DEF RevertCommit, JobSpares

(*************************************************************************)
(* Privacy                                                               *)
(*************************************************************************)

StoredItem == [kind : Kinds, n : Nat]
Record_ == [named : BOOLEAN, items : SUBSET StoredItem, since : Nat]
Exporting == [at : {"exported"}, named : BOOLEAN, items : SUBSET StoredItem, since : Nat]
Deleting == [at : {"deleted"}, named : BOOLEAN, items : SUBSET StoredItem, since : Nat,
             gone : SUBSET StoredItem]
Erased == [at : {"done"}, gone : SUBSET StoredItem]

PrivacyTypes ==
  /\ contact \in [named : BOOLEAN, erased : BOOLEAN]
  /\ rowLock \in Incoming \cup {Nobody}
  /\ stored \subseteq StoredItem /\ \A i \in stored : i.n < nextItem
  /\ nextItem \in 1..MaxStored
  /\ archive \in Seq(Record_)
  /\ eraser \in [Erasers -> {NotAsked} \cup Exporting \cup Deleting \cup Erased]
  /\ inflow \in [Incoming -> {"none", "matched"}]
  /\ annotator \in [Annotators -> {"none", "owned"}]

(* Who matched the contact holds its row, which still names him.             *)
LockedByMatch ==
  /\ \A v \in Incoming : inflow[v] = "matched" => rowLock = v /\ contact.named
  /\ contact.erased => ~contact.named

(* What an erasure that deleted will not have seen came in while it ran.     *)
DeletedOrOverlapped ==
  /\ \A e \in Erasers : eraser[e].at = "deleted" => stored \subseteq eraser[e].gone \cup overlapped
  /\ MessagesGone

(* What an erasure that read the record has not read came in since.          *)
ReadOrUnseen ==
  /\ \A e \in Erasers : eraser[e].at = "exported" => stored \subseteq eraser[e].items \cup unseen
  /\ \A e \in Erasers :
       eraser[e].at = "deleted" => eraser[e].gone \subseteq eraser[e].items \cup unseen
  /\ ErasedIsArchived

(* Until the first erasure commits, everyone who read the record read a name. *)
FirstRecordNames ==
  /\ archive = << >> => /\ contact.named
                        /\ \A e \in Erasers : eraser[e].at \in {"exported", "deleted"} => eraser[e].named
  /\ Len(archive) = 1 => archive[1].named

PrivacyInv ==
  PrivacyTypes /\ LockedByMatch /\ DeletedOrOverlapped /\ ReadOrUnseen /\ FirstRecordNames

LEMMA EraserShapes ==
  ASSUME PrivacyTypes, NEW e \in Erasers
  PROVE  /\ eraser[e].at \in {"none", "exported", "deleted", "done"}
         /\ eraser[e].at = "none" => eraser[e] = NotAsked
         /\ eraser[e].at = "exported" => eraser[e] \in Exporting
         /\ eraser[e].at = "deleted" => eraser[e] \in Deleting
         /\ eraser[e].at = "done" => eraser[e] \in Erased
<1> eraser[e] \in {NotAsked} \cup Exporting \cup Deleting \cup Erased  BY DEF PrivacyTypes
<1> QED  BY DEF NotAsked, Exporting, Deleting, Erased

LEMMA PrivacyStarts == PrivacyInit => PrivacyInv
<1> SUFFICES ASSUME PrivacyInit PROVE PrivacyInv  OBVIOUS
<1>0. \A e \in Erasers : eraser[e].at = "none"  BY DEF PrivacyInit, NotAsked
<1>1. PrivacyTypes  BY PrivacyAssumption DEF PrivacyInit, StoredItem, Kinds, PrivacyTypes
<1>2. LockedByMatch  BY DEF PrivacyInit, LockedByMatch
<1>3. DeletedOrOverlapped  BY <1>0 DEF PrivacyInit, DeletedOrOverlapped, MessagesGone
<1>4. ReadOrUnseen  BY <1>0 DEF ReadOrUnseen, ErasedIsArchived
<1>5. FirstRecordNames  BY <1>0 DEF PrivacyInit, FirstRecordNames
<1> QED  BY <1>1, <1>2, <1>3, <1>4, <1>5 DEF PrivacyInv

(* An item stored while the erasers stand still: who deleted finds it among   *)
(* the overlapped, who read the record among the unseen.                      *)
LEMMA StoreKeeps ==
  ASSUME PrivacyInv, NEW item \in StoredItem, item.n = nextItem, Store(item),
         UNCHANGED <<archive, eraser>>,
         contact' \in [named : BOOLEAN, erased : BOOLEAN],
         contact'.named = contact.named \/ contact'.named, contact'.erased = contact.erased,
         contact.erased => item.kind # "inbound"
  PROVE  /\ stored' \subseteq StoredItem /\ \A i \in stored' : i.n < nextItem'
         /\ nextItem' \in 1..MaxStored
         /\ DeletedOrOverlapped' /\ ReadOrUnseen' /\ FirstRecordNames'
<1> USE DEF PrivacyInv
<1>1. /\ stored' = stored \cup {item} /\ nextItem' = nextItem + 1 /\ nextItem < MaxStored
      /\ overlapped' = IF Deleted # {} THEN overlapped \cup {item} ELSE overlapped
      /\ unseen' = IF Exported # {} THEN unseen \cup {item} ELSE unseen
  BY DEF Store
<1>2. stored' \subseteq StoredItem /\ \A i \in stored' : i.n < nextItem'
  BY <1>1 DEF PrivacyTypes, StoredItem
<1>3. nextItem' \in 1..MaxStored  BY <1>1, PrivacyAssumption DEF PrivacyTypes
<1>4. DeletedOrOverlapped'  BY <1>1 DEF Deleted, DeletedOrOverlapped, MessagesGone
<1>5. ReadOrUnseen'  BY <1>1 DEF Exported, ReadOrUnseen, ErasedIsArchived
<1>6. FirstRecordNames'  BY DEF FirstRecordNames
<1> QED  BY <1>2, <1>3, <1>4, <1>5, <1>6

LEMMA MatchContactKeeps ==
  ASSUME PrivacyInv, NEW v \in Incoming, MatchContact(v)
  PROVE  PrivacyInv'
<1> USE DEF PrivacyInv
<1>1. UNCHANGED <<contact, stored, nextItem, archive, eraser, annotator, overlapped, unseen>>
  BY DEF MatchContact
<1>2. inflow' = [inflow EXCEPT ![v] = "matched"] /\ rowLock' = v /\ rowLock = Nobody /\ contact.named
  BY DEF MatchContact, FindsRow
<1>3. PrivacyTypes'  BY <1>1, <1>2 DEF PrivacyTypes
<1>4. LockedByMatch'  BY <1>1, <1>2, PrivacyAssumption DEF LockedByMatch, PrivacyTypes
<1> QED
  BY <1>1, <1>3, <1>4 DEF DeletedOrOverlapped, MessagesGone, ReadOrUnseen, ErasedIsArchived, FirstRecordNames

LEMMA StoreInboundKeeps ==
  ASSUME PrivacyInv, NEW v \in Incoming, StoreInbound(v)
  PROVE  PrivacyInv'
<1> USE DEF PrivacyInv
<1> DEFINE item == Item("inbound")
<1>1. /\ inflow[v] = "matched" /\ Store(item) /\ contact' = [contact EXCEPT !.named = TRUE]
      /\ inflow' = [inflow EXCEPT ![v] = "none"] /\ rowLock' = Nobody
      /\ UNCHANGED <<archive, eraser, annotator>>
  BY DEF StoreInbound
<1>2. item \in StoredItem /\ item.n = nextItem /\ nextItem \in Nat
  BY DEF Item, StoredItem, Kinds, PrivacyTypes
<1>3. rowLock = v /\ contact.named /\ ~contact.erased  BY <1>1 DEF LockedByMatch
<1>4. contact' \in [named : BOOLEAN, erased : BOOLEAN] /\ contact'.named /\ contact'.erased = contact.erased
  BY <1>1 DEF PrivacyTypes
<1> HIDE DEF item
<1>5. /\ stored' \subseteq StoredItem /\ \A i \in stored' : i.n < nextItem'
      /\ nextItem' \in 1..MaxStored
      /\ DeletedOrOverlapped' /\ ReadOrUnseen' /\ FirstRecordNames'
  BY <1>1, <1>2, <1>3, <1>4, StoreKeeps
<1>6. PrivacyTypes'  BY <1>1, <1>4, <1>5 DEF PrivacyTypes
<1>7. LockedByMatch'  BY <1>1, <1>3, <1>4 DEF LockedByMatch, PrivacyTypes
<1> QED  BY <1>5, <1>6, <1>7

LEMMA StoreOtherKeeps ==
  ASSUME PrivacyInv, NEW kind \in Kinds, kind # "inbound", Store(Item(kind)),
         UNCHANGED <<contact, rowLock, archive, eraser, inflow>>,
         annotator' \in [Annotators -> {"none", "owned"}]
  PROVE  PrivacyInv'
<1> USE DEF PrivacyInv
<1> DEFINE item == Item(kind)
<1>1. item \in StoredItem /\ item.n = nextItem /\ item.kind # "inbound" /\ Store(item)
  BY DEF Item, StoredItem, PrivacyTypes
<1> HIDE DEF item
<1>2. contact' \in [named : BOOLEAN, erased : BOOLEAN]  BY DEF PrivacyTypes
<1>3. /\ stored' \subseteq StoredItem /\ \A i \in stored' : i.n < nextItem'
      /\ nextItem' \in 1..MaxStored
      /\ DeletedOrOverlapped' /\ ReadOrUnseen' /\ FirstRecordNames'
  BY <1>1, <1>2, StoreKeeps
<1>4. PrivacyTypes'  BY <1>3 DEF PrivacyTypes
<1>5. LockedByMatch'  BY DEF LockedByMatch
<1> QED  BY <1>3, <1>4, <1>5

LEMMA RemoveTagKeeps ==
  ASSUME PrivacyInv, NEW item \in stored, RemoveTag(item)
  PROVE  PrivacyInv'
<1> USE DEF PrivacyInv
<1>1. /\ stored' = stored \ {item}
      /\ UNCHANGED <<contact, rowLock, nextItem, archive, eraser, inflow, annotator, overlapped, unseen>>
  BY DEF RemoveTag
<1>2. stored' \subseteq stored  BY <1>1
<1>3. PrivacyTypes'  BY <1>1, <1>2 DEF PrivacyTypes
<1>4. LockedByMatch'  BY <1>1 DEF LockedByMatch
<1>5. DeletedOrOverlapped'  BY <1>1, <1>2 DEF DeletedOrOverlapped, MessagesGone
<1>6. ReadOrUnseen'  BY <1>1, <1>2 DEF ReadOrUnseen, ErasedIsArchived
<1>7. FirstRecordNames'  BY <1>1 DEF FirstRecordNames
<1> QED  BY <1>3, <1>4, <1>5, <1>6, <1>7

LEMMA CheckOwnedKeeps ==
  ASSUME PrivacyInv, NEW a \in Annotators, CheckOwned(a)
  PROVE  PrivacyInv'
<1> USE DEF PrivacyInv
<1>1. /\ annotator' = [annotator EXCEPT ![a] = "owned"]
      /\ UNCHANGED <<contact, rowLock, stored, nextItem, archive, eraser, inflow, overlapped, unseen>>
  BY DEF CheckOwned
<1>2. PrivacyTypes'  BY <1>1 DEF PrivacyTypes
<1> QED
  BY <1>1, <1>2 DEF LockedByMatch, DeletedOrOverlapped, MessagesGone, ReadOrUnseen, ErasedIsArchived,
                    FirstRecordNames

LEMMA ExportRecordKeeps ==
  ASSUME PrivacyInv, NEW e \in Erasers, ExportRecord(e)
  PROVE  PrivacyInv'
<1> USE DEF PrivacyInv
<1> DEFINE since == Cardinality({x \in Erasers : eraser[x] # NotAsked})
           rec == [at |-> "exported", named |-> contact.named, items |-> stored, since |-> since]
<1>1. /\ eraser' = [eraser EXCEPT ![e] = rec]
      /\ UNCHANGED <<contact, rowLock, stored, nextItem, archive, inflow, annotator, overlapped, unseen>>
  BY DEF ExportRecord
<1>2. since \in Nat  BY PrivacyAssumption, FS_Subset, FS_CardinalityType
<1> HIDE DEF since
<1>3. rec \in Exporting  BY <1>2 DEF Exporting, PrivacyTypes
<1>4. rec.at = "exported" /\ rec.named = contact.named /\ rec.items = stored  OBVIOUS
<1> HIDE DEF rec
<1>5. \A x \in Erasers : eraser'[x] = IF x = e THEN rec ELSE eraser[x]  BY <1>1 DEF PrivacyTypes
<1>6. PrivacyTypes'  BY <1>1, <1>3 DEF PrivacyTypes
<1>7. LockedByMatch'  BY <1>1 DEF LockedByMatch
<1>8. DeletedOrOverlapped'  BY <1>1, <1>4, <1>5 DEF DeletedOrOverlapped, MessagesGone
<1>9. ReadOrUnseen'  BY <1>1, <1>4, <1>5 DEF ReadOrUnseen, ErasedIsArchived
<1>10. FirstRecordNames'  BY <1>1, <1>4, <1>5 DEF FirstRecordNames
<1> QED  BY <1>6, <1>7, <1>8, <1>9, <1>10

LEMMA DeleteItemsKeeps ==
  ASSUME PrivacyInv, NEW e \in Erasers, DeleteItems(e)
  PROVE  PrivacyInv'
<1> USE DEF PrivacyInv
<1> DEFINE rec == [at |-> "deleted", named |-> eraser[e].named, items |-> eraser[e].items,
                   since |-> eraser[e].since, gone |-> stored]
<1>1. /\ eraser[e].at = "exported" /\ eraser' = [eraser EXCEPT ![e] = rec]
      /\ UNCHANGED <<contact, rowLock, stored, nextItem, archive, inflow, annotator, overlapped, unseen>>
  BY DEF DeleteItems
<1>2. eraser[e] \in Exporting  BY <1>1, EraserShapes
<1>3. rec \in Deleting  BY <1>2 DEF Exporting, Deleting, PrivacyTypes
<1>4. rec.at = "deleted" /\ rec.named = eraser[e].named /\ rec.items = eraser[e].items /\ rec.gone = stored
  OBVIOUS
<1> HIDE DEF rec
<1>5. \A x \in Erasers : eraser'[x] = IF x = e THEN rec ELSE eraser[x]  BY <1>1 DEF PrivacyTypes
<1>6. PrivacyTypes'  BY <1>1, <1>3 DEF PrivacyTypes
<1>7. LockedByMatch'  BY <1>1 DEF LockedByMatch
<1>8. DeletedOrOverlapped'  BY <1>1, <1>4, <1>5 DEF DeletedOrOverlapped, MessagesGone
<1>9. ReadOrUnseen'  BY <1>1, <1>4, <1>5 DEF ReadOrUnseen, ErasedIsArchived
<1>10. FirstRecordNames'  BY <1>1, <1>4, <1>5 DEF FirstRecordNames
<1> QED  BY <1>6, <1>7, <1>8, <1>9, <1>10

LEMMA CommitErasureKeeps ==
  ASSUME PrivacyInv, NEW e \in Erasers, CommitErasure(e)
  PROVE  PrivacyInv'
<1> USE DEF PrivacyInv
<1> DEFINE rec == [at |-> "done", gone |-> eraser[e].gone]
           kept == Keeps(e)
<1>1. /\ eraser[e].at = "deleted" /\ rowLock = Nobody /\ contact' = [named |-> FALSE, erased |-> TRUE]
      /\ stored' = stored \ eraser[e].gone /\ archive' = Append(archive, kept)
      /\ eraser' = [eraser EXCEPT ![e] = rec]
      /\ UNCHANGED <<rowLock, nextItem, inflow, annotator, overlapped, unseen>>
  BY DEF CommitErasure, RowIsFree, Wiped, Anonymised, KeepsRecord
<1>2. eraser[e] \in Deleting  BY <1>1, EraserShapes
<1>3. kept \in Record_ /\ kept.items = eraser[e].items /\ kept.named = eraser[e].named
  BY <1>2 DEF Keeps, Record_, Deleting
<1>4. rec \in Erased /\ rec.at = "done" /\ rec.gone = eraser[e].gone  BY <1>2 DEF Erased, Deleting
<1> HIDE DEF rec, kept
<1>5. \A x \in Erasers : eraser'[x] = IF x = e THEN rec ELSE eraser[x]  BY <1>1 DEF PrivacyTypes
<1>6. stored' \subseteq stored  BY <1>1
<1>7. /\ archive' \in Seq(Record_) /\ Len(archive') = Len(archive) + 1
      /\ archive'[Len(archive) + 1] = kept
      /\ \A k \in DOMAIN archive : k \in DOMAIN archive' /\ archive'[k] = archive[k]
      /\ Len(archive) + 1 \in DOMAIN archive' /\ Len(archive) \in Nat
  BY <1>1, <1>3 DEF PrivacyTypes
<1>8. PrivacyTypes'  BY <1>1, <1>4, <1>6, <1>7 DEF PrivacyTypes
<1>9. LockedByMatch'  BY <1>1, PrivacyAssumption DEF LockedByMatch
<1>10. DeletedOrOverlapped'  BY <1>1, <1>4, <1>5 DEF DeletedOrOverlapped, MessagesGone
<1>11. ReadOrUnseen'  BY <1>1, <1>3, <1>4, <1>5, <1>6, <1>7 DEF ErasedIsArchived, ReadOrUnseen
<1>12. FirstRecordNames'  BY <1>1, <1>3, <1>7 DEF PrivacyTypes, FirstRecordNames
<1> QED  BY <1>8, <1>9, <1>10, <1>11, <1>12

LEMMA AbortErasureKeeps ==
  ASSUME PrivacyInv, NEW e \in Erasers, AbortErasure(e)
  PROVE  PrivacyInv'
<1> USE DEF PrivacyInv
<1>1. /\ eraser' = [eraser EXCEPT ![e] = NotAsked]
      /\ UNCHANGED <<contact, rowLock, stored, nextItem, archive, inflow, annotator, overlapped, unseen>>
  BY DEF AbortErasure
<1>2. NotAsked.at = "none"  BY DEF NotAsked
<1>3. \A x \in Erasers : eraser'[x] = IF x = e THEN NotAsked ELSE eraser[x]  BY <1>1 DEF PrivacyTypes
<1>4. PrivacyTypes'  BY <1>1 DEF PrivacyTypes
<1>5. LockedByMatch'  BY <1>1 DEF LockedByMatch
<1>6. DeletedOrOverlapped'  BY <1>1, <1>2, <1>3 DEF DeletedOrOverlapped, MessagesGone
<1>7. ReadOrUnseen'  BY <1>1, <1>2, <1>3 DEF ReadOrUnseen, ErasedIsArchived
<1>8. FirstRecordNames'  BY <1>1, <1>2, <1>3 DEF FirstRecordNames
<1> QED  BY <1>4, <1>5, <1>6, <1>7, <1>8

LEMMA PrivacySteps == PrivacyInv /\ [PrivacyNext]_privacyVars => PrivacyInv'
<1> SUFFICES ASSUME PrivacyInv, [PrivacyNext]_privacyVars PROVE PrivacyInv'  OBVIOUS
<1>1. ASSUME NEW v \in Incoming, MatchContact(v) \/ StoreInbound(v)  PROVE PrivacyInv'
  BY <1>1, MatchContactKeeps, StoreInboundKeeps
<1>2. CASE StoreReply
  BY <1>2, StoreOtherKeeps DEF StoreReply, PrivacyInv, PrivacyTypes, Kinds
<1>3. ASSUME NEW a \in Annotators, CheckOwned(a) \/ Annotate(a)  PROVE PrivacyInv'
  BY <1>3, CheckOwnedKeeps, StoreOtherKeeps DEF Annotate, PrivacyInv, PrivacyTypes, Kinds
<1>4. ASSUME NEW item \in stored, RemoveTag(item)  PROVE PrivacyInv'  BY <1>4, RemoveTagKeeps
<1>5. ASSUME NEW e \in Erasers, ExportRecord(e) \/ DeleteItems(e) \/ CommitErasure(e) \/ AbortErasure(e)
      PROVE  PrivacyInv'
  BY <1>5, ExportRecordKeeps, DeleteItemsKeeps, CommitErasureKeeps, AbortErasureKeeps
<1>6. CASE UNCHANGED privacyVars
  BY <1>6 DEF privacyVars, PrivacyInv, PrivacyTypes, LockedByMatch, DeletedOrOverlapped, MessagesGone,
              ReadOrUnseen, ErasedIsArchived, FirstRecordNames, NotAsked, Exporting, Deleting, Erased
<1> QED  BY <1>1, <1>2, <1>3, <1>4, <1>5, <1>6 DEF PrivacyNext

LEMMA PrivacyInvShows ==
  PrivacyInv => PrivacyTypeOK /\ MessagesGone /\ ErasedIsArchived /\ OriginalHandedOut
<1> SUFFICES ASSUME PrivacyInv
             PROVE  PrivacyTypeOK /\ MessagesGone /\ ErasedIsArchived /\ OriginalHandedOut
  OBVIOUS
<1> USE DEF PrivacyInv
<1>1. PrivacyTypeOK  BY EraserShapes DEF PrivacyTypes, StoredItem, PrivacyTypeOK
<1>2. OriginalHandedOut
  <2> SUFFICES ASSUME Len(archive) = 1 PROVE archive[HandedOut].named  BY DEF OriginalHandedOut
  <2>1. DOMAIN archive = {1} /\ archive[1] \in Record_  BY DEF PrivacyTypes
  <2>2. archive[1].since <= archive[1].since  BY <2>1 DEF Record_
  <2>3. \E i \in DOMAIN archive : \A k \in DOMAIN archive : archive[k].since <= archive[i].since
    BY <2>1, <2>2
  <2>4. HandedOut \in DOMAIN archive  BY <2>3 DEF HandedOut
  <2> QED  BY <2>1, <2>4 DEF FirstRecordNames
<1> QED  BY <1>1, <1>2 DEF DeletedOrOverlapped, ReadOrUnseen

LEMMA PrivacyActions == PrivacyInv /\ [PrivacyNext]_privacyVars => ErasedStaysBlank
<1> SUFFICES ASSUME PrivacyInv, [PrivacyNext]_privacyVars, contact.erased PROVE ~contact'.named
  BY DEF ErasedStaysBlank
<1>1. ~contact.named /\ \A v \in Incoming : inflow[v] # "matched"
  BY DEF PrivacyInv, LockedByMatch
<1>2. contact' = contact \/ contact' = [named |-> FALSE, erased |-> TRUE]
  BY <1>1 DEF PrivacyNext, privacyVars, MatchContact, StoreInbound, StoreReply, CheckOwned, Annotate,
              RemoveTag, ExportRecord, DeleteItems, CommitErasure, AbortErasure, Wiped, Anonymised
<1> QED  BY <1>1, <1>2

(*************************************************************************)
(* The theorems                                                          *)
(*************************************************************************)

(* Receipts are numbered without gap, a capture the webhook answered is not   *)
(* lost between the two commits, and receipts go out for approved drafts,     *)
(* more than one each only where a worker died after the send                 *)
(* (src/core/payments), for any number of clerks, charges and captures.       *)
THEOREM PaymentsAccounted ==
  PaymentsSpec => [](PaymentsTypeOK /\ NumbersGapFree /\ CaptureNotLost /\ ReceiptsAccounted)
<1>1. PaymentsInv => PaymentsTypeOK /\ NumbersGapFree /\ CaptureNotLost /\ ReceiptsAccounted
  BY PaymentsInvShows
<1> QED  BY PaymentsStarts, PaymentsSteps, <1>1, PTL DEF PaymentsSpec

(* A charge that has its receipt keeps it (mark_receipted and the webhook's    *)
(* confirmation both write the row).                                          *)
THEOREM ReceiptedStaysFinal == PaymentsSpec => [][ReceiptedIsFinal]_paymentVars
<1>1. PaymentsInv /\ [PaymentsNext]_paymentVars => [ReceiptedIsFinal]_paymentVars
  BY PaymentsActions
<1> QED  BY PaymentsStarts, PaymentsSteps, <1>1, PTL DEF PaymentsSpec

(* A store's budget is exceeded by less than what the charges judged at once   *)
(* add up to (record_usage judges before it records, src/core/billing).       *)
THEOREM BudgetOverrunIsBounded == BillingSpec => [](BillingTypeOK /\ BudgetOverrunBounded)
<1>1. BillingInv => BillingTypeOK /\ BudgetOverrunBounded  BY BillingInvShows
<1> QED  BY BillingStarts, BillingSteps, <1>1, PTL DEF BillingSpec

(* What was sold keeps its terms and a retired plan takes no new store         *)
(* (plan_builder.py's rewrites, retire and assign, under the plan's lock).    *)
THEOREM SoldTermsAreKept == BillingSpec => [][SoldTermsHold /\ RetiredTakesNobody]_billingVars
<1>1. BillingInv /\ [BillingNext]_billingVars
        => [SoldTermsHold /\ RetiredTakesNobody]_billingVars
  BY BillingActions
<1> QED  BY BillingStarts, BillingSteps, <1>1, PTL DEF BillingSpec

(* The resolver grants the largest set of a plan's capabilities in which every *)
(* dependency holds, a plan validate_draft accepted delivers what it names and *)
(* a copied plan grants what its source did (src/core/tenancy/entitlements.py,  *)
(* src/core/billing/plan_builder.py), for any finite catalogue.               *)
THEOREM GrantsAreSound ==
  EntSpec => [](EntTypeOK /\ BlessedPlanDelivers /\ GrantsAreLargest /\ CopyKeepsGrants)
<1>1. EntInv => EntTypeOK /\ BlessedPlanDelivers /\ GrantsAreLargest /\ CopyKeepsGrants
  BY EntInvShows
<1> QED  BY EntStarts, EntSteps, <1>1, PTL DEF EntSpec

(* Through retried creates, racing imports, re-extractions, edits and reverts, *)
(* one Idempotency-Key and one row of a sheet become at most one item each, and *)
(* duplicates and untitled rows come from overlapping calls only               *)
(* (src/core/catalog/crud.py, src/core/ingestion), for any sheet and any        *)
(* number of calls and handlers.                                              *)
THEOREM ImportsLoadOnce ==
  IngestionSpec => [](/\ IngestionTypeOK /\ OneItemPerKey /\ DuplicatesOverlapped
                      /\ RowsLoadOnce /\ UntitledSlippedIn)
<1>1. IngestionInv => /\ IngestionTypeOK /\ OneItemPerKey /\ DuplicatesOverlapped
                      /\ RowsLoadOnce /\ UntitledSlippedIn
  BY IngestionInvShows
<1> QED  BY IngestionStarts, IngestionSteps, <1>1, PTL DEF IngestionSpec

(* An erased customer's messages are gone from the store, its archive holds    *)
(* what was exported, and only what overlapped the erasure is left             *)
(* (src/core/customers/dpdp.py), for any number of erasing requests.           *)
THEOREM ErasureIsAccounted ==
  PrivacySpec => [](PrivacyTypeOK /\ MessagesGone /\ ErasedIsArchived /\ OriginalHandedOut)
<1>1. PrivacyInv => PrivacyTypeOK /\ MessagesGone /\ ErasedIsArchived /\ OriginalHandedOut
  BY PrivacyInvShows
<1> QED  BY PrivacyStarts, PrivacySteps, <1>1, PTL DEF PrivacySpec

MoneyInv == PaymentsInv /\ BillingInv /\ EntInv

LEMMA MoneySteps == MoneyInv /\ [CommerceNext]_CommerceVars => MoneyInv'
<1> SUFFICES ASSUME MoneyInv, [CommerceNext]_CommerceVars PROVE MoneyInv'  OBVIOUS
<1>1. [PaymentsNext]_paymentVars  BY Zenon DEF CommerceNext, CommerceVars, shopVars
<1>2. [BillingNext]_billingVars  BY Zenon DEF CommerceNext, CommerceVars, shopVars
<1>3. [EntNext]_entVars  BY Zenon DEF CommerceNext, CommerceVars, shopVars
<1> QED  BY <1>1, <1>2, <1>3, PaymentsSteps, BillingSteps, EntSteps DEF MoneyInv

(* Money is accounted for, whichever of the three components moves.           *)
THEOREM MoneyAlwaysAccounted == CommerceSpec => []MoneyAccounted
<1>1. CommerceInit => MoneyInv
  BY PaymentsStarts, BillingStarts, EntStarts DEF CommerceInit, MoneyInv
<1>2. MoneyInv => MoneyAccounted
  BY PaymentsInvShows, BillingInvShows, EntInvShows DEF MoneyInv, MoneyAccounted
<1> QED  BY <1>1, <1>2, MoneySteps, PTL DEF CommerceSpec

(* The five components with terms to keep; a catalog alone reverts nothing.   *)
TermsInv ==
  /\ MoneyInv /\ IngestionInv /\ PrivacyInv
  /\ focus = "catalog" => handler = [h \in Handlers |-> Resting_]

LEMMA TermsSteps == TermsInv /\ [CommerceNext]_CommerceVars => TermsInv'
<1> SUFFICES ASSUME TermsInv, [CommerceNext]_CommerceVars PROVE TermsInv'  OBVIOUS
<1>1. MoneyInv'  BY MoneySteps DEF TermsInv
<1>2. [PrivacyNext]_privacyVars  BY Zenon DEF CommerceNext, CommerceVars, shopVars, contactVars
<1>3. PrivacyInv'  BY <1>2, PrivacySteps DEF TermsInv
<1>4. /\ focus' = focus
      /\ [IngestionNext]_ingestionVars
           \/ (focus = "catalog" /\ CatalogNext(FALSE) /\ UNCHANGED importVars)
  BY Zenon DEF CommerceNext, CommerceVars, shopVars, contactVars, Alone, ImportNext
<1>5. CASE focus = "catalog" /\ CatalogNext(FALSE) /\ UNCHANGED importVars
  <2>1. ~\E h \in Handlers : handler[h].doing = "reverted"
    BY <1>5, RestingJob DEF TermsInv
  <2>2. PICK racing \in BOOLEAN : racing = FALSE  OBVIOUS
  <2>3. CatalogNext(racing)  BY <1>5, <2>2
  <2>4. IngestionInv'  BY <1>5, <2>1, <2>3, CatalogSteps DEF TermsInv
  <2>5. handler' = handler  BY <1>5 DEF importVars
  <2> QED  BY <1>1, <1>3, <1>4, <2>4, <2>5 DEF TermsInv
<1>6. CASE [IngestionNext]_ingestionVars
  <2>1. IngestionInv'  BY <1>6, IngestionSteps DEF TermsInv
  <2>2. focus = "catalog" => handler' = handler
    BY Zenon DEF CommerceNext, CommerceVars, shopVars, Alone, ImportNext, ingestionVars, importVars
  <2> QED  BY <1>1, <1>3, <1>4, <2>1, <2>2 DEF TermsInv
<1> QED  BY <1>4, <1>5, <1>6

(* Terms once agreed hold: a receipted payment stays receipted, what was sold *)
(* keeps its terms, a retired plan takes no store, a revert spares the items   *)
(* somebody wrote and an erased customer stays blank, whoever moves.          *)
THEOREM TermsAlwaysHold == CommerceSpec => TermsHold
<1> DEFINE Kept == /\ focus = "payments" => ReceiptedIsFinal
                   /\ focus \in {"plans", "budgets"} => SoldTermsHold /\ RetiredTakesNobody
                   /\ focus \in {"catalog", "rows", "races", "overlap"} => RevertSparesEdits
                   /\ focus = "privacy" => ErasedStaysBlank
<1>1. CommerceInit => TermsInv
  BY PaymentsStarts, BillingStarts, EntStarts, IngestionStarts, PrivacyStarts
  DEF CommerceInit, MoneyInv, TermsInv, IngestionInit
<1>2. TermsInv /\ [CommerceNext]_CommerceVars => [Kept]_CommerceVars
  <2> SUFFICES ASSUME TermsInv, CommerceNext PROVE Kept  OBVIOUS
  <2>1. ASSUME focus = "payments" PROVE ReceiptedIsFinal
    <3>1. PaymentsNext  BY <2>1, Zenon DEF CommerceNext, Alone, ImportNext
    <3> QED  BY <3>1, PaymentsActions DEF TermsInv, MoneyInv
  <2>2. SoldTermsHold /\ RetiredTakesNobody
    <3>1. [BillingNext]_billingVars  BY Zenon DEF CommerceNext, shopVars
    <3> QED  BY <3>1, BillingActions DEF TermsInv, MoneyInv
  <2>3. RevertSparesEdits
    <3>1. IngestionNext \/ import' = import
      BY Zenon DEF CommerceNext, shopVars, ImportNext, ingestionVars, importVars
    <3>2. import' = import => RevertSparesEdits  BY DEF RevertSparesEdits
    <3> QED  BY <3>1, <3>2, IngestionActions DEF TermsInv
  <2>4. ErasedStaysBlank
    <3>1. [PrivacyNext]_privacyVars  BY Zenon DEF CommerceNext, contactVars
    <3> QED  BY <3>1, PrivacyActions DEF TermsInv
  <2> QED  BY <2>1, <2>2, <2>3, <2>4
<1> QED  BY <1>1, <1>2, TermsSteps, PTL DEF CommerceSpec, TermsHold

=============================================================================
