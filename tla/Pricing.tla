-------------------------------- MODULE Pricing --------------------------------
(* Quotes of one catalog item (src/core/pricing): rate snapshots, the          *)
(* weight-times-rate strategy, the quote with its ledger of figures, replay,    *)
(* and the flagging of open quotes when a price input of the item changes.      *)
(* Money is in minor units, 100 to a rupee; weights are in tenths of a gram.    *)
EXTENDS Integers, Sequences, FiniteSets

CONSTANTS
  Weights,    \* values of the price input net_weight_g
  RateSet,    \* per-gram rates a source can report
  Discounts,  \* discounts a caller may ask for
  MakingPct, MakingMin, CeilingPct,   \* the tenant's parameters
  MaxStepPct, \* bound on an automated rate's step
  Staleness,  \* hours a snapshot may be used
  Validities, \* hours a quote may stay valid
  Editors,    \* item patches in flight
  MaxQuotes, MaxSnapshots, LastHour   \* bounds

(* The pack's schema caps discount_ceiling_pct at 20.                          *)
ASSUME PricingAssumption ==
  /\ Weights \subseteq Nat \ {0} /\ RateSet \subseteq Nat \ {0} /\ Discounts \subseteq Nat
  /\ {MakingPct, MakingMin, CeilingPct, MaxStepPct, Staleness, LastHour} \subseteq Nat
  /\ CeilingPct <= 100 /\ Validities \subseteq Nat /\ {MaxQuotes, MaxSnapshots} \subseteq Nat

VARIABLES
  weight,     \* the item's committed price input
  snapshots,  \* rate_snapshots, oldest first
  quotes,     \* quotes with the inputs, snapshot and figures they pinned
  asking,     \* the quote being computed
  editing,    \* what each patch read before it writes
  fetched,    \* the automated rate under way
  hour

pricingVars == <<weight, snapshots, quotes, asking, editing, fetched, hour>>

NotAsking == [stage |-> "idle", weight |-> 0, discount |-> 0, snap |-> 0, at |-> 0,
              dirty |-> FALSE]
NotFetching == [rate |-> 0, saw |-> 0]
NotEditing == 0

PricingInit ==
  /\ weight \in Weights /\ snapshots = <<>> /\ quotes = <<>> /\ hour = 0
  /\ asking = NotAsking /\ fetched = NotFetching /\ editing = [e \in Editors |-> NotEditing]

-----------------------------------------------------------------------------
(* The engine                                                                *)

(* fn_round(n / d, "half_even") of a quotient that is not negative           *)
HalfEven(n, d) ==
  LET q == n \div d
      r == n % d
  IN  IF 2 * r > d \/ (2 * r = d /\ q % 2 = 1) THEN q + 1 ELSE q

Larger(a, b) == IF a >= b THEN a ELSE b

(* Mutant: the discount is rounded half even, so it can pass the ceiling. *)
DiscountRounded(asked, subtotal) ==
  IF asked <= HalfEven(subtotal * CeilingPct, 100) THEN asked
  ELSE HalfEven(subtotal * CeilingPct, 100)

Discount(asked, subtotal) ==
  IF asked <= (subtotal * CeilingPct) \div 100 THEN asked ELSE (subtotal * CeilingPct) \div 100

(* The stages of formula_weight_rate_v1, in order; wastage, labor and stones   *)
(* enter the subtotal as making does                                          *)
Computed(w, rate, asked) ==
  LET metal    == HalfEven(w * rate, 10)
      making   == Larger(HalfEven(metal * MakingPct, 100), MakingMin)
      subtotal == metal + making
      discount == Discount(asked, subtotal)
      tax      == HalfEven((subtotal - discount) * 15, 1000)
  IN  [metal |-> metal, making |-> making, subtotal |-> subtotal, discount |-> discount,
       cgst |-> tax, sgst |-> tax, total |-> subtotal - discount + tax + tax]

(* Mutant: the ledger records the rate to the paisa. *)
ShownRateExact(lines, w) == (lines.metal * 10) \div w

(* _per_gram_rate_minor, in whole rupees as the label shows it               *)
ShownRate(lines, w) == (((lines.metal * 10) \div w) \div 100) * 100

(* figures_from_breakdown and the rate line                                  *)
Ledgered(lines, w) ==
  {lines[l] : l \in {m \in DOMAIN lines : lines[m] > 0}} \cup {lines.total, ShownRate(lines, w)}

-----------------------------------------------------------------------------
(* Rates                                                                     *)

Latest_ == Len(snapshots)
Snapshot(rate, saw) == [rate |-> rate, at |-> hour, saw |-> saw]

(* Mutant: a step down is not a step. *)
InBoundsUp(old, new) == (new - old) * 100 <= MaxStepPct * old

(* _bounds_ok                                                                *)
InBounds(old, new) ==
  /\ (new - old) * 100 <= MaxStepPct * old /\ (old - new) * 100 <= MaxStepPct * old

(* fetch_and_store reads the last good value; a step too large is quarantined *)
FetchRate(rate) ==
  /\ fetched = NotFetching /\ Latest_ < MaxSnapshots
  /\ Latest_ > 0 => InBounds(snapshots[Latest_].rate, rate)
  /\ fetched' = [rate |-> rate, saw |-> Latest_]
  /\ UNCHANGED <<weight, snapshots, quotes, asking, editing, hour>>
StoreRate ==
  /\ fetched # NotFetching /\ Latest_ < MaxSnapshots
  /\ snapshots' = Append(snapshots, Snapshot(fetched.rate, fetched.saw))
  /\ fetched' = NotFetching /\ UNCHANGED <<weight, quotes, asking, editing, hour>>

(* record_manual_rate: no bounds; saw is -1                                  *)
ManualRate(rate) ==
  /\ Latest_ < MaxSnapshots /\ snapshots' = Append(snapshots, Snapshot(rate, -1))
  /\ UNCHANGED <<weight, quotes, asking, editing, fetched, hour>>

-----------------------------------------------------------------------------
(* Quotes                                                                    *)

(* Mutant: a quote is replayed on the newest snapshot of its source. *)
PinnedNewest(q) == snapshots[Latest_].rate

(* _pinned_rate_lookup                                                       *)
Pinned(q) == snapshots[q.snap].rate

(* replay_quote's recomputed figures                                         *)
Replayed(q) == Computed(q.weight, Pinned(q), q.discount)

(* The caller's inputs come from the item it looked up before                *)
LookUp(discount) ==
  /\ asking.stage = "idle" /\ Len(quotes) < MaxQuotes
  /\ asking' = [NotAsking EXCEPT !.stage = "inputs", !.weight = weight, !.discount = discount]
  /\ UNCHANGED <<weight, snapshots, quotes, editing, fetched, hour>>

(* compute_quote with _fresh_rate_lookup; a stale rate is refused             *)
Price ==
  /\ asking.stage = "inputs" /\ Latest_ > 0 /\ snapshots[Latest_].at > hour - Staleness
  /\ asking' = [asking EXCEPT !.stage = "priced", !.snap = Latest_, !.at = hour]
  /\ UNCHANGED <<weight, snapshots, quotes, editing, fetched, hour>>

(* The quote and its ledger rows commit together                             *)
StoreQuote(hours) ==
  LET lines == Computed(asking.weight, snapshots[asking.snap].rate, asking.discount)
  IN  /\ asking.stage = "priced"
      /\ quotes' = Append(quotes, [weight |-> asking.weight, discount |-> asking.discount,
                     snap |-> asking.snap, lines |-> lines, until |-> asking.at + hours,
                     ledger |-> Ledgered(lines, asking.weight),
                     stale |-> FALSE, excused |-> asking.dirty])
      /\ asking' = NotAsking /\ UNCHANGED <<weight, snapshots, editing, fetched, hour>>
RefuseQuote ==
  /\ asking.stage # "idle" /\ asking' = NotAsking
  /\ UNCHANGED <<weight, snapshots, quotes, editing, fetched, hour>>

-----------------------------------------------------------------------------
(* flag_quotes_if_price_inputs_changed, inside catalog update_item            *)

ReadInput(e) ==
  /\ editing[e] = NotEditing /\ editing' = [editing EXCEPT ![e] = weight]
  /\ UNCHANGED <<weight, snapshots, quotes, asking, fetched, hour>>

OpenQuote(q) == q.until > hour

(* Mutant: only quotes computed from another value are flagged... never. *)
ToFlagNone(read, new, q) == FALSE

(* The keys that changed are those that differ from what the patch read       *)
ToFlag(read, new, q) == read # new /\ OpenQuote(q)

(* excused: quotes a patch could not flag rightly, having read another's past *)
PatchInput(e, new) ==
  LET read == editing[e]
  IN  /\ read # NotEditing /\ weight' = new
      /\ quotes' = [i \in DOMAIN quotes |->
                     [quotes[i] EXCEPT !.stale = @ \/ ToFlag(read, new, quotes[i]),
                                       !.excused = @ \/ read # weight]]
      /\ asking' = [asking EXCEPT !.dirty = @ \/ (asking.stage # "idle" /\ new # weight)]
      /\ editing' = [editing EXCEPT ![e] = NotEditing]
      /\ UNCHANGED <<snapshots, fetched, hour>>

Hour == hour < LastHour /\ hour' = hour + 1
        /\ UNCHANGED <<weight, snapshots, quotes, asking, editing, fetched>>

PricingNext ==
  \/ \E rate \in RateSet : FetchRate(rate) \/ ManualRate(rate)
  \/ StoreRate \/ Price \/ RefuseQuote \/ Hour
  \/ \E d \in Discounts : LookUp(d)
  \/ \E h \in Validities : StoreQuote(h)
  \/ \E e \in Editors : ReadInput(e) \/ \E new \in Weights : PatchInput(e, new)

PricingSpec == PricingInit /\ [][PricingNext]_pricingVars

-----------------------------------------------------------------------------
PricingTypeOK ==
  /\ weight \in Weights /\ hour \in 0..LastHour
  /\ Len(quotes) <= MaxQuotes /\ Len(snapshots) <= MaxSnapshots
  /\ asking.stage \in {"idle", "inputs", "priced"}
  /\ \A e \in Editors : editing[e] \in Weights \cup {NotEditing}

(* An open quote computed from another value of a price input than the item    *)
(* has now is flagged stale, unless its computation or the patch overlapped    *)
(* another write of the input.                                                *)
StaleQuotesFlagged ==
  \A i \in DOMAIN quotes :
    OpenQuote(quotes[i]) /\ quotes[i].weight # weight => quotes[i].stale \/ quotes[i].excused

(* Every figure the itemised breakdown shows a customer, the per-gram rate in  *)
(* whole rupees among them, is a ledger row to the paisa, so the send gate     *)
(* lets the whole breakdown through.                                          *)
BreakdownPassesGate ==
  \A i \in DOMAIN quotes :
    LET q == quotes[i]
        shown == {q.lines[l] : l \in DOMAIN q.lines} \ {0}
        label == ((q.lines.metal * 10) \div q.weight) \div 100
    IN  shown \cup {label * 100} \subseteq q.ledger

(* However the stages round, the discount stays within the ceiling exactly,    *)
(* each half of the GST is 1.5% of what is left to within half a paisa, and    *)
(* the lines a customer is shown, the subtotal among them, add up.             *)
BreakdownAddsUp ==
  \A i \in DOMAIN quotes :
    LET l == quotes[i].lines
        taxed == l.subtotal - l.discount
    IN  /\ l.discount * 100 <= l.subtotal * CeilingPct
        /\ taxed * 15 - 500 <= l.cgst * 1000 /\ l.cgst * 1000 <= taxed * 15 + 500
        /\ l.metal + l.making = l.subtotal /\ taxed + l.cgst + l.sgst = l.total

(* A quote replays to the figures it stored however many rates came after it.  *)
ReplayMatches == \A i \in DOMAIN quotes : Replayed(quotes[i]) = quotes[i].lines

(* Two neighbouring snapshots differ by more than the bound only if the later  *)
(* is an owner's, or another rate was stored while it was being fetched.       *)
JumpsAccounted ==
  \A i \in 2..Len(snapshots) :
    snapshots[i].saw = i - 1 =>
      LET a == snapshots[i - 1].rate
          b == snapshots[i].rate
      IN  100 * (IF a > b THEN a - b ELSE b - a) <= MaxStepPct * a
=============================================================================
