----------------------------- MODULE MCCommerce -----------------------------
(* The components of a store's business, checked in one run: `focus` picks the *)
(* component that moves, and the others stay as they began.                    *)
EXTENDS Payments, Billing, Entitlements, Landing, Ingestion, Pricing, CatalogMedia,
        Privacy, Templates, Prompts, Support, TLC

VARIABLE focus
CONSTANTS l1, l2, e1, c1, h1, s1, s2, n1, n2, b1, i1, i2, i3

MCCaptureOf == e1 :> l1

Cap(kind, grantable, rbac, sellable, deps, vertical) ==
  [kind |-> kind, grantable |-> grantable, rbac |-> rbac, sellable |-> sellable,
   deps |-> deps, vertical |-> vertical]

(* a capability of each kind: one that needs another, one that needs a channel *)
(* and a chain behind it, one legacy name, one of the jewelry pack only        *)
MCCatalogue == [
  customers |-> Cap("feature", TRUE, FALSE, TRUE, {}, ""),
  ghost |-> Cap("feature", TRUE, FALSE, TRUE, {"customers"}, ""),
  campaigns |-> Cap("feature", TRUE, FALSE, TRUE, {"whatsapp", "customers"}, ""),
  analytics |-> Cap("feature", TRUE, FALSE, TRUE, {"campaigns"}, ""),
  pricing |-> Cap("feature", FALSE, TRUE, TRUE, {}, ""),
  rates |-> Cap("feature", TRUE, FALSE, TRUE, {"pricing"}, "jewelry"),
  seo |-> Cap("feature", FALSE, FALSE, FALSE, {}, ""),
  whatsapp |-> Cap("channel", FALSE, FALSE, TRUE, {}, ""),
  concierge |-> Cap("agent", FALSE, FALSE, TRUE, {}, "")]
MCAlias == [crm |-> "customers"]
MCDrafts ==
  [schema : {"one"}, entitlements : SUBSET {"crm", "ghost", "campaigns", "analytics", "rates"},
   features : {{}}, vertical : {"", "jewelry"}, agents : {{}},
   channels : {{}, {"whatsapp"}},
   promotions : {{}, {[key |-> "analytics", from |-> 1, to |-> 2]}}]
  \cup [schema : {"one"}, entitlements : SUBSET {"crm", "campaigns"}, features : {{}},
        vertical : {""}, agents : {{"concierge"}}, channels : {{}, {"whatsapp"}},
        promotions : {{}, {[key |-> "analytics", from |-> 1, to |-> 2]}}]
  \cup [schema : {"none", "unknown"}, entitlements : {{}},
        features : SUBSET {"campaigns", "analytics", "seo"}, vertical : {""},
        agents : {{}, {"concierge"}}, channels : {{}, {"whatsapp"}},
        promotions : {{}, {[key |-> "analytics", from |-> 1, to |-> 2]}}]

MCPackPlan == <<"hero", "benefits", "product_grid", "faq", "footer">>
MCWritten == {"hero", "product_grid", "faq", "footer"}
MCArchetypes == <<[drop |-> {}, lead |-> <<>>], [drop |-> {"benefits", "faq"}, lead |-> <<>>]>>
MCAnswers == {<<>>, <<<<"hero", "carousel", "footer", "hero">>, <<"hero", "faq">>>>,
              <<<<"faq", "hero">>>>}

(* one SKU on two rows, the second of which has no title                       *)
MCSheet == <<[sku |-> "s1", titled |-> TRUE], [sku |-> "s1", titled |-> FALSE]>>

(* nothing connected yet, or a number of each store under one agency's WABA    *)
MCWirings == {<<>>, 1 :> [store |-> s1, number |-> n1, waba |-> b1]
                    @@ 2 :> [store |-> s2, number |-> n2, waba |-> b1]}

(* two stores of a pack that writes its bound without a space, one of a pack   *)
(* that writes it as the jewelry pack does                                     *)
MCPackOf == i1 :> "pa" @@ i2 :> "pa" @@ i3 :> "pb"
MCRequires == [pa |-> [least |-> <<1, 4>>, spaced |-> FALSE],
               pb |-> [least |-> <<1, 4>>, spaced |-> TRUE]]
MCPatches == {[status |-> "resolved"], [status |-> "in_progress", priority |-> "high"]}
MCFiles == {<<1, 3>>, <<1, 4>>, <<1, 10>>}

CommerceInit ==
  /\ PaymentsInit /\ BillingInit /\ EntInit /\ LandingInit /\ IngestionInit
  /\ PricingInit /\ MediaInit /\ PrivacyInit /\ ChannelsInit /\ TemplatesInit /\ PromptsInit
  /\ SupportInit
  /\ focus \in {"payments", "plans", "budgets", "entitlements", "landing", "catalog", "rows",
                "races", "overlap", "pricing", "media", "privacy",
                "channels", "templates", "layers", "bindings", "support"}
  /\ focus # "pricing" => weight = 3
  /\ focus \notin {"channels", "templates"} => channel = <<>>
  /\ focus \notin {"layers", "bindings"} => baseFile = <<1, 4>>

Alone(name) == focus = name /\ UNCHANGED focus

(* A sheet import meets: one handler and both rows, two handlers and the first *)
(* row, or one handler and one change of the catalog behind it.                *)
Frozen == \A i \in DOMAIN staged' \ {1} :
            staged'[i].state = "extracted" /\ staged'[i].flagged /\ ~staged'[i].titled
OneHandler == \A h \in Handlers \ {h1} : handler'[h] = Resting_
ImportNext ==
  /\ focus \in {"rows", "races", "overlap"} /\ ~overwrote
  /\ IngestionNext /\ UNCHANGED focus
  /\ \A c \in Callers_ \ {c1} : request'[c] = NoRequest
  /\ focus = "rows" => OneHandler /\ UNCHANGED request
  /\ focus = "races" => Frozen /\ UNCHANGED request
  /\ focus = "overlap" => Frozen /\ OneHandler /\ \A i \in DOMAIN items' : items'[i].written = 0

shopVars == <<paymentVars, billingVars, entVars, landingVars, ingestionVars, pricingVars, mediaVars>>
contactVars == <<privacyVars, channelVars, templateVars, promptVars, supportVars>>

CommerceNext ==
  \/ /\ Alone("payments") /\ PaymentsNext
     /\ UNCHANGED <<billingVars, entVars, landingVars, ingestionVars, pricingVars, mediaVars, contactVars>>
  \/ /\ Alone("plans") /\ BillingNext /\ UNCHANGED moneyVars
     /\ UNCHANGED <<paymentVars, entVars, landingVars, ingestionVars, pricingVars, mediaVars, contactVars>>
  \/ /\ Alone("budgets") /\ BillingNext /\ UNCHANGED tradeVars
     /\ UNCHANGED <<paymentVars, entVars, landingVars, ingestionVars, pricingVars, mediaVars, contactVars>>
  \/ /\ Alone("entitlements") /\ EntNext
     /\ UNCHANGED <<paymentVars, billingVars, landingVars, ingestionVars, pricingVars, mediaVars, contactVars>>
  \/ /\ Alone("landing") /\ LandingNext
     /\ Cardinality({w \in Owners : owner'[w] # Unasked})   \* a visit meets one owner
        + Cardinality({v \in Visitors : form'[v].at # "blank"}) <= 2
     /\ UNCHANGED <<paymentVars, billingVars, entVars, ingestionVars, pricingVars, mediaVars, contactVars>>
  \/ /\ Alone("catalog") /\ CatalogNext(FALSE)
     /\ UNCHANGED <<paymentVars, billingVars, entVars, landingVars, importVars, pricingVars, mediaVars, contactVars>>
  \/ /\ ImportNext
     /\ UNCHANGED <<paymentVars, billingVars, entVars, landingVars, pricingVars, mediaVars, contactVars>>
  \/ /\ Alone("pricing") /\ PricingNext
     /\ UNCHANGED <<paymentVars, billingVars, entVars, landingVars, ingestionVars, mediaVars, contactVars>>
  \/ /\ Alone("media") /\ MediaNext
     /\ UNCHANGED <<paymentVars, billingVars, entVars, landingVars, ingestionVars, pricingVars, contactVars>>
  \/ /\ Alone("privacy") /\ PrivacyNext
     /\ Cardinality({item \in stored' : item.kind \in {"note", "tag"}}) <= 1
     /\ UNCHANGED <<shopVars, channelVars, templateVars, promptVars, supportVars>>
  \/ /\ Alone("channels") /\ ChannelsNext /\ UNCHANGED <<shopVars, privacyVars, templateVars, promptVars, supportVars>>
  \/ /\ Alone("templates") /\ TemplatesNext
     /\ Cardinality({k \in DOMAIN notices' : notices'[k].event = "OTHER"}) <= 1
     /\ Cardinality(disturbed') <= 1
     /\ UNCHANGED <<shopVars, privacyVars, promptVars, supportVars>>
  \/ /\ Alone("layers") /\ PromptsNext /\ UNCHANGED <<swap, prompted>>
     /\ UNCHANGED <<shopVars, privacyVars, channelVars, templateVars, supportVars>>
  \/ /\ Alone("bindings") /\ PromptsNext /\ UNCHANGED <<install[i2], install[i3]>>
     /\ UNCHANGED <<shopVars, privacyVars, channelVars, templateVars, supportVars>>
  \/ /\ Alone("support") /\ SupportNext
     /\ UNCHANGED <<shopVars, privacyVars, channelVars, templateVars, promptVars>>

CommerceVars == <<focus, shopVars, contactVars>>
CommerceSpec == CommerceInit /\ [][CommerceNext]_CommerceVars

(* Money is accounted for: receipts are numbered without gap and go out for    *)
(* what was captured, no capture is lost, a budget is exceeded by racing       *)
(* charges only, and a plan delivers what it names.                            *)
MoneyAccounted ==
  /\ focus = "payments" =>
        PaymentsTypeOK /\ NumbersGapFree /\ CaptureNotLost /\ ReceiptsAccounted
  /\ focus \in {"plans", "budgets"} => BillingTypeOK /\ BudgetOverrunBounded
  /\ focus = "entitlements" =>
        EntTypeOK /\ BlessedPlanDelivers /\ GrantsAreLargest /\ CopyKeepsGrants

(* What the store shows is true: live pages were chosen and are renderable,    *)
(* leads name what was published, items and their pictures are not duplicated, *)
(* lost or resurrected by an import, quotes add up, match their rates and are  *)
(* flagged when their inputs change, and what an erased customer wrote is gone *)
(* from the store and kept for the operator.  Numbers, credentials and         *)
(* templates agree with each other and with Meta's reviews, and an agent is    *)
(* prompted with the layers its pack accepts, and what an operator did to a    *)
(* ticket is told by the store's audit chain and by the platform's own log.    *)
ShopfrontTrue ==
  /\ focus = "landing" =>
        /\ LandingTypeOK /\ LiveVersionWasChosen /\ LeadsNameAPublishedVersion
        /\ CandidatesFromPack /\ FloodCapped
  /\ focus \in {"catalog", "rows", "races", "overlap"} =>
        IngestionTypeOK /\ OneItemPerKey /\ DuplicatesOverlapped /\ RowsLoadOnce /\ UntitledSlippedIn
  /\ focus = "pricing" =>
        /\ PricingTypeOK /\ StaleQuotesFlagged /\ BreakdownPassesGate /\ BreakdownAddsUp
        /\ ReplayMatches /\ JumpsAccounted
  /\ focus = "media" => MediaTypeOK /\ PictureIntact /\ OrphansAccounted
  /\ focus = "privacy" => PrivacyTypeOK /\ MessagesGone /\ ErasedIsArchived /\ OriginalHandedOut
  /\ focus \in {"channels", "templates"} =>
        ChannelsTypeOK /\ SendsFromItsNumber /\ ReviewsFindTheStore
  /\ focus = "templates" => TemplatesTypeOK /\ SentTextWasApproved /\ LastWordStands
  /\ focus \in {"layers", "bindings"} =>
        /\ PromptsTypeOK /\ OneActiveBinding /\ SharedLayersOnce /\ TooManyAccounted
        /\ PinnedMeetsBound /\ SkeletonAccounted
  /\ focus = "support" => SupportTypeOK /\ ChainTellsTicket /\ ResolverStands /\ AccessLogged

(* Terms once agreed hold: a receipted payment, a sold plan, a retired plan,   *)
(* an item edited after its import and an erased customer.                     *)
TermsHold ==
  [][/\ focus = "payments" => ReceiptedIsFinal
     /\ focus \in {"plans", "budgets"} => SoldTermsHold /\ RetiredTakesNobody
     /\ focus \in {"catalog", "rows", "races", "overlap"} => RevertSparesEdits
     /\ focus = "privacy" => ErasedStaysBlank]_CommerceVars

=============================================================================
