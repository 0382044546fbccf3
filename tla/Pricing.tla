--------------------------------- MODULE Pricing ---------------------------------
(***************************************************************************)
(* The price of one request: PricingService.calculatePrice.  The rules     *)
(* that may apply come from the narrowest scope to the widest; each that   *)
(* does multiplies what the ones before it gave.  Factors are in units of  *)
(* 1/Unit, and the instances choose ones whose products are whole.         *)
(***************************************************************************)
EXTENDS Integers, Sequences

CONSTANTS
    Unit,           \* the factor 1
    Lowest, Highest,\* MULTIPLIER_MIN, MULTIPLIER_MAX
    Factors, Caps,  \* surgeFactor and maxMultiplier of the rules
    Demands,        \* demandCount, or NoDemand when nobody counted
    MaxRules        \* bound: rules

NoCap == 0
NoDemand == -1

ASSUME PricingAssumption ==
    /\ Unit \in Nat \ {0} /\ Lowest \in 1..Unit /\ Highest \in Nat /\ Highest >= Unit
    /\ Factors \subseteq Nat \ {0} /\ Caps \subseteq Nat \ {0}
    /\ Demands \subseteq Nat \cup {NoDemand} /\ MaxRules \in Nat

Scopes == <<"PROVIDER", "CATEGORY", "CITY", "GLOBAL">>
Rank(rule) == CHOOSE n \in DOMAIN Scopes : Scopes[n] = rule.scope

\* applies: scope, weekday, dates and hours fit the request; threshold: demandThreshold.
Rule == [scope : {"PROVIDER", "GLOBAL"}, applies : BOOLEAN, threshold : {0, 2},
         factor : Factors, cap : Caps \cup {NoCap}]

VARIABLES
    rules,          \* what is left of the rules, in their order
    demand,
    multiplier,     \* what the rules have given so far
    impact,         \* the greatest factor that raised it, 0 if none did
    caps,           \* the cap of the rule applied last, if any
    price           \* "open", then the reason given

priceVars == <<rules, demand, multiplier, impact, caps, price>>

InOrder(list) == \A i, j \in DOMAIN list : i < j => Rank(list[i]) <= Rank(list[j])

PricingInit ==
    /\ rules \in UNION {[1..n -> Rule] : n \in 0..MaxRules} /\ InOrder(rules)
    /\ demand \in Demands
    /\ multiplier = Unit /\ impact = 0 /\ caps = NoCap /\ price = "open"
-----------------------------------------------------------------------------
\* A threshold holds a rule back only if the demand was counted.
HeldBack(rule) == rule.threshold > 0 /\ demand # NoDemand /\ demand < rule.threshold

Product(m, factor) == (m * factor) \div Unit

\* The multiplier after a rule: no more than the rule's cap.
After(rule) ==
    IF rule.cap # NoCap /\ Product(multiplier, rule.factor) > rule.cap
    THEN rule.cap
    ELSE Product(multiplier, rule.factor)

\* The rule's own part in it raised the price.
DoublesIt(rule) == After(rule) >= 2 * multiplier
Raised(rule) == After(rule) > multiplier

ApplyRule ==
    /\ rules # <<>> /\ price = "open"
    /\ LET rule == Head(rules)
       IN  /\ rule.applies /\ ~HeldBack(rule)
           /\ multiplier' = After(rule)
           /\ caps' = rule.cap
           /\ impact' = IF Raised(rule) /\ After(rule) * Unit > impact * multiplier
                        THEN (After(rule) * Unit) \div multiplier
                        ELSE impact
    /\ rules' = Tail(rules)
    /\ UNCHANGED <<demand, price>>

SkipRule ==
    /\ rules # <<>> /\ price = "open"
    /\ ~Head(rules).applies \/ HeldBack(Head(rules))
    /\ rules' = Tail(rules)
    /\ UNCHANGED <<demand, multiplier, impact, caps, price>>

\* The limits of all prices, and the reason shown with the price.
Limited(m) == IF m > Highest THEN Highest ELSE IF m < Lowest THEN Lowest ELSE m

GivePrice ==
    /\ rules = <<>> /\ price = "open"
    /\ multiplier' = Limited(multiplier)
    /\ price' = IF multiplier' > Unit /\ impact > 0 THEN "surge" ELSE "base_price"
    /\ UNCHANGED <<rules, demand, impact, caps>>
-----------------------------------------------------------------------------
PricingNext == ApplyRule \/ SkipRule \/ GivePrice

PricingSpec == PricingInit /\ [][PricingNext]_priceVars
-----------------------------------------------------------------------------
\* Every variable keeps its domain.
PricingTypeOK ==
    /\ rules \in Seq(Rule) /\ demand \in Demands
    /\ multiplier \in Nat /\ impact \in Nat /\ caps \in Caps \cup {NoCap}
    /\ price \in {"open", "surge", "base_price"}

\* Whatever the rules, their order and their caps make of it, a price above the base
\* price comes with a reason for it, one at or below it with none, and a price is not
\* above the cap of the rule applied last.
PriceIsExplained ==
    /\ price # "open" => (price = "surge" <=> multiplier > Unit)
    /\ caps # NoCap /\ price = "open" => multiplier <= caps
=============================================================================
