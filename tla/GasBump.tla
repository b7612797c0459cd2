------------------------------- MODULE GasBump --------------------------------
(* The fee of one transaction from its first estimate on, bumped again and again while
   the market moves: the block history and fixed price estimators, which share
   bumpDynamicFee and bumpGasPrice, and the fee history estimator with LimitBumpedFee,
   which for a chain without a mempool (BlockHistorySize = 0) does not bump a dynamic fee
   at all; its legacy bump does not look at BlockHistorySize.

   A legacy fee is one whose two caps are the gas price, as the nodes treat it.  A bump
   that the estimator refuses changes nothing.  Bumping is enabled (BumpThreshold # 0),
   and the fixed price estimator is followed for dynamic fees only: its legacy bump is
   external.

   An operator marked "faulty" is a plausible mistake in the operator after it. *)
EXTENDS Integers

CONSTANTS
    Market,                  \* the prices and base fees the chain may show
    NoPrice,                 \* nothing fetched yet
    BumpPercent, BumpMin, TipCapDefault, FeeCapDefault, PriceMax,
    FeeCapBufferBlocks,      \* EIP1559FeeCapBufferBlocks
    KeyPriceMax              \* priceMaxKey of the sender, the maxGasPriceWei of each call

(* What ValidateConfig enforces.  It lets BumpMin be 0, although a comment in
   bumpDynamicFee counts on a minimum. *)
ASSUME GasAssumption ==
    /\ Market \subseteq Nat /\ NoPrice \notin Nat
    /\ BumpPercent \in Nat /\ BumpPercent >= 10
    /\ BumpMin \in Nat
    /\ {TipCapDefault, FeeCapDefault, PriceMax, FeeCapBufferBlocks, KeyPriceMax} \subseteq Nat
    /\ TipCapDefault <= FeeCapDefault

VARIABLES
    estimator,               \* which of the three, the third with or without a mempool
    fee,                     \* the fee of the latest attempt
    feeType,                 \* "none" before the first estimate, then its kind
    bumped,                  \* the fee is the result of a bump
    blind                    \* history: a bump did without a usable base fee

gasVars == <<estimator, fee, feeType, bumped, blind>>

Estimators == {"block history", "fixed price", "fee history", "no mempool"}

GasInit ==
    /\ estimator \in Estimators
    /\ fee = [tip |-> 0, cap |-> 0] /\ feeType = "none"
    /\ bumped = FALSE /\ blind = FALSE

Larger(a, b) == IF a >= b THEN a ELSE b
Smaller(a, b) == IF a <= b THEN a ELSE b

AddPercentage(w, p) == (w * (100 + p)) \div 100
MaxGasPrice == Smaller(KeyPriceMax, PriceMax)

----------------------------------------------------------------------------
(* calcFeeCap: room for as many blocks whose base fee grows by an eighth each. *)
GrownBaseFee(base) == (base * 9 ^ FeeCapBufferBlocks) \div 8 ^ FeeCapBufferBlocks
WithoutTip(base, tip) == Smaller(GrownBaseFee(base), MaxGasPrice)         \* faulty
calcFeeCap(base, tip) == Smaller(GrownBaseFee(base) + tip, MaxGasPrice)

(* What the provers, which do not compute powers, need to know of them. *)
ASSUME GrowthAssumption == \A base \in Market : GrownBaseFee(base) \in Nat

bumpFeePrice(price) == Larger(AddPercentage(price, BumpPercent), price + BumpMin)

(* maxBumpedFee: the market's price, when there is one and it is not above the maximum. *)
maxBumpedFee(current, price) ==
    IF current # NoPrice /\ current <= MaxGasPrice THEN Larger(price, current) ELSE price

NewFee(tip, cap, type) ==
    /\ fee' = [tip |-> tip, cap |-> cap] /\ feeType' = type
    /\ UNCHANGED estimator

(* What the fee history estimator has last fetched, up to the maximum: with no mempool
   priority fees are ignored. *)
PriorityFees == IF estimator = "no mempool" THEN {0} ELSE Market
MarketFee ==
    \E price \in PriorityFees, base \in Market :
        NewFee(Smaller(price, KeyPriceMax), Smaller(AddPercentage(base, 40) + price, KeyPriceMax),
               "dynamic")

(* GetDynamicFee and GetLegacyGas. *)
FirstFee ==
    /\ feeType = "none" /\ bumped' = FALSE /\ blind' = FALSE
    /\ \/ /\ estimator = "block history"
          /\ \E price \in Market, base \in Market :
               LET tip == Smaller(price, MaxGasPrice) IN NewFee(tip, calcFeeCap(base, tip), "dynamic")
       \/ /\ estimator = "fixed price"
          /\ NewFee(TipCapDefault, FeeCapDefault, "dynamic")
       \/ estimator \in {"fee history", "no mempool"} /\ MarketFee
       \/ /\ estimator \in {"block history", "fee history"}
          /\ \E price \in Market :
               LET p == Smaller(price, IF estimator = "block history" THEN MaxGasPrice ELSE KeyPriceMax)
               IN NewFee(p, p, "legacy")

Bump(tip, cap) == NewFee(tip, cap, feeType) /\ bumped' = TRUE

(* bumpDynamicFee; the fixed price estimator gives it no base fee. *)
bumpDynamicFee(currentTip, base) ==
    LET tip == maxBumpedFee(currentTip, bumpFeePrice(Larger(fee.tip, TipCapDefault)))
        usable == base # NoPrice /\ base <= MaxGasPrice
        cap == Larger(bumpFeePrice(fee.cap), IF usable THEN calcFeeCap(base, tip) ELSE 0)
    IN  /\ tip <= MaxGasPrice /\ tip > fee.tip
        /\ cap <= MaxGasPrice
        /\ Bump(tip, cap)
        /\ blind' = (blind \/ ~usable)

BumpWithHistory ==
    /\ estimator = "block history" /\ feeType = "dynamic"
    /\ \E price \in Market \cup {NoPrice}, base \in Market \cup {NoPrice} : bumpDynamicFee(price, base)

BumpFixed ==
    /\ estimator = "fixed price" /\ feeType = "dynamic"
    /\ bumpDynamicFee(TipCapDefault, NoPrice)

BumpGasPrice ==
    /\ estimator = "block history" /\ feeType = "legacy"
    /\ \E price \in Market \cup {NoPrice} :
         LET p == maxBumpedFee(price, bumpFeePrice(fee.cap)) IN
         /\ p <= MaxGasPrice /\ p # fee.cap
         /\ Bump(p, p)
    /\ UNCHANGED blind

----------------------------------------------------------------------------
(* LimitBumpedFee: the larger of bump and market within the maximum, if that is still
   enough of a bump. *)
LimitBumpedFee(original, current) ==
    Smaller(Larger(current, AddPercentage(original, BumpPercent)), KeyPriceMax)
MustDiffer(original, limited) == limited # original                       \* faulty
IsEnough(original, limited) == limited # original /\ limited >= AddPercentage(original, 10)

(* BumpDynamicFee and BumpLegacyGas of the fee history estimator.  "For chains that don't
   have a mempool there is no concept of gas bumping": the fee is fetched again, whatever
   it was before. *)
BumpWithoutMempool ==
    /\ estimator = "no mempool" /\ feeType = "dynamic"
    /\ MarketFee /\ bumped' = TRUE
    /\ UNCHANGED blind

(* The tip must also not be above the threshold the market has set. *)
BumpWithFeeHistory ==
    /\ estimator = "fee history" /\ feeType = "dynamic"
    /\ fee.tip <= fee.cap /\ fee.cap < KeyPriceMax
    /\ \E price \in Market, base \in Market, threshold \in Market :
         LET tip == LimitBumpedFee(fee.tip, price)
             cap == LimitBumpedFee(fee.cap, AddPercentage(base, 40) + price)
         IN /\ IsEnough(fee.tip, tip) /\ tip <= threshold
            /\ IsEnough(fee.cap, cap)
            /\ Bump(tip, cap)
    /\ UNCHANGED blind

BumpPriceWithFeeHistory ==
    /\ estimator = "fee history" /\ feeType = "legacy"
    /\ fee.cap < KeyPriceMax
    /\ \E price \in Market :
         LET p == LimitBumpedFee(fee.cap, price) IN
         /\ IsEnough(fee.cap, p)
         /\ Bump(p, p)
    /\ UNCHANGED blind

GasNext ==
    \/ FirstFee \/ BumpWithHistory \/ BumpFixed \/ BumpGasPrice
    \/ BumpWithoutMempool \/ BumpWithFeeHistory \/ BumpPriceWithFeeHistory

GasSpec == GasInit /\ [][GasNext]_gasVars

----------------------------------------------------------------------------
(* Every variable has the shape the code's types give it. *)
GasTypeOK ==
    /\ estimator \in Estimators
    /\ fee \in [tip : Nat, cap : Nat] /\ feeType \in {"none", "legacy", "dynamic"}
    /\ bumped \in BOOLEAN /\ blind \in BOOLEAN

(* Both caps of a bumped fee exceed those of the attempt it replaces, and by the tenth
   that geth asks for, rounded as geth rounds it: otherwise the node refuses the
   replacement, and the transaction stays where it was however often it is bumped.  Not
   so where there is no mempool to replace it in: a bump is then the fee of the market,
   which may well be lower.  And a fee cap of less than 10 wei may stay as it is when the
   configuration has no BumpMin. *)
BumpsAreReplacements ==
    [][bumped' /\ estimator # "no mempool" =>
         /\ fee'.tip > fee.tip
         /\ fee'.cap > fee.cap \/ (BumpMin = 0 /\ fee.cap < 10)
         /\ fee'.tip >= (fee.tip * 110) \div 100
         /\ fee'.cap >= (fee.cap * 110) \div 100]_gasVars

(* However the market moves, no bump leads above the maximum price of the sender. *)
BumpsStayBelowMax == bumped => fee.cap <= KeyPriceMax /\ fee.tip <= KeyPriceMax

(* A fee cap below the tip cap makes the transaction invalid.  The two are bumped each
   on its own, from different markets, and the cap still covers the tip, unless the
   block history estimator had no usable base fee to compute the cap from. *)
CapCoversTip == (estimator = "block history" => ~blind) => fee.tip <= fee.cap

(* A node that asks for no more than the maximum and for a cap that covers the tip takes
   every bumped fee. *)
FeesAreValid == BumpsStayBelowMax /\ CapCoversTip
===============================================================================
