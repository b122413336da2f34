-------------------------------- MODULE Money --------------------------------
(***************************************************************************)
(* The decimal arithmetic of the exchange.  Every amount is a MoneyField   *)
(* of 8 decimals; here an amount is the integer number of its smallest     *)
(* units, so 1.0 is the integer Scale and to_decimal (quantize to 8        *)
(* digits, ROUND_DOWN) is the floor of an integer division.                *)
(***************************************************************************)
EXTENDS Integers

CONSTANTS
    Scale,    \* units in 1.0 (10^8 in the code)
    MinFee    \* MIN_FEE_AMOUNT, in units (1 in the code)

ASSUME MoneyAssumption == Scale \in Nat \ {0} /\ MinFee \in Nat

Abs(n) == IF n < 0 THEN -n ELSE n

Least(m, n) == IF m <= n THEN m ELSE n

(* A plausible bug: quantize rounds to the nearest. *)
ValueRounded(q, p) == (q * p + Scale \div 2) \div Scale

(* to_decimal(quantity * price) *)
Value(q, p) == (q * p) \div Scale

(* to_decimal(cost / price): what a cost buys at a price. *)
Bought(c, p) == (c * Scale) \div p

(* calculate_fee_amount: no fee at rate 0, otherwise at least MinFee. *)
Fee(rate, n) ==
    IF rate = 0 THEN 0
    ELSE IF Value(n, rate) < MinFee THEN MinFee ELSE Value(n, rate)

==============================================================================
