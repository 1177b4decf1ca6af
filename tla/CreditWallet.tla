---------------------------- MODULE CreditWallet ----------------------------
(***************************************************************************)
(* The wallet rules of credit_wallet.py: three populations of credits, of  *)
(* which carryover expires, and the order in which they are spent.         *)
(***************************************************************************)
EXTENDS Integers

CONSTANT NoExpiry   \* carryover_expires_at is None: does not expire

ASSUME ExpiryAssumption == NoExpiry \notin Int

\* WalletBalances refuses negative numbers.
Balances == [plan : Nat, carry : Nat, bought : Nat]

Least(a, b) == IF a <= b THEN a ELSE b

\* The boundary instant itself is expired.
LiveCarryover(carry, expiresAt, now) ==
    IF carry <= 0 \/ (expiresAt # NoExpiry /\ now >= expiresAt) THEN 0 ELSE carry

AvailableTotal(b, expiresAt, now) ==
    b.plan + LiveCarryover(b.carry, expiresAt, now) + b.bought

\* Live carryover first, then plan and purchased credits in the order asked
\* for; an expired carryover keeps its stored number.
ConsumeFromWallet(b, units, expiresAt, now, purchasedFirst) ==
    LET fromCarry == Least(LiveCarryover(b.carry, expiresAt, now), units)
        due == units - fromCarry
        fromPlan == IF purchasedFirst THEN Least(b.plan, due - Least(b.bought, due))
                                      ELSE Least(b.plan, due)
        fromBought == IF purchasedFirst THEN Least(b.bought, due)
                                        ELSE Least(b.bought, due - Least(b.plan, due))
    IN  [plan |-> b.plan - fromPlan,
         carry |-> b.carry - fromCarry,
         bought |-> b.bought - fromBought]
=============================================================================
