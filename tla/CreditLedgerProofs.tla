------------------------- MODULE CreditLedgerProofs -------------------------
(***************************************************************************)
(* First what consume_from_wallet promises, for every balance, amount and  *)
(* time.  Then the wallet under concurrency, for any number of workers,    *)
(* requests and purchases: balances stay well formed, and no interleaving  *)
(* of stale reads, duplicated deliveries and absolute writes creates a     *)
(* purchased credit the ledger does not account for.                       *)
(***************************************************************************)
EXTENDS CreditLedger, TLAPS, FiniteSetTheorems

(* consume_from_wallet *)

\* "it never goes negative": the result is a valid WalletBalances, and no
\* population grows.
THEOREM SpendIsValid ==
    ASSUME NEW b \in Balances, NEW units \in Nat, NEW exp, NEW time, NEW first \in BOOLEAN
    PROVE  LET after == ConsumeFromWallet(b, units, exp, time, first)
           IN  /\ after \in Balances
               /\ after.plan <= b.plan /\ after.carry <= b.carry /\ after.bought <= b.bought
  BY DEF ConsumeFromWallet, Balances, Least, LiveCarryover

\* "spends everything there is and returns zeros": the spendable total falls by
\* the amount asked for, or to zero.
THEOREM SpendIsExact ==
    ASSUME NEW b \in Balances, NEW units \in Nat, NEW exp, NEW time, NEW first \in BOOLEAN
    PROVE  AvailableTotal(ConsumeFromWallet(b, units, exp, time, first), exp, time)
             = AvailableTotal(b, exp, time) - Least(units, AvailableTotal(b, exp, time))
  <1>1. CASE LiveCarryover(b.carry, exp, time) = 0
    BY <1>1 DEF ConsumeFromWallet, AvailableTotal, Balances, Least, LiveCarryover
  <1>2. CASE LiveCarryover(b.carry, exp, time) # 0
    BY <1>2 DEF ConsumeFromWallet, AvailableTotal, Balances, Least, LiveCarryover
  <1>3. QED
    BY <1>1, <1>2

\* "Nothing is spent from an expired bucket", and an expired remainder is left
\* in place.
THEOREM ExpiredUntouched ==
    ASSUME NEW b \in Balances, NEW units \in Nat, NEW exp \in Int, NEW time \in Int,
           NEW first \in BOOLEAN, time >= exp
    PROVE  ConsumeFromWallet(b, units, exp, time, first).carry = b.carry
  BY ExpiryAssumption DEF ConsumeFromWallet, Balances, Least, LiveCarryover

\* "a browser session must never burn credits the user paid for ahead of plan
\* credits": purchased credits are touched only when carryover and plan are used
\* up, unless the caller prefers them.
THEOREM PaidCreditsLast ==
    ASSUME NEW b \in Balances, NEW units \in Nat, NEW exp, NEW time,
           ConsumeFromWallet(b, units, exp, time, FALSE).bought < b.bought
    PROVE  /\ ConsumeFromWallet(b, units, exp, time, FALSE).plan = 0
           /\ LiveCarryover(ConsumeFromWallet(b, units, exp, time, FALSE).carry, exp, time) = 0
  BY DEF ConsumeFromWallet, Balances, Least, LiveCarryover

\* A pool drained by m and then by n is a pool drained by m + n.
LEMMA DrainTwice ==
    ASSUME NEW x \in Nat, NEW m \in Nat, NEW n \in Nat
    PROVE  /\ Least(x, m) \in Nat /\ m - Least(x, m) \in Nat /\ x - Least(x, m) \in Nat
           /\ Least(x, m + n) = Least(x, m) + Least(x - Least(x, m), n)
           /\ n - Least(x - Least(x, m), n) \in Nat
           /\ (m + n) - Least(x, m + n)
                = (m - Least(x, m)) + (n - Least(x - Least(x, m), n))
  BY DEF Least

\* Spending in two steps is spending at once.
THEOREM SpendIsAdditive ==
    ASSUME NEW b \in Balances, NEW m \in Nat, NEW n \in Nat, NEW exp, NEW time,
           NEW first \in BOOLEAN
    PROVE  ConsumeFromWallet(ConsumeFromWallet(b, m, exp, time, first), n, exp, time, first)
             = ConsumeFromWallet(b, m + n, exp, time, first)
  <1>1. PICK live : live = LiveCarryover(b.carry, exp, time)
    OBVIOUS
  <1>2. live \in Nat /\ (live = 0 \/ live = b.carry) /\ b.plan \in Nat /\ b.bought \in Nat
        /\ b.carry \in Nat
    BY <1>1 DEF Balances, LiveCarryover
  <1>3. PICK mid : mid = ConsumeFromWallet(b, m, exp, time, first)
    OBVIOUS
  <1>4. mid.carry = b.carry - Least(live, m)
    BY <1>1, <1>3 DEF ConsumeFromWallet
  <1>5. LiveCarryover(mid.carry, exp, time) = live - Least(live, m)
    BY <1>1, <1>2, <1>4 DEF LiveCarryover, Least
  <1>6. PICK dm, dn : dm = m - Least(live, m) /\ dn = n - Least(live - Least(live, m), n)
    OBVIOUS
  <1>7. dm \in Nat /\ dn \in Nat /\ (m + n) - Least(live, m + n) = dm + dn
        /\ Least(live, m + n) = Least(live, m) + Least(live - Least(live, m), n)
        /\ Least(live, m) \in Nat /\ Least(live - Least(live, m), n) \in Nat
    BY <1>2, <1>6, DrainTwice DEF Least
  <1>8. PICK x, y : x = (IF first THEN b.bought ELSE b.plan)
                    /\ y = (IF first THEN b.plan ELSE b.bought)
    OBVIOUS
  <1>9. x \in Nat /\ y \in Nat
    BY <1>2, <1>8
  <1>10. PICK em, en : em = dm - Least(x, dm) /\ en = dn - Least(x - Least(x, dm), dn)
    OBVIOUS
  <1>11. em \in Nat /\ en \in Nat /\ (dm + dn) - Least(x, dm + dn) = em + en
         /\ Least(x, dm + dn) = Least(x, dm) + Least(x - Least(x, dm), dn)
         /\ Least(x, dm) \in Nat /\ Least(x - Least(x, dm), dn) \in Nat
    BY <1>7, <1>9, <1>10, DrainTwice DEF Least
  <1>12. Least(y, em + en) = Least(y, em) + Least(y - Least(y, em), en)
         /\ Least(y, em) \in Nat /\ Least(y - Least(y, em), en) \in Nat
    BY <1>9, <1>11, DrainTwice DEF Least
  <1>13. PICK all, two : /\ all = ConsumeFromWallet(b, m + n, exp, time, first)
                         /\ two = ConsumeFromWallet(mid, n, exp, time, first)
    OBVIOUS
  <1>14. two.carry = all.carry
    BY <1>1, <1>2, <1>4, <1>5, <1>7, <1>13 DEF ConsumeFromWallet
  <1>15. CASE first
    <2>1. mid.bought = x - Least(x, dm) /\ mid.plan = y - Least(y, em)
      BY <1>1, <1>3, <1>6, <1>8, <1>10, <1>15 DEF ConsumeFromWallet
    <2>2. /\ two.bought = mid.bought - Least(mid.bought, dn)
          /\ two.plan = mid.plan - Least(mid.plan, dn - Least(mid.bought, dn))
      BY <1>5, <1>6, <1>13, <1>15 DEF ConsumeFromWallet
    <2>3. /\ all.bought = x - Least(x, dm + dn)
          /\ all.plan = y - Least(y, (dm + dn) - Least(x, dm + dn))
      BY <1>1, <1>7, <1>8, <1>13, <1>15 DEF ConsumeFromWallet
    <2>4. two.bought = all.bought
      BY <1>9, <1>11, <2>1, <2>2, <2>3
    <2>5. two.plan = all.plan
      BY <1>9, <1>10, <1>11, <1>12, <2>1, <2>2, <2>3
    <2>6. QED
      BY <1>3, <1>13, <1>14, <2>4, <2>5 DEF ConsumeFromWallet
  <1>16. CASE ~first
    <2>1. mid.plan = x - Least(x, dm) /\ mid.bought = y - Least(y, em)
      BY <1>1, <1>3, <1>6, <1>8, <1>10, <1>16 DEF ConsumeFromWallet
    <2>2. /\ two.plan = mid.plan - Least(mid.plan, dn)
          /\ two.bought = mid.bought - Least(mid.bought, dn - Least(mid.plan, dn))
      BY <1>5, <1>6, <1>13, <1>16 DEF ConsumeFromWallet
    <2>3. /\ all.plan = x - Least(x, dm + dn)
          /\ all.bought = y - Least(y, (dm + dn) - Least(x, dm + dn))
      BY <1>1, <1>7, <1>8, <1>13, <1>16 DEF ConsumeFromWallet
    <2>4. two.plan = all.plan
      BY <1>9, <1>11, <2>1, <2>2, <2>3
    <2>5. two.bought = all.bought
      BY <1>9, <1>10, <1>11, <1>12, <2>1, <2>2, <2>3
    <2>6. QED
      BY <1>3, <1>13, <1>14, <2>4, <2>5 DEF ConsumeFromWallet
  <1>17. QED
    BY <1>15, <1>16

------------------------------------------------------------------------------
(* The ledger *)

\* The part of IInv that is not about the processes.
Shared ==
    /\ now \in 0..MaxTime /\ period \in 0..now
    /\ row \in Row
    /\ buckets \in [0..MaxTime -> Bucket]
    /\ notices \subseteq Tiers /\ scheduled \subseteq Tiers
    /\ ledger \subseteq Refs /\ started \in Nat
    /\ BoughtBacked

LEMMA Parts ==
    IInv <=> /\ Shared
             /\ procs \in [Procs -> Local]
             /\ \A p \in Procs : CopySound(procs[p])
  BY DEF IInv, Shared, TypeOK

\* What the ledger says was bought only grows.
LEMMA BoughtGrows ==
    ASSUME ledger \subseteq Refs, NEW ref \in Refs
    PROVE  /\ Bought \in Nat
           /\ ref \notin ledger =>
                Amount * Cardinality(ledger \cup {ref}) = Bought + Amount
  <1>1. IsFiniteSet(ledger)
    BY LedgerAssumption, FS_Subset
  <1>2. Cardinality(ledger) \in Nat
    BY <1>1, FS_CardinalityType
  <1>3. Cardinality(ledger \cup {ref}) = IF ref \in ledger THEN Cardinality(ledger)
                                         ELSE Cardinality(ledger) + 1
    BY <1>1, FS_AddElement
  <1>4. Bought \in Nat
    BY <1>2, LedgerAssumption DEF Bought
  <1>5. \A n \in Nat : Amount * (n + 1) = Amount * n + Amount
    BY LedgerAssumption
  <1>6. QED
    BY <1>2, <1>3, <1>4, <1>5 DEF Bought

LEMMA BoughtNat ==
    ASSUME ledger \subseteq Refs
    PROVE  Bought \in Nat
  <1>1. IsFiniteSet(ledger)
    BY LedgerAssumption, FS_Subset
  <1>2. Cardinality(ledger) \in Nat
    BY <1>1, FS_CardinalityType
  <1>3. QED
    BY <1>2, LedgerAssumption DEF Bought

LEMMA BoughtSame ==
    ASSUME UNCHANGED ledger
    PROVE  Bought' = Bought
  BY DEF Bought

LEMMA ConstantsTyped ==
    /\ NoRow \in Row /\ NoBucket \in Bucket /\ Idle \in Local
    /\ \A tier \in Tiers : FullBucket(tier) \in Bucket
  <1>1. NoRow \in Row
    BY DEF NoRow, Row, Tiers
  <1>2. NoBucket \in Bucket
    BY DEF NoBucket, Bucket
  <1>3. \A tier \in Tiers : FullBucket(tier) \in Bucket
    BY LedgerAssumption DEF FullBucket, Bucket
  <1>4. 0 \in 0..MaxTime
    BY LedgerAssumption
  <1>5. Idle \in Local
    BY <1>1, <1>2, <1>4 DEF Idle, Local, Steps, Tiers, Balances
  <1>6. QED
    BY <1>1, <1>2, <1>3, <1>5

\* A step of one process preserves what is claimed of all of them, if its new
\* local state is as claimed.
LEMMA OneProc ==
    ASSUME procs \in [Procs -> Local], \A q \in Procs : CopySound(procs[q]), NEW p \in Procs, NEW l \in Local,
           procs' = [procs EXCEPT ![p] = l],
           Bought \in Nat, Bought' \in Nat, Bought <= Bought',
           l.row.bought <= Bought', l.left.bought <= Bought',
           l.at \in {"grantRow", "grantCreate", "grant"} => l.ref \in Refs
    PROVE  /\ procs' \in [Procs -> Local]
           /\ \A q \in Procs : CopySound(procs[q])'
  <1>1. procs' \in [Procs -> Local]
    OBVIOUS
  <1>2. ASSUME NEW q \in Procs PROVE CopySound(procs[q])'
    <2>1. CASE q = p
      BY <2>1 DEF CopySound
    <2>2. CASE q # p
      <3>1. procs'[q] = procs[q]
        BY <2>2
      <3>2. procs[q].row.bought \in Nat /\ procs[q].left.bought \in Nat
        BY DEF Local, Row, Balances
      <3>3. QED
        BY <3>1, <3>2 DEF CopySound
    <2>3. QED
      BY <2>1, <2>2
  <1>3. QED
    BY <1>1, <1>2

------------------------------------------------------------------------------
(* One lemma per action *)

LEMMA ConsumeStep ==
    ASSUME IInv, NEW p \in Procs, Consume(p)
    PROVE  IInv'
  <1>1. Shared /\ procs \in [Procs -> Local] /\ \A q \in Procs : CopySound(procs[q])
    BY Parts
  <1>2. Bought \in Nat
    BY <1>1, BoughtNat DEF Shared
  <1> PICK units \in 0..MaxUnits, api \in BOOLEAN :
        Begin(p, "consume", [Idle EXCEPT !.at = "credit", !.period = period,
                                         !.units = units, !.api = api])
    BY DEF Consume
  <1> DEFINE l == [Idle EXCEPT !.at = "credit", !.period = period,
                               !.units = units, !.api = api]
  <1>3. Shared'
    BY <1>1 DEF Consume, Begin, Shared, BoughtBacked, Bought, clock, stripe
  <1>4. Bought' \in Nat /\ Bought <= Bought' /\ Bought' = Bought
    BY <1>2, BoughtSame DEF Consume
  <1>5. procs' = [procs EXCEPT ![p] = l]
    BY DEF Begin
  <1>6. l \in Local
    <2>1. period \in 0..MaxTime /\ units \in Nat
      BY <1>1, LedgerAssumption DEF Shared
    <2>2. QED
      BY <2>1, ConstantsTyped DEF Local, Steps, Idle
  <1>7. /\ l.row.bought <= Bought' /\ l.left.bought <= Bought'
        /\ l.at \in {"grantRow", "grantCreate", "grant"} => l.ref \in Refs
    BY <1>2, <1>4 DEF Idle, NoRow
  <1>8. procs' \in [Procs -> Local] /\ \A q \in Procs : CopySound(procs[q])'
    BY <1>1, <1>2, <1>4, <1>5, <1>6, <1>7, OneProc
  <1>9. QED
    BY <1>3, <1>8 DEF IInv, Shared, TypeOK

LEMMA ReadCreditStep ==
    ASSUME IInv, NEW p \in Procs, ReadCredit(p)
    PROVE  IInv'
  <1>1. Shared /\ procs \in [Procs -> Local] /\ \A q \in Procs : CopySound(procs[q])
    BY Parts
  <1>2. procs[p] \in Local /\ CopySound(procs[p]) /\ Bought \in Nat
    BY <1>1, BoughtNat DEF Shared
  <1> DEFINE l == [procs[p] EXCEPT
                  !.credit = IF buckets[procs[p].period].exists
                             THEN buckets[procs[p].period] ELSE FullBucket(row.tier),
                  !.at = "wallet"]
  <1>3. Shared'
    BY <1>1, <1>2 DEF ReadCredit, Shared, BoughtBacked, Bought, clock, stripe
  <1>4. Bought' \in Nat /\ Bought <= Bought' /\ Bought' = Bought
    BY <1>2, BoughtSame DEF ReadCredit
  <1>5. procs' = [procs EXCEPT ![p] = l]
    BY <1>1, <1>2 DEF ReadCredit
  <1>6. l \in Local
    <2>1. buckets[procs[p].period] \in Bucket
      BY <1>1, <1>2 DEF Shared, Local
    <2>2. FullBucket(row.tier) \in Bucket
      BY <1>1, <1>2, ConstantsTyped DEF Shared, Row, Local
    <2>3. QED
      BY <1>2, <2>1, <2>2 DEF Local, Steps
  <1>7. /\ l.row.bought <= Bought' /\ l.left.bought <= Bought'
        /\ l.at \in {"grantRow", "grantCreate", "grant"} => l.ref \in Refs
    BY <1>2, <1>4 DEF Local, CopySound
  <1>8. procs' \in [Procs -> Local] /\ \A q \in Procs : CopySound(procs[q])'
    BY <1>1, <1>2, <1>4, <1>5, <1>6, <1>7, OneProc
  <1>9. QED
    BY <1>3, <1>8 DEF IInv, Shared, TypeOK

LEMMA ReadWalletStep ==
    ASSUME IInv, NEW p \in Procs, ReadWallet(p)
    PROVE  IInv'
  <1>1. Shared /\ procs \in [Procs -> Local] /\ \A q \in Procs : CopySound(procs[q])
    BY Parts
  <1>2. procs[p] \in Local /\ CopySound(procs[p]) /\ Bought \in Nat
    BY <1>1, BoughtNat DEF Shared
  <1> DEFINE b == [plan |-> procs[p].credit.remaining, carry |-> row.carry,
                   bought |-> row.bought]
             left == ConsumeFromWallet(b, procs[p].units, row.exp, now,
                                       row.first /\ procs[p].api)
             l == [procs[p] EXCEPT !.row = row, !.left = left, !.at = "save"]
  <1>a. left \in Balances /\ left.bought <= row.bought
    <2>1. b \in Balances /\ procs[p].units \in Nat /\ (row.first /\ procs[p].api) \in BOOLEAN
      BY <1>1, <1>2 DEF Shared, Row, Local, Bucket, Balances
    <2> HIDE DEF b
    <2>2. left \in Balances /\ left.bought <= b.bought
      BY <2>1, SpendIsValid
    <2>3. QED
      BY <2>2 DEF b
  <1>3. Shared'
    BY <1>1, <1>2 DEF ReadWallet, Shared, BoughtBacked, Bought, clock, stripe
  <1>4. Bought' \in Nat /\ Bought <= Bought' /\ Bought' = Bought
    BY <1>2, BoughtSame DEF ReadWallet
  <1>5. procs' = [procs EXCEPT ![p] = l]
    BY <1>1, <1>2 DEF ReadWallet
  <1>6. l \in Local
    BY <1>1, <1>2, <1>a DEF Shared, Local, Steps
  <1>7. /\ l.row.bought <= Bought' /\ l.left.bought <= Bought'
        /\ l.at \in {"grantRow", "grantCreate", "grant"} => l.ref \in Refs
    BY <1>1, <1>2, <1>4, <1>a DEF Shared, Row, Balances, BoughtBacked
  <1>8. procs' \in [Procs -> Local] /\ \A q \in Procs : CopySound(procs[q])'
    BY <1>1, <1>2, <1>4, <1>5, <1>6, <1>7, OneProc
  <1>9. QED
    BY <1>3, <1>8 DEF IInv, Shared, TypeOK

LEMMA SaveSelectStep ==
    ASSUME IInv, NEW p \in Procs, SaveSelect(p)
    PROVE  IInv'
  <1>1. Shared /\ procs \in [Procs -> Local] /\ \A q \in Procs : CopySound(procs[q])
    BY Parts
  <1>2. procs[p] \in Local /\ CopySound(procs[p]) /\ Bought \in Nat
    BY <1>1, BoughtNat DEF Shared
  <1> DEFINE l == [procs[p] EXCEPT !.found = buckets[procs[p].period], !.at = "commit"]
  <1>3. Shared'
    BY <1>1, <1>2 DEF SaveSelect, Shared, BoughtBacked, Bought, clock, stripe
  <1>4. Bought' \in Nat /\ Bought <= Bought' /\ Bought' = Bought
    BY <1>2, BoughtSame DEF SaveSelect
  <1>5. procs' = [procs EXCEPT ![p] = l]
    BY <1>1, <1>2 DEF SaveSelect
  <1>6. l \in Local
    <2>1. buckets[procs[p].period] \in Bucket
      BY <1>1, <1>2 DEF Shared, Local
    <2>2. QED
      BY <1>2, <2>1 DEF Local, Steps
  <1>7. /\ l.row.bought <= Bought' /\ l.left.bought <= Bought'
        /\ l.at \in {"grantRow", "grantCreate", "grant"} => l.ref \in Refs
    BY <1>2, <1>4 DEF Local, CopySound
  <1>8. procs' \in [Procs -> Local] /\ \A q \in Procs : CopySound(procs[q])'
    BY <1>1, <1>2, <1>4, <1>5, <1>6, <1>7, OneProc
  <1>9. QED
    BY <1>3, <1>8 DEF IInv, Shared, TypeOK

LEMMA CommitConsumeStep ==
    ASSUME IInv, NEW p \in Procs, CommitConsume(p)
    PROVE  IInv'
  <1>1. Shared /\ procs \in [Procs -> Local] /\ \A q \in Procs : CopySound(procs[q])
    BY Parts
  <1>2. procs[p] \in Local /\ CopySound(procs[p]) /\ Bought \in Nat
    BY <1>1, BoughtNat DEF Shared
  <1> DEFINE l == Idle
  <1>3. Shared'
    <2>1. row' \in Row
      BY <1>1, <1>2 DEF CommitConsume, Shared, Row, Written, Local, Balances
    <2>2. row'.bought <= Bought
      BY <1>1, <1>2 DEF CommitConsume, Shared, Row, Written, CopySound, BoughtBacked
    <2>3. buckets' \in [0..MaxTime -> Bucket]
      <3>1. buckets[procs[p].period] \in Bucket /\ procs[p].credit \in Bucket
            /\ procs[p].found \in Bucket /\ procs[p].left \in Balances
        BY <1>1, <1>2 DEF Shared, Local
      <3> DEFINE new == [exists |-> TRUE,
                         allowance |-> Written(procs[p].found.allowance,
                             procs[p].credit.allowance, buckets[procs[p].period].allowance),
                         remaining |-> Written(procs[p].found.remaining,
                             procs[p].left.plan, buckets[procs[p].period].remaining)]
      <3>2. new \in Bucket
        BY <3>1 DEF Written, Bucket, Balances
      <3>3. buckets' = [buckets EXCEPT ![procs[p].period] = new]
        BY <1>1, <1>2 DEF CommitConsume, Shared, Local
      <3> HIDE DEF new
      <3>4. QED
        BY <1>1, <3>2, <3>3 DEF Shared
    <2>4. QED
      BY <1>1, <2>1, <2>2, <2>3 DEF CommitConsume, Shared, BoughtBacked, Bought, clock, stripe
  <1>4. Bought' \in Nat /\ Bought <= Bought' /\ Bought' = Bought
    BY <1>2, BoughtSame DEF CommitConsume
  <1>5. procs' = [procs EXCEPT ![p] = l]
    BY DEF CommitConsume, Done
  <1>6. l \in Local
    BY ConstantsTyped
  <1>7. /\ l.row.bought <= Bought' /\ l.left.bought <= Bought'
        /\ l.at \in {"grantRow", "grantCreate", "grant"} => l.ref \in Refs
    BY <1>2, <1>4 DEF Idle, NoRow
  <1>8. procs' \in [Procs -> Local] /\ \A q \in Procs : CopySound(procs[q])'
    BY <1>1, <1>2, <1>4, <1>5, <1>6, <1>7, OneProc
  <1>9. QED
    BY <1>3, <1>8 DEF IInv, Shared, TypeOK

LEMMA RetryConsumeStep ==
    ASSUME IInv, NEW p \in Procs, RetryConsume(p)
    PROVE  IInv'
  <1>1. Shared /\ procs \in [Procs -> Local] /\ \A q \in Procs : CopySound(procs[q])
    BY Parts
  <1>2. procs[p] \in Local /\ CopySound(procs[p]) /\ Bought \in Nat
    BY <1>1, BoughtNat DEF Shared
  <1> DEFINE l == [procs[p] EXCEPT !.at = "credit"]
  <1>3. Shared'
    BY <1>1, <1>2 DEF RetryConsume, Shared, BoughtBacked, Bought, clock, stripe
  <1>4. Bought' \in Nat /\ Bought <= Bought' /\ Bought' = Bought
    BY <1>2, BoughtSame DEF RetryConsume
  <1>5. procs' = [procs EXCEPT ![p] = l]
    BY <1>1, <1>2 DEF RetryConsume
  <1>6. l \in Local
    BY <1>2 DEF Local, Steps
  <1>7. /\ l.row.bought <= Bought' /\ l.left.bought <= Bought'
        /\ l.at \in {"grantRow", "grantCreate", "grant"} => l.ref \in Refs
    BY <1>2, <1>4 DEF Local, CopySound
  <1>8. procs' \in [Procs -> Local] /\ \A q \in Procs : CopySound(procs[q])'
    BY <1>1, <1>2, <1>4, <1>5, <1>6, <1>7, OneProc
  <1>9. QED
    BY <1>3, <1>8 DEF IInv, Shared, TypeOK

LEMMA PurchaseStep ==
    ASSUME IInv, NEW p \in Procs, NEW ref \in Refs, Purchase(p, ref)
    PROVE  IInv'
  <1>1. Shared /\ procs \in [Procs -> Local] /\ \A q \in Procs : CopySound(procs[q])
    BY Parts
  <1>2. procs[p] \in Local /\ CopySound(procs[p]) /\ Bought \in Nat
    BY <1>1, BoughtNat DEF Shared
  <1> DEFINE l == [Idle EXCEPT !.at = "grantRow", !.ref = ref]
  <1>3. Shared'
    BY <1>1, <1>2 DEF Purchase, Shared, BoughtBacked, Bought, clock, stripe, Begin
  <1>4. Bought' \in Nat /\ Bought <= Bought' /\ Bought' = Bought
    BY <1>2, BoughtSame DEF Purchase
  <1>5. procs' = [procs EXCEPT ![p] = l]
    BY DEF Purchase, Begin
  <1>6. l \in Local
    BY ConstantsTyped DEF Local, Steps
  <1>7. /\ l.row.bought <= Bought' /\ l.left.bought <= Bought'
        /\ l.at \in {"grantRow", "grantCreate", "grant"} => l.ref \in Refs
    BY <1>2, <1>4 DEF Idle, NoRow
  <1>8. procs' \in [Procs -> Local] /\ \A q \in Procs : CopySound(procs[q])'
    BY <1>1, <1>2, <1>4, <1>5, <1>6, <1>7, OneProc
  <1>9. QED
    BY <1>3, <1>8 DEF IInv, Shared, TypeOK

LEMMA GrantRowStep ==
    ASSUME IInv, NEW p \in Procs, GrantRow(p)
    PROVE  IInv'
  <1>1. Shared /\ procs \in [Procs -> Local] /\ \A q \in Procs : CopySound(procs[q])
    BY Parts
  <1>2. procs[p] \in Local /\ CopySound(procs[p]) /\ Bought \in Nat
    BY <1>1, BoughtNat DEF Shared
  <1> DEFINE l == [procs[p] EXCEPT !.row = row,
                                   !.at = IF row.exists THEN "grant" ELSE "grantCreate"]
  <1>3. Shared'
    BY <1>1, <1>2 DEF GrantRow, Shared, BoughtBacked, Bought, clock, stripe
  <1>4. Bought' \in Nat /\ Bought <= Bought' /\ Bought' = Bought
    BY <1>2, BoughtSame DEF GrantRow
  <1>5. procs' = [procs EXCEPT ![p] = l]
    BY <1>1, <1>2 DEF GrantRow
  <1>6. l \in Local
    BY <1>1, <1>2 DEF Shared, Local, Steps
  <1>7. /\ l.row.bought <= Bought' /\ l.left.bought <= Bought'
        /\ l.at \in {"grantRow", "grantCreate", "grant"} => l.ref \in Refs
    BY <1>1, <1>2, <1>4 DEF Shared, BoughtBacked, Local, CopySound, GrantRow, At
  <1>8. procs' \in [Procs -> Local] /\ \A q \in Procs : CopySound(procs[q])'
    BY <1>1, <1>2, <1>4, <1>5, <1>6, <1>7, OneProc
  <1>9. QED
    BY <1>3, <1>8 DEF IInv, Shared, TypeOK

LEMMA GrantCreateStep ==
    ASSUME IInv, NEW p \in Procs, GrantCreate(p)
    PROVE  IInv'
  <1>1. Shared /\ procs \in [Procs -> Local] /\ \A q \in Procs : CopySound(procs[q])
    BY Parts
  <1>2. procs[p] \in Local /\ CopySound(procs[p]) /\ Bought \in Nat
    BY <1>1, BoughtNat DEF Shared
  <1> DEFINE l == [procs[p] EXCEPT !.at = "grantRow"]
  <1>3. Shared'
    <2>1. row' \in Row /\ row'.bought = row.bought
      BY <1>1 DEF GrantCreate, Shared, Row, Tiers
    <2>2. QED
      BY <1>1, <2>1 DEF GrantCreate, Shared, BoughtBacked, Bought, clock, stripe
  <1>4. Bought' \in Nat /\ Bought <= Bought' /\ Bought' = Bought
    BY <1>2, BoughtSame DEF GrantCreate
  <1>5. procs' = [procs EXCEPT ![p] = l]
    BY <1>1, <1>2 DEF GrantCreate
  <1>6. l \in Local
    BY <1>2 DEF Local, Steps
  <1>7. /\ l.row.bought <= Bought' /\ l.left.bought <= Bought'
        /\ l.at \in {"grantRow", "grantCreate", "grant"} => l.ref \in Refs
    BY <1>2, <1>4 DEF Local, CopySound, GrantCreate, At
  <1>8. procs' \in [Procs -> Local] /\ \A q \in Procs : CopySound(procs[q])'
    BY <1>1, <1>2, <1>4, <1>5, <1>6, <1>7, OneProc
  <1>9. QED
    BY <1>3, <1>8 DEF IInv, Shared, TypeOK

LEMMA GrantCommitStep ==
    ASSUME IInv, NEW p \in Procs, GrantCommit(p)
    PROVE  IInv'
  <1>1. Shared /\ procs \in [Procs -> Local] /\ \A q \in Procs : CopySound(procs[q])
    BY Parts
  <1>2. procs[p] \in Local /\ CopySound(procs[p]) /\ Bought \in Nat
    BY <1>1, BoughtNat DEF Shared
  <1> DEFINE l == Idle
  <1>a. Bought' = Bought + Amount
    <2>1. procs[p].ref \in Refs /\ procs[p].ref \notin ledger /\ ledger \subseteq Refs
      BY <1>1, <1>2 DEF GrantCommit, Shared, At, CopySound
    <2>2. ledger' = ledger \cup {procs[p].ref}
      BY DEF GrantCommit
    <2>3. Amount * Cardinality(ledger \cup {procs[p].ref}) = Bought + Amount
      BY <2>1, BoughtGrows
    <2>4. QED
      BY <2>2, <2>3 DEF Bought
  <1>3. Shared'
    <2>1. row' \in Row /\ row'.bought = procs[p].row.bought + Amount
      <3>1. procs[p].row.bought + Amount \in Nat
        BY <1>2, LedgerAssumption DEF Local, Row
      <3>2. row' = [row EXCEPT !.bought = procs[p].row.bought + Amount] /\ row \in Row
        BY <1>1 DEF GrantCommit, Shared
      <3>3. QED
        BY <3>1, <3>2 DEF Row
    <2>2. procs[p].row.bought \in Nat /\ procs[p].row.bought <= Bought
      BY <1>2 DEF Local, Row, CopySound
    <2>3. row'.bought <= Bought'
      BY <1>2, <1>a, <2>1, <2>2, LedgerAssumption
    <2>4. ledger' \subseteq Refs
      BY <1>1, <1>2 DEF GrantCommit, Shared, At, CopySound
    <2>5. QED
      BY <1>1, <2>1, <2>3, <2>4 DEF GrantCommit, Shared, BoughtBacked, clock, stripe
  <1>4. Bought' \in Nat /\ Bought <= Bought'
    BY <1>2, <1>a, LedgerAssumption
  <1>5. procs' = [procs EXCEPT ![p] = l]
    BY DEF GrantCommit, Done
  <1>6. l \in Local
    BY ConstantsTyped
  <1>7. /\ l.row.bought <= Bought' /\ l.left.bought <= Bought'
        /\ l.at \in {"grantRow", "grantCreate", "grant"} => l.ref \in Refs
    BY <1>2, <1>4 DEF Idle, NoRow
  <1>8. procs' \in [Procs -> Local] /\ \A q \in Procs : CopySound(procs[q])'
    BY <1>1, <1>2, <1>4, <1>5, <1>6, <1>7, OneProc
  <1>9. QED
    BY <1>3, <1>8 DEF IInv, Shared, TypeOK

LEMMA GrantDuplicateStep ==
    ASSUME IInv, NEW p \in Procs, GrantDuplicate(p)
    PROVE  IInv'
  <1>1. Shared /\ procs \in [Procs -> Local] /\ \A q \in Procs : CopySound(procs[q])
    BY Parts
  <1>2. procs[p] \in Local /\ CopySound(procs[p]) /\ Bought \in Nat
    BY <1>1, BoughtNat DEF Shared
  <1> DEFINE l == Idle
  <1>3. Shared'
    BY <1>1, <1>2 DEF GrantDuplicate, Shared, BoughtBacked, Bought, clock, stripe
  <1>4. Bought' \in Nat /\ Bought <= Bought' /\ Bought' = Bought
    BY <1>2, BoughtSame DEF GrantDuplicate
  <1>5. procs' = [procs EXCEPT ![p] = l]
    BY DEF GrantDuplicate, Done
  <1>6. l \in Local
    BY ConstantsTyped
  <1>7. /\ l.row.bought <= Bought' /\ l.left.bought <= Bought'
        /\ l.at \in {"grantRow", "grantCreate", "grant"} => l.ref \in Refs
    BY <1>2, <1>4 DEF Idle, NoRow
  <1>8. procs' \in [Procs -> Local] /\ \A q \in Procs : CopySound(procs[q])'
    BY <1>1, <1>2, <1>4, <1>5, <1>6, <1>7, OneProc
  <1>9. QED
    BY <1>3, <1>8 DEF IInv, Shared, TypeOK

LEMMA ChangePlanStep ==
    ASSUME IInv, NEW p \in Procs, NEW tier \in Paid, ChangePlan(p, tier)
    PROVE  IInv'
  <1>1. Shared /\ procs \in [Procs -> Local] /\ \A q \in Procs : CopySound(procs[q])
    BY Parts
  <1>2. procs[p] \in Local /\ CopySound(procs[p]) /\ Bought \in Nat
    BY <1>1, BoughtNat DEF Shared
  <1> DEFINE l == [Idle EXCEPT !.at = "balance", !.period = period,
                               !.tier = tier, !.row = row]
  <1>3. Shared'
    BY <1>1, <1>2 DEF ChangePlan, Shared, BoughtBacked, Bought, clock, stripe, Begin
  <1>4. Bought' \in Nat /\ Bought <= Bought' /\ Bought' = Bought
    BY <1>2, BoughtSame DEF ChangePlan
  <1>5. procs' = [procs EXCEPT ![p] = l]
    BY DEF ChangePlan, Begin
  <1>6. l \in Local
    <2>1. period \in 0..MaxTime /\ row \in Row /\ tier \in Tiers
      BY <1>1, LedgerAssumption DEF Shared, Paid, Tiers
    <2>2. QED
      BY <2>1, ConstantsTyped DEF Local, Steps, Idle
  <1>7. /\ l.row.bought <= Bought' /\ l.left.bought <= Bought'
        /\ l.at \in {"grantRow", "grantCreate", "grant"} => l.ref \in Refs
    BY <1>1, <1>2, <1>4 DEF Shared, BoughtBacked, Idle
  <1>8. procs' \in [Procs -> Local] /\ \A q \in Procs : CopySound(procs[q])'
    BY <1>1, <1>2, <1>4, <1>5, <1>6, <1>7, OneProc
  <1>9. QED
    BY <1>3, <1>8 DEF IInv, Shared, TypeOK

LEMMA ReadBalanceStep ==
    ASSUME IInv, NEW p \in Procs, ReadBalance(p)
    PROVE  IInv'
  <1>1. Shared /\ procs \in [Procs -> Local] /\ \A q \in Procs : CopySound(procs[q])
    BY Parts
  <1>2. procs[p] \in Local /\ CopySound(procs[p]) /\ Bought \in Nat
    BY <1>1, BoughtNat DEF Shared
  <1> DEFINE l == [procs[p] EXCEPT
                  !.credit = IF buckets[procs[p].period].exists
                             THEN buckets[procs[p].period] ELSE FullBucket(procs[p].row.tier),
                  !.at = "stripe"]
  <1>3. Shared'
    BY <1>1, <1>2 DEF ReadBalance, Shared, BoughtBacked, Bought, clock, stripe
  <1>4. Bought' \in Nat /\ Bought <= Bought' /\ Bought' = Bought
    BY <1>2, BoughtSame DEF ReadBalance
  <1>5. procs' = [procs EXCEPT ![p] = l]
    BY <1>1, <1>2 DEF ReadBalance
  <1>6. l \in Local
    <2>1. buckets[procs[p].period] \in Bucket
      BY <1>1, <1>2 DEF Shared, Local
    <2>2. FullBucket(procs[p].row.tier) \in Bucket
      BY <1>1, <1>2, ConstantsTyped DEF Shared, Row, Local
    <2>3. QED
      BY <1>2, <2>1, <2>2 DEF Local, Steps
  <1>7. /\ l.row.bought <= Bought' /\ l.left.bought <= Bought'
        /\ l.at \in {"grantRow", "grantCreate", "grant"} => l.ref \in Refs
    BY <1>2, <1>4 DEF Local, CopySound
  <1>8. procs' \in [Procs -> Local] /\ \A q \in Procs : CopySound(procs[q])'
    BY <1>1, <1>2, <1>4, <1>5, <1>6, <1>7, OneProc
  <1>9. QED
    BY <1>3, <1>8 DEF IInv, Shared, TypeOK

LEMMA StripeChangeStep ==
    ASSUME IInv, NEW p \in Procs, StripeChange(p)
    PROVE  IInv'
  <1>1. Shared /\ procs \in [Procs -> Local] /\ \A q \in Procs : CopySound(procs[q])
    BY Parts
  <1>2. procs[p] \in Local /\ CopySound(procs[p]) /\ Bought \in Nat
    BY <1>1, BoughtNat DEF Shared
  <1>4. Bought' \in Nat /\ Bought <= Bought' /\ Bought' = Bought
    BY <1>2, BoughtSame DEF StripeChange
  <1>5. CASE Rank[procs[p].tier] > Rank[procs[p].row.tier]
    <2>1. PICK end \in Times \cup {NoExpiry} :
            procs' = [procs EXCEPT ![p].end = end, ![p].at = "upgrade"]
      BY <1>5 DEF StripeChange
    <2> DEFINE l == [procs[p] EXCEPT !.end = end, !.at = "upgrade"]
    <2>2. procs' = [procs EXCEPT ![p] = l]
      BY <1>1, <1>2, <2>1
    <2>3. l \in Local
      <3>1. end \in Nat \cup {NoExpiry}
        BY LedgerAssumption DEF Times
      <3>2. QED
        BY <1>2, <3>1 DEF Local, Steps
    <2>4. Shared'
      BY <1>1, <1>2, <1>5 DEF StripeChange, Shared, BoughtBacked, Bought, clock, Local
    <2>5. l.row.bought <= Bought' /\ l.left.bought <= Bought' /\ l.at = "upgrade"
      BY <1>2, <1>4 DEF Local, CopySound
    <2>6. procs' \in [Procs -> Local] /\ \A q \in Procs : CopySound(procs[q])'
      BY <1>1, <1>2, <1>4, <2>2, <2>3, <2>5, OneProc
    <2>7. QED
      BY <2>4, <2>6 DEF IInv, Shared, TypeOK
  <1>6. CASE ~(Rank[procs[p].tier] > Rank[procs[p].row.tier])
    <2>1. procs' = [procs EXCEPT ![p] = Idle]
      BY <1>6 DEF StripeChange, Done
    <2>2. Shared'
      BY <1>1, <1>2, <1>6 DEF StripeChange, Shared, BoughtBacked, Bought, clock, Local
    <2>3. Idle.row.bought <= Bought' /\ Idle.left.bought <= Bought' /\ Idle.at = "idle"
      BY <1>2, <1>4 DEF Idle, NoRow
    <2>4. procs' \in [Procs -> Local] /\ \A q \in Procs : CopySound(procs[q])'
      BY <1>1, <1>2, <1>4, <2>1, <2>3, ConstantsTyped, OneProc
    <2>5. QED
      BY <2>2, <2>4 DEF IInv, Shared, TypeOK
  <1>7. QED
    BY <1>5, <1>6

LEMMA UpgradeCommitStep ==
    ASSUME IInv, NEW p \in Procs, UpgradeCommit(p)
    PROVE  IInv'
  <1>1. Shared /\ procs \in [Procs -> Local] /\ \A q \in Procs : CopySound(procs[q])
    BY Parts
  <1>2. procs[p] \in Local /\ CopySound(procs[p]) /\ Bought \in Nat
    BY <1>1, BoughtNat DEF Shared
  <1> DEFINE l == Idle
  <1>3. Shared'
    <2>1. row' \in Row /\ row'.bought = row.bought
      <3>1. /\ procs[p].tier \in Tiers /\ procs[p].end \in Nat \cup {NoExpiry}
            /\ procs[p].row.carry + procs[p].credit.remaining \in Nat
        BY <1>2 DEF Local, Row, Bucket
      <3>2. row \in Row
        BY <1>1 DEF Shared
      <3>3. \E c \in Nat, e \in Nat \cup {NoExpiry} :
              row' = [row EXCEPT !.tier = procs[p].tier, !.carry = c, !.exp = e]
        BY <3>1, <3>2 DEF UpgradeCommit, Written, Row
      <3>4. QED
        BY <3>1, <3>2, <3>3 DEF Row
    <2>2. FullBucket(procs[p].tier) \in Bucket
      BY <1>2, ConstantsTyped DEF Local
    <2>3. buckets' \in [0..MaxTime -> Bucket]
      BY <1>1, <2>2 DEF UpgradeCommit, Shared
    <2>4. QED
      BY <1>1, <2>1, <2>3 DEF UpgradeCommit, Shared, BoughtBacked, Bought, clock, stripe
  <1>4. Bought' \in Nat /\ Bought <= Bought' /\ Bought' = Bought
    BY <1>2, BoughtSame DEF UpgradeCommit
  <1>5. procs' = [procs EXCEPT ![p] = l]
    BY DEF UpgradeCommit, Done
  <1>6. l \in Local
    BY ConstantsTyped
  <1>7. /\ l.row.bought <= Bought' /\ l.left.bought <= Bought'
        /\ l.at \in {"grantRow", "grantCreate", "grant"} => l.ref \in Refs
    BY <1>2, <1>4 DEF Idle, NoRow
  <1>8. procs' \in [Procs -> Local] /\ \A q \in Procs : CopySound(procs[q])'
    BY <1>1, <1>2, <1>4, <1>5, <1>6, <1>7, OneProc
  <1>9. QED
    BY <1>3, <1>8 DEF IInv, Shared, TypeOK

LEMMA ActivateStep ==
    ASSUME IInv, NEW p \in Procs, NEW tier \in Paid, Activate(p, tier)
    PROVE  IInv'
  <1>1. Shared /\ procs \in [Procs -> Local] /\ \A q \in Procs : CopySound(procs[q])
    BY Parts
  <1>2. procs[p] \in Local /\ CopySound(procs[p]) /\ Bought \in Nat
    BY <1>1, BoughtNat DEF Shared
  <1> DEFINE l == [Idle EXCEPT !.at = "refresh", !.tier = tier]
  <1>3. Shared'
    <2>1. row' \in Row /\ row'.bought = row.bought
      BY <1>1 DEF Activate, Shared, Row, Paid, Tiers
    <2>2. QED
      BY <1>1, <2>1 DEF Activate, Begin, Shared, BoughtBacked, Bought, clock, stripe
  <1>4. Bought' \in Nat /\ Bought <= Bought' /\ Bought' = Bought
    BY <1>2, BoughtSame DEF Activate
  <1>5. procs' = [procs EXCEPT ![p] = l]
    BY DEF Activate, Begin
  <1>6. l \in Local
    BY ConstantsTyped DEF Local, Steps, Paid, Tiers
  <1>7. /\ l.row.bought <= Bought' /\ l.left.bought <= Bought'
        /\ l.at \in {"grantRow", "grantCreate", "grant"} => l.ref \in Refs
    BY <1>2, <1>4 DEF Idle, NoRow
  <1>8. procs' \in [Procs -> Local] /\ \A q \in Procs : CopySound(procs[q])'
    BY <1>1, <1>2, <1>4, <1>5, <1>6, <1>7, OneProc
  <1>9. QED
    BY <1>3, <1>8 DEF IInv, Shared, TypeOK

LEMMA ReadAllowanceStep ==
    ASSUME IInv, NEW p \in Procs, ReadAllowance(p)
    PROVE  IInv'
  <1>1. Shared /\ procs \in [Procs -> Local] /\ \A q \in Procs : CopySound(procs[q])
    BY Parts
  <1>2. procs[p] \in Local /\ CopySound(procs[p]) /\ Bought \in Nat
    BY <1>1, BoughtNat DEF Shared
  <1> DEFINE l == [procs[p] EXCEPT !.credit = buckets[period], !.period = period,
                                   !.at = "raise"]
  <1>3. Shared'
    BY <1>1, <1>2 DEF ReadAllowance, Shared, BoughtBacked, Bought, clock, stripe
  <1>4. Bought' \in Nat /\ Bought <= Bought' /\ Bought' = Bought
    BY <1>2, BoughtSame DEF ReadAllowance
  <1>5. procs' = [procs EXCEPT ![p] = l]
    BY <1>1, <1>2 DEF ReadAllowance
  <1>6. l \in Local
    <2>1. period \in 0..MaxTime
      BY <1>1, LedgerAssumption DEF Shared
    <2>2. buckets[period] \in Bucket
      BY <1>1, <2>1 DEF Shared
    <2>3. QED
      BY <1>2, <2>1, <2>2 DEF Local, Steps
  <1>7. /\ l.row.bought <= Bought' /\ l.left.bought <= Bought'
        /\ l.at \in {"grantRow", "grantCreate", "grant"} => l.ref \in Refs
    BY <1>2, <1>4 DEF Local, CopySound
  <1>8. procs' \in [Procs -> Local] /\ \A q \in Procs : CopySound(procs[q])'
    BY <1>1, <1>2, <1>4, <1>5, <1>6, <1>7, OneProc
  <1>9. QED
    BY <1>3, <1>8 DEF IInv, Shared, TypeOK

LEMMA RaiseAllowanceStep ==
    ASSUME IInv, NEW p \in Procs, RaiseAllowance(p)
    PROVE  IInv'
  <1>1. Shared /\ procs \in [Procs -> Local] /\ \A q \in Procs : CopySound(procs[q])
    BY Parts
  <1>2. procs[p] \in Local /\ CopySound(procs[p]) /\ Bought \in Nat
    BY <1>1, BoughtNat DEF Shared
  <1> DEFINE l == Idle
  <1>3. Shared'
    <2>1. procs[p].credit \in Bucket /\ procs[p].tier \in Tiers
      BY <1>2 DEF Local
    <2>2. FullBucket(procs[p].tier) \in Bucket /\ Grant[procs[p].tier] \in Nat
      BY <2>1, ConstantsTyped, LedgerAssumption
    <2> DEFINE grant == Grant[procs[p].tier]
               delta == grant - procs[p].credit.allowance
               raised == [exists |-> TRUE, allowance |-> grant,
                          remaining |-> Least(procs[p].credit.remaining + delta, grant)]
    <2>3. delta > 0 => raised \in Bucket
      BY <2>1, <2>2 DEF Least, Bucket
    <2>4. buckets' = IF ~procs[p].credit.exists
                     THEN [buckets EXCEPT ![procs[p].period] = FullBucket(procs[p].tier)]
                     ELSE IF delta > 0 THEN [buckets EXCEPT ![procs[p].period] = raised]
                     ELSE buckets
      BY DEF RaiseAllowance
    <2> HIDE DEF raised, delta
    <2>5. buckets' \in [0..MaxTime -> Bucket]
      BY <1>1, <2>2, <2>3, <2>4 DEF Shared
    <2>6. QED
      BY <1>1, <2>5 DEF RaiseAllowance, Shared, BoughtBacked, Bought, clock, stripe
  <1>4. Bought' \in Nat /\ Bought <= Bought' /\ Bought' = Bought
    BY <1>2, BoughtSame DEF RaiseAllowance
  <1>5. procs' = [procs EXCEPT ![p] = l]
    BY DEF RaiseAllowance, Done
  <1>6. l \in Local
    BY ConstantsTyped
  <1>7. /\ l.row.bought <= Bought' /\ l.left.bought <= Bought'
        /\ l.at \in {"grantRow", "grantCreate", "grant"} => l.ref \in Refs
    BY <1>2, <1>4 DEF Idle, NoRow
  <1>8. procs' \in [Procs -> Local] /\ \A q \in Procs : CopySound(procs[q])'
    BY <1>1, <1>2, <1>4, <1>5, <1>6, <1>7, OneProc
  <1>9. QED
    BY <1>3, <1>8 DEF IInv, Shared, TypeOK

LEMMA DowngradeToFreeStep ==
    ASSUME IInv, NEW p \in Procs, DowngradeToFree(p)
    PROVE  IInv'
  <1>1. Shared /\ procs \in [Procs -> Local] /\ \A q \in Procs : CopySound(procs[q])
    BY Parts
  <1>2. procs[p] \in Local /\ CopySound(procs[p]) /\ Bought \in Nat
    BY <1>1, BoughtNat DEF Shared
  <1> DEFINE l == Idle
  <1>3. Shared'
    <2>1. row' \in Row /\ row'.bought = row.bought
      BY <1>1 DEF DowngradeToFree, Shared, Row, Tiers
    <2>2. QED
      BY <1>1, <2>1 DEF DowngradeToFree, Begin, Shared, BoughtBacked, Bought, clock, stripe
  <1>4. Bought' \in Nat /\ Bought <= Bought' /\ Bought' = Bought
    BY <1>2, BoughtSame DEF DowngradeToFree
  <1>5. procs' = [procs EXCEPT ![p] = l]
    BY DEF DowngradeToFree, Begin
  <1>6. l \in Local
    BY ConstantsTyped
  <1>7. /\ l.row.bought <= Bought' /\ l.left.bought <= Bought'
        /\ l.at \in {"grantRow", "grantCreate", "grant"} => l.ref \in Refs
    BY <1>2, <1>4 DEF Idle, NoRow
  <1>8. procs' \in [Procs -> Local] /\ \A q \in Procs : CopySound(procs[q])'
    BY <1>1, <1>2, <1>4, <1>5, <1>6, <1>7, OneProc
  <1>9. QED
    BY <1>3, <1>8 DEF IInv, Shared, TypeOK

LEMMA SetCreditPreferenceStep ==
    ASSUME IInv, NEW p \in Procs, SetCreditPreference(p)
    PROVE  IInv'
  <1>1. Shared /\ procs \in [Procs -> Local] /\ \A q \in Procs : CopySound(procs[q])
    BY Parts
  <1>2. procs[p] \in Local /\ CopySound(procs[p]) /\ Bought \in Nat
    BY <1>1, BoughtNat DEF Shared
  <1> DEFINE l == Idle
  <1>3. Shared'
    <2>1. row' \in Row /\ row'.bought = row.bought
      BY <1>1 DEF SetCreditPreference, Shared, Row, Tiers
    <2>2. QED
      BY <1>1, <2>1 DEF SetCreditPreference, Begin, Shared, BoughtBacked, Bought, clock, stripe
  <1>4. Bought' \in Nat /\ Bought <= Bought' /\ Bought' = Bought
    BY <1>2, BoughtSame DEF SetCreditPreference
  <1>5. procs' = [procs EXCEPT ![p] = l]
    BY DEF SetCreditPreference, Begin
  <1>6. l \in Local
    BY ConstantsTyped
  <1>7. /\ l.row.bought <= Bought' /\ l.left.bought <= Bought'
        /\ l.at \in {"grantRow", "grantCreate", "grant"} => l.ref \in Refs
    BY <1>2, <1>4 DEF Idle, NoRow
  <1>8. procs' \in [Procs -> Local] /\ \A q \in Procs : CopySound(procs[q])'
    BY <1>1, <1>2, <1>4, <1>5, <1>6, <1>7, OneProc
  <1>9. QED
    BY <1>3, <1>8 DEF IInv, Shared, TypeOK

LEMMA AbortStep ==
    ASSUME IInv, NEW p \in Procs, Abort(p)
    PROVE  IInv'
  <1>1. Shared /\ procs \in [Procs -> Local] /\ \A q \in Procs : CopySound(procs[q])
    BY Parts
  <1>2. procs[p] \in Local /\ CopySound(procs[p]) /\ Bought \in Nat
    BY <1>1, BoughtNat DEF Shared
  <1> DEFINE l == Idle
  <1>3. Shared'
    BY <1>1, <1>2 DEF Abort, Shared, BoughtBacked, Bought, clock, stripe
  <1>4. Bought' \in Nat /\ Bought <= Bought' /\ Bought' = Bought
    BY <1>2, BoughtSame DEF Abort
  <1>5. procs' = [procs EXCEPT ![p] = l]
    BY DEF Abort, Done
  <1>6. l \in Local
    BY ConstantsTyped
  <1>7. /\ l.row.bought <= Bought' /\ l.left.bought <= Bought'
        /\ l.at \in {"grantRow", "grantCreate", "grant"} => l.ref \in Refs
    BY <1>2, <1>4 DEF Idle, NoRow
  <1>8. procs' \in [Procs -> Local] /\ \A q \in Procs : CopySound(procs[q])'
    BY <1>1, <1>2, <1>4, <1>5, <1>6, <1>7, OneProc
  <1>9. QED
    BY <1>3, <1>8 DEF IInv, Shared, TypeOK

LEMMA StutterOrTick ==
    ASSUME IInv, Tick \/ UNCHANGED vars
    PROVE  IInv'
  <1>1. Shared /\ procs \in [Procs -> Local] /\ \A q \in Procs : CopySound(procs[q])
    BY Parts
  <1>2. UNCHANGED <<row, buckets, procs, started, ledger>>
    BY DEF Tick, vars
  <1>3. Bought' = Bought
    BY <1>2, BoughtSame
  <1>4. Shared'
    <2>1. CASE Tick
      BY <1>1, <1>2, <1>3, <2>1, LedgerAssumption DEF Tick, Shared, BoughtBacked
    <2>2. CASE UNCHANGED vars
      BY <1>1, <1>3, <2>2 DEF vars, clock, stripe, Shared, BoughtBacked
    <2>3. QED
      BY <2>1, <2>2
  <1>5. \A q \in Procs : CopySound(procs[q])'
    BY <1>1, <1>2, <1>3 DEF CopySound
  <1>6. QED
    BY <1>1, <1>2, <1>4, <1>5 DEF IInv, Shared, TypeOK

------------------------------------------------------------------------------
\* The inductive invariant of CreditLedger.
LEMMA Inductive ==
    /\ Init => IInv
    /\ IInv /\ [Next]_vars => IInv'
  <1>1. Init => IInv
    <2> SUFFICES ASSUME Init PROVE IInv
      OBVIOUS
    <2>1. Bought = 0 /\ ledger \subseteq Refs
      BY FS_EmptySet, LedgerAssumption DEF Init, Bought
    <2>2. row \in Row /\ row.bought = 0
      <3>1. CASE row = NoRow
        BY <3>1, ConstantsTyped DEF NoRow
      <3>2. CASE row = [NoRow EXCEPT !.exists = TRUE, !.tier = "PRO", !.sub = TRUE]
        BY <3>2 DEF NoRow, Row, Tiers
      <3>3. QED
        BY <3>1, <3>2 DEF Init
    <2>3. procs \in [Procs -> Local]
      BY ConstantsTyped DEF Init
    <2>4. \A p \in Procs : CopySound(procs[p])
      BY <2>1 DEF Init, CopySound, Idle, NoRow
    <2>5. now \in 0..MaxTime /\ period \in 0..now
      BY LedgerAssumption DEF Init
    <2>6. buckets \in [0..MaxTime -> Bucket]
      BY ConstantsTyped DEF Init
    <2>7. QED
      BY <2>1, <2>2, <2>3, <2>4, <2>5, <2>6 DEF Init, IInv, TypeOK, BoughtBacked, Tiers
  <1>2. IInv /\ [Next]_vars => IInv'
    <2> SUFFICES ASSUME IInv, [Next]_vars PROVE IInv'
      OBVIOUS
    <2>1. ASSUME NEW p \in Procs, Step(p) PROVE IInv'
      BY <2>1, ReadCreditStep, ReadWalletStep, SaveSelectStep, CommitConsumeStep,
         RetryConsumeStep, GrantRowStep, GrantCreateStep, GrantCommitStep,
         GrantDuplicateStep, ReadBalanceStep, StripeChangeStep, UpgradeCommitStep,
         ReadAllowanceStep, RaiseAllowanceStep, AbortStep DEF Step
    <2>2. QED
      BY <2>1, ConsumeStep, PurchaseStep, ChangePlanStep, ActivateStep,
         DowngradeToFreeStep, SetCreditPreferenceStep, StutterOrTick DEF Next
  <1>3. QED
    BY <1>1, <1>2

THEOREM Invariance == Spec => []IInv
  BY Inductive, PTL DEF Spec

\* Every stored and every in-flight balance is a natural number, whatever the
\* interleaving: what WalletBalances and Credit insist on.
THEOREM TypeCorrect == Spec => []TypeOK
  <1>1. IInv => TypeOK
    BY DEF IInv
  <1>2. QED
    BY <1>1, Invariance, PTL

\* No delivery, duplicate or lost update of _grant_purchased_credits and consume
\* leaves more purchased credits than the ledger records.
THEOREM BoughtBackedTheorem == Spec => []BoughtBacked
  <1>1. IInv => BoughtBacked
    BY DEF IInv
  <1>2. QED
    BY <1>1, Invariance, PTL
=============================================================================
