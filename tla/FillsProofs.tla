----------------------------- MODULE FillsProofs -----------------------------
(***************************************************************************)
(* The books of Fills, for integers of any width.                          *)
(***************************************************************************)
EXTENDS Fills, TLAPS

-----------------------------------------------------------------------------
(* Division and remainder *)

LEMMA Division ==
  ASSUME NEW n \in Nat, NEW d \in Nat \ {0}
  PROVE  /\ n \div d \in Nat
         /\ d * (n \div d) <= n /\ n < d * (n \div d) + d
OBVIOUS

LEMMA SmallRemainder ==
  ASSUME NEW n \in Nat, NEW d \in Nat \ {0}, n < d
  PROVE  n % d = n
OBVIOUS

LEMMA Monotone ==
  ASSUME NEW a \in Nat, NEW b \in Nat, NEW c \in Nat, NEW d \in Nat, a < c, b < d
  PROVE  a * b \in Nat /\ a * b < c * d
OBVIOUS

\* The largest quotient.
LEMMA Quotient ==
  ASSUME NEW n \in Nat, NEW d \in Nat \ {0}, NEW q \in Nat, d * q <= n, n < d * q + d
  PROVE  n \div d = q
OBVIOUS

\* The rounding of a sum and the sum of the roundings.
LEMMA RoundedSum ==
  ASSUME NEW m \in Nat, NEW n \in Nat, NEW d \in Nat \ {0}
  PROVE  /\ (m \div d) + (n \div d) <= (m + n) \div d
         /\ (m + n) \div d <= (m \div d) + (n \div d) + 1
OBVIOUS

-----------------------------------------------------------------------------
(* Widened integers hold every intermediate result *)

LEMMA Widths ==
  /\ U64 \in Nat \ {0} /\ MaxAmount \in Nat /\ U64 = MaxAmount + 1
  /\ BasisPoints \in Nat \ {0} /\ BasisPoints \in Amounts
  /\ MicrosPerDollar \in Nat \ {0} /\ MicrosPerDollar \in Amounts
  /\ \A n : n \in Amounts <=> n \in Nat /\ n <= MaxAmount
  /\ \A n \in Odds : n \in Amounts
  /\ None \notin Int /\ Overflow \notin Int /\ DivisionByZero \notin Int
BY MoneyAssumption DEF Amounts, Odds, MaxAmount

\* The product of two 64-bit integers is an integer of 128 bits.
LEMMA Widened ==
  ASSUME NEW a \in Amounts, NEW b \in Amounts
  PROVE  a * b \in Nat /\ a * b < U128 /\ U128 \in Nat \ {0}
<1>1. a \in Nat /\ b \in Nat /\ a < U64 /\ b < U64 /\ U64 \in Nat
  BY Widths
<1> QED BY <1>1, Monotone DEF U128

LEMMA SamePayout ==
  ASSUME NEW o \in Odds, NEW w \in Amounts
  PROVE  /\ BigPayoutMicros(o, w) \in Nat
         /\ RustPayoutMicros(o, w) = BigPayoutMicros(o, w)
<1>1. o \in Amounts
  BY Widths
<1>2. w * o \in Nat /\ (w * o) % U128 = w * o
  BY <1>1, Widened, SmallRemainder
<1> QED BY <1>2, Widths, Division DEF BigPayoutMicros, RustPayoutMicros

LEMMA SameMoney ==
  ASSUME NEW o \in Odds, NEW w \in Amounts
  PROVE  /\ RustPayout(o, w) = BigPayout(o, w)
         /\ RustCheckedProfit(o, w) = BigCheckedProfit(o, w)
         /\ RustProfit(o, w) = BigProfit(o, w)
<1> DEFINE p == BigPayoutMicros(o, w)
<1>1. p \in Nat /\ RustPayoutMicros(o, w) = p
  BY SamePayout
<1> HIDE DEF p
<1>2. w \in Nat
  BY Widths
<1>3. RustPayout(o, w) = BigPayout(o, w)
  <2>1. CASE p > MaxAmount
    BY <2>1, <1>1, Widths DEF RustPayout, RustCheckedPayout, BigPayout, p
  <2>2. CASE p <= MaxAmount
    <3>1. p % U64 = p
      BY <2>2, <1>1, Widths, SmallRemainder
    <3> QED BY <2>2, <3>1, <1>1, Widths DEF RustPayout, RustCheckedPayout, BigPayout, p
  <2> QED BY <2>1, <2>2, <1>1, Widths
<1>4. RustCheckedProfit(o, w) = BigCheckedProfit(o, w)
  <2>1. CASE p < w \/ p - w > MaxAmount
    BY <2>1, <1>1, <1>2, Widths DEF RustCheckedProfit, BigCheckedProfit, p
  <2>2. CASE p >= w /\ p - w <= MaxAmount
    <3>1. p - w \in Nat /\ p - w < U64
      BY <2>2, <1>1, <1>2, Widths
    <3>2. (p - w) % U64 = p - w
      BY <3>1, Widths, SmallRemainder
    <3> QED BY <2>2, <3>1, <3>2, <1>1, <1>2, Widths DEF RustCheckedProfit, BigCheckedProfit, p
  <2> QED BY <2>1, <2>2, <1>1, <1>2, Widths
<1> QED BY <1>3, <1>4 DEF RustProfit, BigProfit

LEMMA SameFixed ==
  ASSUME NEW a \in Amounts, NEW b \in Amounts, NEW d \in Amounts \ {0}
  PROVE  RustFixed(a * b, d) = BigFixed(a * b, d) /\ BigFixed(a * b, d) \in Amounts \cup {Overflow}
<1> DEFINE q == (a * b) \div d
<1>1. d \in Nat \ {0} /\ a * b \in Nat /\ a * b < U128 /\ U128 \in Nat
  BY Widths, Widened
<1>2. q \in Nat
  BY <1>1, Division
<1>3. RustFixed(a * b, d) = IF q > MaxAmount THEN Overflow ELSE q % U64
  BY <1>1 DEF RustFixed
<1>4. BigFixed(a * b, d) = IF q > MaxAmount THEN Overflow ELSE q
  BY DEF BigFixed
<1> HIDE DEF q
<1>5. q <= MaxAmount => q % U64 = q
  BY <1>2, Widths, SmallRemainder
<1> QED BY <1>2, <1>3, <1>4, <1>5, Widths

-----------------------------------------------------------------------------
(* Types *)

\* What a fill of w is worth, in terms of its payout before saturation.
LEMMA Worth ==
  ASSUME NEW o \in Odds, NEW w \in Amounts
  PROVE  LET p == BigPayoutMicros(o, w)
         IN /\ p \in Nat
            /\ BigPayout(o, w) = (IF p <= MaxAmount THEN p ELSE MaxAmount)
            /\ BigPayout(o, w) \in Amounts /\ BigProfit(o, w) \in Amounts
            /\ BigCheckedProfit(o, w) # None =>
                 /\ BigCheckedProfit(o, w) = p - w
                 /\ BigCheckedProfit(o, w) \in Amounts
<1> DEFINE p == BigPayoutMicros(o, w)
<1>1. p \in Nat /\ w \in Nat
  BY SamePayout, Widths
<1> HIDE DEF p
<1>2. BigPayout(o, w) = (IF p <= MaxAmount THEN p ELSE MaxAmount)
  BY DEF BigPayout, p
<1>3. BigCheckedProfit(o, w) = IF 0 <= p - w /\ p - w <= MaxAmount THEN p - w ELSE None
  BY DEF BigCheckedProfit, p
<1>4. BigCheckedProfit(o, w) # None =>
        BigCheckedProfit(o, w) = p - w /\ BigCheckedProfit(o, w) \in Amounts
  <2>1. CASE 0 <= p - w /\ p - w <= MaxAmount
    <3>1. p - w \in Amounts
      BY <1>1, <2>1, Widths
    <3> QED BY <1>3, <2>1, <3>1
  <2> QED BY <1>3, <2>1
<1>5. BigProfit(o, w) \in Amounts
  BY <1>4, Widths DEF BigProfit
<1> QED BY <1>1, <1>2, <1>4, <1>5, Widths DEF p

LEMMA SaturatedSum ==
  ASSUME NEW a \in Amounts, NEW b \in Amounts
  PROVE  SaturatingAdd(a, b) \in Amounts
BY Widths DEF SaturatingAdd

\* Both clients compute what TypeScript and Python compute.
LEMMA SameClients ==
  ASSUME odds \in Odds, NEW c \in Clients, NEW w \in Amounts
  PROVE  /\ Payout(c, w) = BigPayout(odds, w)
         /\ Liability(c, w) = BigCheckedProfit(odds, w)
         /\ Profit(c, w) = BigProfit(odds, w)
BY SameMoney DEF Payout, Liability, Profit

\* A fill, a refusal and a share, in one arithmetic for both clients.
LEMMA FillOf ==
  ASSUME TypeOK, NEW w \in 1 .. MaxAmount, Fill(w)
  PROVE  /\ w \in Amounts /\ filled + w <= MaxAmount
         /\ filled' = filled + w /\ count' = count + 1
         /\ odds' = odds /\ share' = share
         /\ BigCheckedProfit(odds, w) # None
         /\ books' = [c \in Clients |->
              [payout |-> SaturatingAdd(books[c].payout, BigPayout(odds, w)),
               liability |-> SaturatingAdd(books[c].liability, BigCheckedProfit(odds, w)),
               profit |-> BigProfit(odds, w)]]
<1>1. w \in Amounts
  BY Widths
<1>2. \A c \in Clients : /\ Payout(c, w) = BigPayout(odds, w)
                         /\ Liability(c, w) = BigCheckedProfit(odds, w)
                         /\ Profit(c, w) = BigProfit(odds, w)
  BY <1>1, SameClients DEF TypeOK
<1>3. "big" \in Clients
  BY DEF Clients
<1> QED BY <1>1, <1>2, <1>3 DEF Fill

LEMMA RefusalOf ==
  ASSUME TypeOK, NEW w \in 1 .. MaxAmount, Refuse(w)
  PROVE  /\ w \in Amounts /\ UNCHANGED <<odds, filled, count, share>>
         /\ books' = [c \in Clients |-> [books[c] EXCEPT !.profit = BigProfit(odds, w)]]
<1>1. w \in Amounts
  BY Widths
<1>2. \A c \in Clients : Profit(c, w) = BigProfit(odds, w)
  BY <1>1, SameClients DEF TypeOK
<1> QED BY <1>1, <1>2 DEF Refuse

LEMMA ShareOf ==
  ASSUME TypeOK, NEW r \in Amounts, NEW v \in Amounts, Share(r, v)
  PROVE  /\ UNCHANGED <<odds, filled, count, books>>
         /\ share' \in [Clients -> Shares]
         /\ books["rust"] = books["big"] => share'["rust"] = share'["big"]
<1>1. \A c \in Clients : books[c].payout \in Amounts
  BY DEF TypeOK, Book
<1>2. /\ UNCHANGED <<odds, filled, count, books>>
      /\ \/ share' = [c \in Clients |->
                        IF c = "rust" THEN RustFixedMul(books[c].payout, r)
                        ELSE BigFixedMul(books[c].payout, r)]
         \/ share' = [c \in Clients |->
                        IF c = "rust" THEN RustFixedDiv(books[c].payout, v)
                        ELSE BigFixedDiv(books[c].payout, v)]
         \/ share' = [c \in Clients |->
                        IF c = "rust" THEN RustFixedMulDiv(books[c].payout, r, v)
                        ELSE BigFixedMulDiv(books[c].payout, r, v)]
  BY DEF Share
<1>3. ASSUME NEW a \in Amounts
      PROVE  /\ RustFixedMul(a, r) = BigFixedMul(a, r) /\ BigFixedMul(a, r) \in Shares
             /\ RustFixedDiv(a, v) = BigFixedDiv(a, v) /\ BigFixedDiv(a, v) \in Shares
             /\ RustFixedMulDiv(a, r, v) = BigFixedMulDiv(a, r, v)
             /\ BigFixedMulDiv(a, r, v) \in Shares
  <2>1. MicrosPerDollar \in Amounts \ {0}
    BY Widths
  <2>2. RustFixedMul(a, r) = BigFixedMul(a, r) /\ BigFixedMul(a, r) \in Shares
    BY <2>1, SameFixed DEF RustFixedMul, BigFixedMul, Shares
  <2>3. RustFixedDiv(a, v) = BigFixedDiv(a, v) /\ BigFixedDiv(a, v) \in Shares
    BY <2>1, SameFixed DEF RustFixedDiv, BigFixedDiv, Shares
  <2>4. /\ RustFixedMulDiv(a, r, v) = BigFixedMulDiv(a, r, v)
        /\ BigFixedMulDiv(a, r, v) \in Shares
    BY SameFixed DEF RustFixedMulDiv, BigFixedMulDiv, Shares
  <2> QED BY <2>2, <2>3, <2>4
<1>4. \A c \in Clients :
        \/ share'[c] = BigFixedMul(books[c].payout, r)
        \/ share'[c] = BigFixedDiv(books[c].payout, v)
        \/ share'[c] = BigFixedMulDiv(books[c].payout, r, v)
  BY <1>1, <1>2, <1>3
<1>5. share' \in [Clients -> Shares]
  <2>1. share' = [c \in Clients |-> share'[c]]
    BY <1>2
  <2>2. \A c \in Clients : share'[c] \in Shares
    BY <1>1, <1>3, <1>4
  <2> QED BY <2>1, <2>2
<1>6. books["rust"] = books["big"] => share'["rust"] = share'["big"]
  <2>1. "rust" \in Clients /\ "big" \in Clients /\ "big" # "rust"
    BY DEF Clients
  <2> QED BY <1>1, <1>2, <1>3, <2>1
<1> QED BY <1>2, <1>5, <1>6

LEMMA TypeInductive == TypeOK /\ [Next]_vars => TypeOK'
<1> SUFFICES ASSUME TypeOK, [Next]_vars PROVE TypeOK'
  OBVIOUS
<1>1. ASSUME NEW w \in 1 .. MaxAmount, Fill(w) PROVE TypeOK'
  <2>1. w \in Amounts /\ odds \in Odds /\ filled \in Nat /\ count \in 0 .. filled
    BY <1>1, FillOf, Widths DEF TypeOK
  <2>2. filled' \in Amounts /\ count' \in 0 .. filled'
    BY <1>1, <2>1, FillOf, Widths
  <2>3. /\ BigPayout(odds, w) \in Amounts /\ BigProfit(odds, w) \in Amounts
        /\ BigCheckedProfit(odds, w) \in Amounts
    BY <1>1, <2>1, FillOf, Worth
  <2>4. books' \in [Clients -> Book]
    BY <1>1, <2>3, FillOf, SaturatedSum DEF TypeOK, Book
  <2> QED BY <1>1, <2>2, <2>4, FillOf DEF TypeOK
<1>2. ASSUME NEW w \in 1 .. MaxAmount, Refuse(w) PROVE TypeOK'
  <2>1. odds \in Odds /\ w \in Amounts
    BY <1>2, RefusalOf DEF TypeOK
  <2>2. BigProfit(odds, w) \in Amounts
    BY <2>1, Worth
  <2>3. books' \in [Clients -> Book]
    BY <1>2, <2>2, RefusalOf DEF TypeOK, Book
  <2> QED BY <1>2, <2>3, RefusalOf DEF TypeOK
<1>3. ASSUME NEW r \in Amounts, NEW v \in Amounts, Share(r, v) PROVE TypeOK'
  BY <1>3, ShareOf DEF TypeOK
<1>4. CASE UNCHANGED vars
  BY <1>4 DEF TypeOK, vars
<1> QED BY <1>1, <1>2, <1>3, <1>4 DEF Next

\* Nothing that a client computes is anything but an amount, an error or no
\* result: no total, payout, liability, profit or share leaves its width.
THEOREM TypeCorrect == Spec => []TypeOK
<1>1. Init => TypeOK
  BY Widths DEF Init, TypeOK, Book, Shares
<1> QED BY <1>1, TypeInductive, PTL DEF Spec

-----------------------------------------------------------------------------
(* Agreement of the clients *)

\* Integers of 64 and 128 bits and integers of any size lead to the same books
\* and the same errors, and refuse the same fills.
THEOREM Agreement == Spec => []ClientsAgree
<1> DEFINE Same == books["rust"] = books["big"] /\ share["rust"] = share["big"]
<1>0. "rust" \in Clients /\ "big" \in Clients
  BY DEF Clients
<1>1. Init => Same
  BY <1>0 DEF Init
<1>2. TypeOK /\ Same /\ [Next]_vars => Same'
  <2> SUFFICES ASSUME TypeOK, Same, [Next]_vars PROVE Same'
    OBVIOUS
  <2>1. ASSUME NEW w \in 1 .. MaxAmount, Fill(w) PROVE Same'
    BY <1>0, <2>1, FillOf
  <2>2. ASSUME NEW w \in 1 .. MaxAmount, Refuse(w) PROVE Same'
    BY <1>0, <2>2, RefusalOf
  <2>3. ASSUME NEW r \in Amounts, NEW v \in Amounts, Share(r, v) PROVE Same'
    BY <2>3, ShareOf
  <2>4. CASE UNCHANGED vars
    BY <2>4 DEF vars
  <2> QED BY <2>1, <2>2, <2>3, <2>4 DEF Next
<1>3. TypeOK /\ Same => ClientsAgree
  <2> SUFFICES ASSUME TypeOK, Same, NEW w \in 1 .. MaxAmount
               PROVE  Liability("rust", w) = Liability("big", w)
    BY DEF ClientsAgree
  <2>1. w \in Amounts /\ odds \in Odds
    BY Widths DEF TypeOK
  <2> QED BY <1>0, <2>1, SameClients
<1> QED BY <1>1, <1>2, <1>3, TypeCorrect, PTL DEF Spec

-----------------------------------------------------------------------------
(* What covers a payout *)

\* Stakes and liabilities cover what is to be paid out, and exactly, as long
\* as no total has reached the largest amount.
THEOREM Covered == Spec => []PayoutsAreCovered
<1>1. Init => PayoutsAreCovered
  BY Widths DEF Init, PayoutsAreCovered
<1>2. TypeOK /\ PayoutsAreCovered /\ [Next]_vars => PayoutsAreCovered'
  <2> SUFFICES ASSUME TypeOK, PayoutsAreCovered, [Next]_vars PROVE PayoutsAreCovered'
    OBVIOUS
  <2>1. ASSUME NEW w \in 1 .. MaxAmount, Fill(w) PROVE PayoutsAreCovered'
    <3> SUFFICES ASSUME NEW c \in Clients
                 PROVE  /\ books'[c].payout <= filled' + books'[c].liability
                        /\ books'[c].payout < MaxAmount /\ books'[c].liability < MaxAmount =>
                             books'[c].payout = filled' + books'[c].liability
      BY DEF PayoutsAreCovered
    <3> DEFINE p == BigPayoutMicros(odds, w)
               P == books[c].payout
               L == books[c].liability
               q == BigPayout(odds, w)
               l == BigCheckedProfit(odds, w)
    <3>1. w \in Amounts /\ odds \in Odds /\ P \in Amounts /\ L \in Amounts /\ filled \in Amounts
      BY <2>1, FillOf DEF TypeOK, Book
    <3>2. /\ p \in Nat /\ q = (IF p <= MaxAmount THEN p ELSE MaxAmount)
          /\ l = p - w /\ l \in Amounts
      BY <2>1, <3>1, FillOf, Worth
    <3>3. /\ filled' = filled + w /\ filled + w <= MaxAmount
          /\ books'[c].payout = SaturatingAdd(P, q) /\ books'[c].liability = SaturatingAdd(L, l)
      BY <2>1, FillOf
    <3>4. P <= filled + L /\ (P < MaxAmount /\ L < MaxAmount => P = filled + L)
      BY DEF PayoutsAreCovered
    <3> HIDE DEF p, P, L, q, l
    <3> QED BY <3>1, <3>2, <3>3, <3>4, Widths DEF SaturatingAdd
  <2>2. ASSUME NEW w \in 1 .. MaxAmount, Refuse(w) PROVE PayoutsAreCovered'
    <3>1. \A c \in Clients : /\ books'[c].payout = books[c].payout
                             /\ books'[c].liability = books[c].liability
      BY <2>2, RefusalOf DEF TypeOK, Book
    <3> QED BY <2>2, <3>1, RefusalOf DEF PayoutsAreCovered
  <2>3. ASSUME NEW r \in Amounts, NEW v \in Amounts, Share(r, v) PROVE PayoutsAreCovered'
    BY <2>3, ShareOf DEF PayoutsAreCovered
  <2>4. CASE UNCHANGED vars
    BY <2>4 DEF PayoutsAreCovered, vars
  <2> QED BY <2>1, <2>2, <2>3, <2>4 DEF Next
<1> QED BY <1>1, <1>2, TypeCorrect, PTL DEF Spec

-----------------------------------------------------------------------------
(* What splitting costs *)

\* The strengthening: before the first fill there is nothing to pay.
NothingYet == count = 0 => filled = 0 /\ \A c \in Clients : books[c].payout = 0

LEMMA WholePayout ==
  ASSUME NEW f \in Nat, NEW w \in Nat, NEW g \in Nat, g = f + w, NEW o \in Nat
  PROVE  /\ BigPayoutMicros(o, f) \in Nat /\ BigPayoutMicros(o, g) \in Nat
         /\ BigPayoutMicros(o, f) + BigPayoutMicros(o, w) <= BigPayoutMicros(o, g)
         /\ BigPayoutMicros(o, g) <= BigPayoutMicros(o, f) + BigPayoutMicros(o, w) + 1
         /\ f = 0 => BigPayoutMicros(o, f) = 0 /\ g = w
<1>1. f * o \in Nat /\ w * o \in Nat /\ g * o \in Nat /\ g * o = f * o + w * o
  OBVIOUS
<1>2. BasisPoints \in Nat \ {0}
  BY Widths
<1>3. BigPayoutMicros(o, f) \in Nat /\ BigPayoutMicros(o, g) \in Nat
  BY <1>1, <1>2, Division DEF BigPayoutMicros
<1>4. /\ BigPayoutMicros(o, f) + BigPayoutMicros(o, w) <= BigPayoutMicros(o, g)
      /\ BigPayoutMicros(o, g) <= BigPayoutMicros(o, f) + BigPayoutMicros(o, w) + 1
  BY <1>1, <1>2, RoundedSum DEF BigPayoutMicros
<1>5. f = 0 => BigPayoutMicros(o, f) = 0
  <2>1. 0 \div BasisPoints = 0
    BY <1>2, Quotient
  <2>2. f = 0 => f * o = 0
    OBVIOUS
  <2> QED BY <2>1, <2>2 DEF BigPayoutMicros
<1> QED BY <1>3, <1>4, <1>5

\* Splitting never pays more than one fill, and costs less than one
\* micro-dollar for each piece.
THEOREM Splitting == Spec => []SplittingCostsMicros
<1> DEFINE Inv == NothingYet /\ SplittingCostsMicros
<1>1. Init => Inv
  <2> SUFFICES ASSUME Init PROVE Inv
    OBVIOUS
  <2>1. (filled * odds) \div BasisPoints = 0
    <3>1. filled * odds = 0
      BY Widths DEF Init
    <3> QED BY <3>1, Widths, Quotient
  <2> QED BY <2>1, Widths DEF Init, NothingYet, SplittingCostsMicros
<1>2. TypeOK /\ Inv /\ [Next]_vars => Inv'
  <2> SUFFICES ASSUME TypeOK, Inv, [Next]_vars PROVE Inv'
    OBVIOUS
  <2>1. ASSUME NEW w \in 1 .. MaxAmount, Fill(w) PROVE Inv'
    <3> DEFINE W == BigPayoutMicros(odds, filled)
               V == BigPayoutMicros(odds, filled')
               p == BigPayoutMicros(odds, w)
               q == BigPayout(odds, w)
    <3>1. /\ w \in Amounts /\ odds \in Odds /\ filled \in Amounts /\ count \in Nat
          /\ filled' = filled + w /\ count' = count + 1 /\ odds' = odds
      BY <2>1, FillOf, Widths DEF TypeOK
    <3>2. p \in Nat /\ q = (IF p <= MaxAmount THEN p ELSE MaxAmount)
      BY <3>1, Worth
    <3>3. /\ W \in Nat /\ V \in Nat /\ W + p <= V /\ V <= W + p + 1
          /\ filled = 0 => W = 0 /\ V = p
      <4>1. filled \in Nat /\ w \in Nat /\ odds \in Nat /\ filled' \in Nat
        BY <3>1, Widths
      <4> QED BY <3>1, <4>1, WholePayout
    <3>4. /\ W = (filled * odds) \div BasisPoints
          /\ V = (filled' * odds') \div BasisPoints
      BY <3>1 DEF BigPayoutMicros
    <3> HIDE DEF W, V, p, q
    <3>5. ASSUME NEW c \in Clients
          PROVE  /\ books'[c].payout <= V
                 /\ books'[c].payout < MaxAmount /\ count' > 0 => V < books'[c].payout + count'
      <4> DEFINE P == books[c].payout
      <4>1. P \in Amounts /\ books'[c].payout = SaturatingAdd(P, q)
        BY <2>1, FillOf DEF TypeOK, Book, q
      <4>2. P <= W /\ (P < MaxAmount /\ count > 0 => W < P + count)
        BY <3>4 DEF SplittingCostsMicros
      <4>3. count = 0 => filled = 0 /\ P = 0
        BY DEF NothingYet
      <4> HIDE DEF P
      <4>4. CASE P + q > MaxAmount
        BY <3>1, <3>2, <3>3, <4>1, <4>2, <4>4, Widths DEF SaturatingAdd
      <4>5. CASE P + q <= MaxAmount
        <5>1. books'[c].payout = P + q /\ q <= p
          BY <3>2, <4>1, <4>5, Widths DEF SaturatingAdd
        <5>2. P + q <= V
          BY <3>2, <3>3, <4>1, <4>2, <5>1, Widths
        <5>3. P + q < MaxAmount => V < P + q + count + 1
          <6>1. CASE count = 0
            BY <3>2, <3>3, <4>1, <4>3, <6>1, Widths
          <6>2. CASE count > 0
            BY <3>1, <3>2, <3>3, <4>1, <4>2, <6>2, Widths
          <6> QED BY <3>1, <6>1, <6>2
        <5> QED BY <3>1, <3>2, <3>3, <4>1, <5>1, <5>2, <5>3, Widths
      <4> QED BY <3>2, <4>1, <4>4, <4>5, Widths
    <3> QED BY <3>1, <3>4, <3>5 DEF NothingYet, SplittingCostsMicros
  <2>2. ASSUME NEW w \in 1 .. MaxAmount, Refuse(w) PROVE Inv'
    <3>1. \A c \in Clients : books'[c].payout = books[c].payout
      BY <2>2, RefusalOf DEF TypeOK, Book
    <3> QED BY <2>2, <3>1, RefusalOf DEF NothingYet, SplittingCostsMicros
  <2>3. ASSUME NEW r \in Amounts, NEW v \in Amounts, Share(r, v) PROVE Inv'
    BY <2>3, ShareOf DEF NothingYet, SplittingCostsMicros
  <2>4. CASE UNCHANGED vars
    BY <2>4 DEF NothingYet, SplittingCostsMicros, vars
  <2> QED BY <2>1, <2>2, <2>3, <2>4 DEF Next
<1> QED BY <1>1, <1>2, TypeCorrect, PTL DEF Spec
=============================================================================
