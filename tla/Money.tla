-------------------------------- MODULE Money --------------------------------
(***************************************************************************)
(* The arithmetic of odds and amounts.  Rust computes with integers of 64  *)
(* and 128 bits; TypeScript (BigInt) and Python compute with integers of   *)
(* any size and compare with the limits themselves.                        *)
(*                                                                         *)
(* Left out: decimals for display, and the range checks of constructors,   *)
(* which all values here have passed.                                      *)
(***************************************************************************)
EXTENDS Integers

CONSTANTS
  U32,              \* one more than the largest u32
  U64,              \* one more than the largest u64
  BasisPoints,      \* odds of 1.0x
  MicrosPerDollar,  \* scale of amounts
  None,             \* no result
  Overflow,         \* MathError
  DivisionByZero    \* MathError

Amounts == 0 .. U64 - 1
Odds == 0 .. U32 - 1

ASSUME MoneyAssumption ==
  /\ U32 \in Nat \ {0} /\ U64 \in Nat \ {0} /\ U32 <= U64
  /\ BasisPoints \in Amounts \ {0} /\ MicrosPerDollar \in Amounts \ {0}
  /\ {None, Overflow, DivisionByZero} \cap Int = {}

MaxAmount == U64 - 1
U128 == U64 * U64

\* Mutant: addition that wraps around.
WrappingAdd(a, b) == (a + b) % U64

\* Mutant: addition that nothing bounds.
PlainAdd(a, b) == a + b

\* Saturating addition, in every language.
SaturatingAdd(a, b) == IF a + b > MaxAmount THEN MaxAmount ELSE a + b

-----------------------------------------------------------------------------
(* Rust *)

\* Mutant: the product is not widened.
RustPayoutNarrow(odds, wager) == ((wager * odds) % U64) \div BasisPoints

\* Mutant: rounding to the favour of the taker.
RustPayoutUp(odds, wager) == (wager * odds + BasisPoints - 1) \div BasisPoints

RustPayoutMicros(odds, wager) == ((wager * odds) % U128) \div BasisPoints

RustCheckedPayout(odds, wager) ==
  LET payout == RustPayoutMicros(odds, wager)
  IN IF payout > MaxAmount THEN None ELSE payout % U64

RustPayout(odds, wager) ==
  LET payout == RustCheckedPayout(odds, wager)
  IN IF payout = None THEN MaxAmount ELSE payout

\* A payout can be too large for an amount although the profit is not.
RustCheckedProfit(odds, wager) ==
  LET payout == RustPayoutMicros(odds, wager)
  IN IF payout < wager \/ payout - wager > MaxAmount THEN None ELSE (payout - wager) % U64

RustProfit(odds, wager) ==
  LET profit == RustCheckedProfit(odds, wager)
  IN IF profit # None THEN profit ELSE IF odds <= BasisPoints THEN 0 ELSE MaxAmount

RustFixed(numerator, divisor) ==
  LET scaled == (IF numerator >= U128 THEN U128 - 1 ELSE numerator) \div divisor
  IN IF scaled > MaxAmount THEN Overflow ELSE scaled % U64

RustFixedMul(a, b) == RustFixed(a * b, MicrosPerDollar)

RustFixedDiv(a, b) ==
  IF b = 0 THEN DivisionByZero ELSE RustFixed(a * MicrosPerDollar, b)

RustFixedMulDiv(a, mul, div) ==
  IF div = 0 THEN DivisionByZero ELSE RustFixed(a * mul, div)

-----------------------------------------------------------------------------
(* TypeScript and Python *)

BigPayoutMicros(odds, wager) == (wager * odds) \div BasisPoints

BigPayout(odds, wager) ==
  LET payout == BigPayoutMicros(odds, wager)
  IN IF payout <= MaxAmount THEN payout ELSE MaxAmount

BigCheckedProfit(odds, wager) ==
  LET profit == BigPayoutMicros(odds, wager) - wager
  IN IF 0 <= profit /\ profit <= MaxAmount THEN profit ELSE None

BigProfit(odds, wager) ==
  LET profit == BigCheckedProfit(odds, wager)
  IN IF profit # None THEN profit ELSE IF odds <= BasisPoints THEN 0 ELSE MaxAmount

BigFixed(numerator, divisor) ==
  LET scaled == numerator \div divisor
  IN IF scaled > MaxAmount THEN Overflow ELSE scaled

BigFixedMul(a, b) == BigFixed(a * b, MicrosPerDollar)

BigFixedDiv(a, b) ==
  IF b = 0 THEN DivisionByZero ELSE BigFixed(a * MicrosPerDollar, b)

BigFixedMulDiv(a, mul, div) ==
  IF div = 0 THEN DivisionByZero ELSE BigFixed(a * mul, div)
=============================================================================
