-------------------------------- MODULE Fills --------------------------------
(***************************************************************************)
(* An order is filled by quotes, one after the other, and two clients keep *)
(* the same books on it with the arithmetic of Money: one in Rust, one in  *)
(* TypeScript or Python.  A fill is refused when the liability of the      *)
(* maker is not an amount.                                                 *)
(***************************************************************************)
EXTENDS Money

VARIABLES
  odds,    \* the odds at which the order is filled
  filled,  \* what has been filled of its wager
  count,   \* the number of fills
  books,   \* the totals that each client has
  share    \* the last share that each client has computed of its payout

vars == <<odds, filled, count, books, share>>

Clients == {"rust", "big"}

Book == [payout : Amounts, liability : Amounts, profit : Amounts]
Shares == Amounts \cup {None, Overflow, DivisionByZero}

\* The liability of the maker is the profit of the taker.
Liability(client, wager) ==
  IF client = "rust" THEN RustCheckedProfit(odds, wager) ELSE BigCheckedProfit(odds, wager)

Payout(client, wager) ==
  IF client = "rust" THEN RustPayout(odds, wager) ELSE BigPayout(odds, wager)

Profit(client, wager) ==
  IF client = "rust" THEN RustProfit(odds, wager) ELSE BigProfit(odds, wager)

Fill(wager) ==
  /\ filled + wager <= MaxAmount
  /\ \A c \in Clients : Liability(c, wager) # None
  /\ filled' = filled + wager
  /\ count' = count + 1
  /\ books' = [c \in Clients |->
                 [payout |-> SaturatingAdd(books[c].payout, Payout(c, wager)),
                  liability |-> SaturatingAdd(books[c].liability, Liability(c, wager)),
                  profit |-> Profit(c, wager)]]
  /\ UNCHANGED <<odds, share>>

\* A client that refuses a fill shows what its profit would have been.
Refuse(wager) ==
  /\ filled + wager <= MaxAmount
  /\ \E c \in Clients : Liability(c, wager) = None
  /\ books' = [c \in Clients |-> [books[c] EXCEPT !.profit = Profit(c, wager)]]
  /\ UNCHANGED <<odds, filled, count, share>>

\* A client takes a share of its payout: at a rate, or of a whole.
Share(rate, whole) ==
  /\ \/ share' = [c \in Clients |->
                    IF c = "rust" THEN RustFixedMul(books[c].payout, rate)
                    ELSE BigFixedMul(books[c].payout, rate)]
     \/ share' = [c \in Clients |->
                    IF c = "rust" THEN RustFixedDiv(books[c].payout, whole)
                    ELSE BigFixedDiv(books[c].payout, whole)]
     \/ share' = [c \in Clients |->
                    IF c = "rust" THEN RustFixedMulDiv(books[c].payout, rate, whole)
                    ELSE BigFixedMulDiv(books[c].payout, rate, whole)]
  /\ UNCHANGED <<odds, filled, count, books>>

Init ==
  /\ odds \in Odds
  /\ filled = 0 /\ count = 0
  /\ books = [c \in Clients |-> [payout |-> 0, liability |-> 0, profit |-> 0]]
  /\ share = [c \in Clients |-> None]

Next ==
  \/ \E wager \in 1 .. MaxAmount : Fill(wager) \/ Refuse(wager)
  \/ \E rate, whole \in Amounts : Share(rate, whole)

Spec == Init /\ [][Next]_vars

-----------------------------------------------------------------------------
(* Properties *)

TypeOK ==
  /\ odds \in Odds
  /\ filled \in Amounts /\ count \in 0 .. filled
  /\ books \in [Clients -> Book]
  /\ share \in [Clients -> Shares]

\* Integers of 64 and 128 bits and integers of any size lead to the same
\* books, the same refusals and the same errors.
ClientsAgree ==
  /\ books["rust"] = books["big"]
  /\ share["rust"] = share["big"]
  /\ \A wager \in 1 .. MaxAmount : Liability("rust", wager) = Liability("big", wager)

\* Stakes and liabilities always cover what is to be paid out, and exactly,
\* unless a total is beyond what an amount can hold.
PayoutsAreCovered ==
  \A c \in Clients :
    /\ books[c].payout <= filled + books[c].liability
    /\ books[c].payout < MaxAmount /\ books[c].liability < MaxAmount =>
         books[c].payout = filled + books[c].liability

\* A taker whose order is filled in pieces is paid at most what one fill would
\* have paid, and loses less than one micro-dollar with each piece.
SplittingCostsMicros ==
  LET whole == (filled * odds) \div BasisPoints
  IN \A c \in Clients :
       /\ books[c].payout <= whole
       /\ books[c].payout < MaxAmount /\ count > 0 => whole < books[c].payout + count
=============================================================================
