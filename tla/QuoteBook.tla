------------------------------ MODULE QuoteBook ------------------------------
(***************************************************************************)
(* What a market maker is promised, without connections, challenges,       *)
(* wallets, encodings or channels: it is held to no quote that it did not  *)
(* mean to give, each quote that is taken gets one fate, once, and what    *)
(* the maker learns under an id is about its only quote with this id.      *)
(***************************************************************************)
EXTENDS Integers, Sequences

CONSTANTS
  Ids,    \* names that a maker gives its quotes
  NoId    \* the name of the others

VARIABLES
  meant,  \* the quotes that the maker means to give
  taken,  \* what it is held to: a quote and its fate, perhaps repeatedly
  book    \* what the maker knows under each name

bookVars == <<meant, taken, book>>

Fates == {"filled", "not_filled", "rejected", "selected_failed"}

BookInit ==
  /\ meant = {} /\ taken = <<>>
  /\ book = [id \in Ids |-> "none"]

\* A name is given to one quote, and none to any number.
Mean ==
  /\ \E quote \in meant' :
       /\ meant' = meant \cup {quote}
       /\ quote.client_quote_id # NoId =>
            \A earlier \in meant : earlier.client_quote_id # quote.client_quote_id
  /\ UNCHANGED <<taken, book>>

Take ==
  /\ \E quote \in meant : taken' = Append(taken, [quote |-> quote, status |-> "open"])
  /\ UNCHANGED <<meant, book>>

Decide ==
  /\ \E n \in DOMAIN taken, fate \in Fates :
       /\ taken[n].status = "open"
       /\ taken' = [taken EXCEPT ![n].status = fate]
  /\ UNCHANGED <<meant, book>>

\* Nothing is learned without a name, a fate only of a quote that has it.
Learn ==
  /\ \E id \in Ids \ {NoId}, status \in {"refused", "accepted"} \cup Fates :
       /\ book' = [book EXCEPT ![id] = status]
       /\ status # "refused" =>
            \E n \in DOMAIN taken : /\ taken[n].quote.client_quote_id = id
                                    /\ status \in Fates => taken[n].status = status
  /\ UNCHANGED <<meant, taken>>

BookNext == Mean \/ Take \/ Decide \/ Learn

BookSpec == BookInit /\ [][BookNext]_bookVars

\* What a maker relies on: it is held to what it meant, a fate that it has learned
\* is that of its only quote with this name, and a fate is final.
LearnedIsSo ==
  /\ taken \in Seq([quote : meant, status : {"open"} \cup Fates])
  /\ book \in [Ids -> {"none", "refused", "accepted"} \cup Fates]
  /\ \A quote, other \in meant :
       quote.client_quote_id = other.client_quote_id /\ quote # other =>
         quote.client_quote_id = NoId
  /\ \A id \in Ids \ {NoId} : book[id] \in Fates =>
       \E n \in DOMAIN taken : /\ taken[n].quote.client_quote_id = id
                               /\ taken[n].status = book[id]
FatesAreFinal ==
  [][\A n \in DOMAIN taken : /\ n \in DOMAIN taken'
                             /\ taken'[n].quote = taken[n].quote
                             /\ taken[n].status # "open" => taken'[n] = taken[n]]_bookVars
=============================================================================
