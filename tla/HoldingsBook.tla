---------------------------- MODULE HoldingsBook ----------------------------
(***************************************************************************)
(* What assets.py promises of a user's book, without documents, requests   *)
(* or cache: a balance per asset, and a ledger of sales.  A sale takes its *)
(* quantity from a sufficient balance in one step and becomes an open      *)
(* ticket; an open ticket is either written to the ledger or lost (its     *)
(* request failed), and the ledger is written in no other way.             *)
(*                                                                         *)
(* An asset that is sold out and one that was never opened are the same    *)
(* here: the zero-quantity document the code removes in a second step does *)
(* not exist at this level.                                                *)
(***************************************************************************)
EXTENDS Integers

CONSTANTS
  Tickets,   \* identities of sales
  Accounts,  \* assets
  Least      \* a balance must exceed this to count; what is left is dropped

VARIABLES
  balance,  \* quantity held per account
  open,     \* sales taken from a balance and not yet in the ledger
  booked    \* the ledger

book == <<balance, open, booked>>

BookSale == [req : Tickets, asset : Accounts, qty : Nat]

\* A quantity as the book counts it.
Rounded(q) == IF q <= Least THEN 0 ELSE q

BookInit ==
  /\ balance = [a \in Accounts |-> 0]
  /\ open    = {}
  /\ booked  = {}

\* A deposit, an edit, an import or a removal: the owner sets a balance.
SetBalance(a) ==
  /\ balance' \in [Accounts -> Nat]
  /\ \A b \in Accounts \ {a} : balance'[b] = balance[b]
  /\ balance'[a] = Rounded(balance'[a])
  /\ UNCHANGED <<open, booked>>

Take(t) ==
  /\ t \in BookSale
  /\ t.qty > 0
  /\ t.qty <= balance[t.asset]
  /\ \A u \in open \cup booked : u.req # t.req
  /\ balance' = [balance EXCEPT ![t.asset] = Rounded(@ - t.qty)]
  /\ open' = open \cup {t}
  /\ UNCHANGED booked

Book(t) ==
  /\ t \in open
  /\ open'   = open \ {t}
  /\ booked' = booked \cup {t}
  /\ UNCHANGED balance

Lose(t) ==
  /\ t \in open
  /\ open' = open \ {t}
  /\ UNCHANGED <<balance, booked>>

BookNext ==
  \/ \E a \in Accounts : SetBalance(a)
  \/ \E t \in open' \ open : Take(t)
  \/ \E t \in open : Book(t) \/ Lose(t)

BookSpec == BookInit /\ [][BookNext]_book

=============================================================================
