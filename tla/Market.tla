------------------------------- MODULE Market -------------------------------
(***************************************************************************)
(* What the stock exchange server promises to its clients, with nothing    *)
(* said of tables, vectors or SQL: accounts hold cash and shares, an order  *)
(* reserves what it may spend, two crossing orders trade at a price inside  *)
(* both limits, best limits first, and a request is only served on a book   *)
(* in which nothing is left to trade.  Exchange.tla implements it.          *)
(***************************************************************************)
EXTENDS Integers, Sequences

CONSTANTS
    Accounts,   \* account numbers
    Symbols,    \* traded symbols
    Prices,     \* price limits an order may carry
    Amounts,    \* sizes an order may have
    Deposits,   \* opening balances
    Grants      \* shares handed to an account from outside

VARIABLES
    opened,     \* the accounts that exist
    cash,       \* the money an account may still commit
    shares,     \* the shares an account may still sell
    book        \* every order ever accepted, in order of arrival

vars == <<opened, cash, shares, book>>

\* open > 0: shares still to buy; open < 0: shares still to sell.
Orders == [owner: Accounts, sym: Symbols, open: Int, limit: Prices, state: {"placed", "withdrawn"}]

Bids(s) == {i \in DOMAIN book : book[i].state = "placed" /\ book[i].open > 0 /\ book[i].sym = s}
Asks(s) == {i \in DOMAIN book : book[i].state = "placed" /\ book[i].open < 0 /\ book[i].sym = s}

Crosses(b, a) == book[b].limit >= book[a].limit

\* Nothing is left to trade.
Settled == \A s \in Symbols : \A b \in Bids(s), a \in Asks(s) : ~Crosses(b, a)

Init ==
    /\ opened = {}
    /\ cash = [a \in Accounts |-> 0]
    /\ shares = [h \in Accounts \X Symbols |-> 0]
    /\ book = <<>>

Open(a, money) ==
    /\ Settled
    /\ a \notin opened
    /\ opened' = opened \cup {a}
    /\ cash' = [cash EXCEPT ![a] = money]
    /\ UNCHANGED <<shares, book>>

Grant(a, s, n) ==
    /\ Settled
    /\ a \in opened
    /\ shares' = [shares EXCEPT ![<<a, s>>] = @ + n]
    /\ UNCHANGED <<opened, cash, book>>

\* An order joins the book and its owner pays for it in advance.
Bid(a, s, n, p) ==
    /\ Settled
    /\ a \in opened /\ cash[a] >= n * p
    /\ cash' = [cash EXCEPT ![a] = @ - n * p]
    /\ book' = Append(book, [owner |-> a, sym |-> s, open |-> n, limit |-> p, state |-> "placed"])
    /\ UNCHANGED <<opened, shares>>

Ask(a, s, n, p) ==
    /\ Settled
    /\ a \in opened /\ shares[<<a, s>>] >= n
    /\ shares' = [shares EXCEPT ![<<a, s>>] = @ - n]
    /\ book' = Append(book, [owner |-> a, sym |-> s, open |-> -n, limit |-> p, state |-> "placed"])
    /\ UNCHANGED <<opened, cash>>

\* The best bid and the best ask of a symbol trade n shares at price p.
Trade(b, a, n, p) ==
    LET s == book[b].sym IN
    /\ b \in Bids(s) /\ a \in Asks(s)
    /\ \A i \in Bids(s) : book[i].limit <= book[b].limit
    /\ \A i \in Asks(s) : book[i].limit >= book[a].limit
    /\ n <= book[b].open /\ n <= -book[a].open
    /\ book[a].limit <= p /\ p <= book[b].limit
    /\ cash' = [cash EXCEPT ![book[a].owner] = @ + n * p]
    /\ shares' = [shares EXCEPT ![<<book[b].owner, s>>] = @ + n]
    /\ book' = [book EXCEPT ![b].open = @ - n, ![a].open = @ + n]
    /\ UNCHANGED opened

\* What an order still reserves goes back to its owner.
Withdraw(i) ==
    LET o == book[i] IN
    /\ Settled
    /\ o.state = "placed" /\ o.open # 0
    /\ book' = [book EXCEPT ![i].state = "withdrawn"]
    /\ IF o.open < 0
       THEN /\ shares' = [shares EXCEPT ![<<o.owner, o.sym>>] = @ - o.open]
            /\ UNCHANGED cash
       ELSE /\ cash' = [cash EXCEPT ![o.owner] = @ + o.open * o.limit]
            /\ UNCHANGED shares
    /\ UNCHANGED opened

Next ==
    \/ \E a \in Accounts, money \in Deposits : Open(a, money)
    \/ \E a \in Accounts, s \in Symbols, n \in Grants : Grant(a, s, n)
    \/ \E a \in Accounts, s \in Symbols, n \in Amounts, p \in Prices :
           Bid(a, s, n, p) \/ Ask(a, s, n, p)
    \/ \E b, a \in DOMAIN book : \E n \in 1..book[b].open, p \in Prices : Trade(b, a, n, p)
    \/ \E i \in DOMAIN book : Withdraw(i)

Spec == Init /\ [][Next]_vars
=============================================================================
