---------------------------- MODULE MCRequests ----------------------------
(***************************************************************************)
(* What the clients ask for in the runs of Requests.                       *)
(***************************************************************************)
EXTENDS RequestsProperties, TLC

CONSTANTS a1, a2, x, c1, c2

Account(a, money) == [tag |-> "account", id |-> a, balance |-> money]
Share(a, n) == [tag |-> "share", sym |-> x, id |-> a, amount |-> n]
Symbol(accounts) == [tag |-> "symbol", sym |-> x, accounts |-> accounts]
Other == [tag |-> "other"]
Order(n, p) == [tag |-> "order", sym |-> x, amount |-> n, limit |-> p]
Query(i) == [tag |-> "query", id |-> i]
Cancel(i) == [tag |-> "cancel", id |-> i]
CreateRequest(kids) == [root |-> "create", kids |-> kids]
Transactions(a, kids) == [root |-> "transactions", id |-> a, kids |-> kids]
Unknown == [root |-> "stupid", kids |-> <<>>]

Script(one, two) == [c \in {c1, c2} |-> IF c = c1 THEN one ELSE two]

\* A seller asks and cancels while a buyer takes half of what he offers.
Trading == Script(
    <<CreateRequest(<<Account(a1, 0), Symbol(<<Share(a1, 2), Share(a2, 1)>>)>>),
      Transactions(a1, <<Order(-2, 1), Query(1), Query(1)>>),
      Transactions(a1, <<Cancel(1), Query(1)>>)>>,
    <<CreateRequest(<<Account(a2, 3)>>),
      Transactions(a2, <<Order(1, 2), Query(1), Query(2), Cancel(1)>>)>>)

\* Two connections of one trader; the second reads what the first places.
Sharing == Script(
    <<CreateRequest(<<Account(a1, 4), Symbol(<<Share(a1, 1)>>)>>),
      Transactions(a1, <<Order(2, 2), Order(-1, 2), Cancel(1)>>)>>,
    <<CreateRequest(<<Account(a1, 1)>>),
      Transactions(a1, <<Query(1), Query(1), Cancel(1), Query(2)>>)>>)

\* Requests that are refused, as a whole or in part.
Refusals == Script(
    <<CreateRequest(<<Account(a1, 1), Symbol(<<>>), Other, Symbol(<<Other>>)>>),
      CreateRequest(<<>>),
      Transactions(a1, <<Order(0, 1), Order(2, 1), Order(-1, 1), Other, Cancel(3)>>)>>,
    <<Transactions(a2, <<Query(1)>>), Unknown>>)

MCScripts == {Trading, Sharing, Refusals}
=============================================================================
