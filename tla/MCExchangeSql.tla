---------------------------- MODULE MCExchangeSql ----------------------------
(***************************************************************************)
(* Instances of ExchangeSql for TLC.                                       *)
(***************************************************************************)
EXTENDS ExchangeSqlProperties, TLC

CONSTANTS c1, c2, a1, a2, x, y

Buy(a, s, n, p) == [kind |-> "order", id |-> a, sym |-> s, amount |-> n, limit |-> p]
Sell(a, s, n, p) == [kind |-> "order", id |-> a, sym |-> s, amount |-> -n, limit |-> p]
Cancel(a) == [kind |-> "cancel", id |-> a]
CreateAccount(a, n) == [kind |-> "account", id |-> a, amount |-> n]
CreatePosition(a, s, n) == [kind |-> "position", id |-> a, sym |-> s, amount |-> n]

\* Two clients that both use the account a2, which is new.
Together ==
    [ requests |->
        c1 :> {Buy(a1, x, 3, 1), Cancel(a1), Sell(a2, x, 2, 2)}
        @@ c2 :> {CreateAccount(a2, 1), CreatePosition(a2, x, 2), Sell(a2, x, 2, 1), Cancel(a1), Cancel(a2)},
      opening |-> Balance(a1) :> 6 ]

\* Two clients with an account and a symbol each, the one new, the other not.
SideBySide ==
    [ requests |->
        c1 :> {CreateAccount(a1, 2), Buy(a1, x, 1, 2), Sell(a1, x, 1, 1), Cancel(a1)}
        @@ c2 :> {CreateAccount(a2, 3), CreatePosition(a2, y, 2), Buy(a2, y, 3, 1), Sell(a2, y, 2, 1)},
      opening |-> Balance(a1) :> 2 @@ Symbol(x) :> TRUE @@ Position(a1, x) :> 1 ]

\* One client that does everything for two accounts, from an empty database; the other sends
\* nothing.
Alone ==
    [ requests |-> [c \in Clients |-> IF c # TheClient THEN {} ELSE
         {CreateAccount(a1, 4), CreateAccount(a2, 0), CreatePosition(a1, x, 2), CreatePosition(a2, x, 2),
          Cancel(a1), Cancel(a2), Buy(a1, x, 1, 1), Buy(a1, x, 2, 2),
          Sell(a2, x, 2, 1), Sell(a2, x, 1, 2), Sell(a1, x, 1, 2)}],
      opening |-> NoRows ]

MCCourses == {Together, SideBySide, Alone}

\* Two clients sell to a buyer; both accounts hold cash and shares.
TwoSellers ==
    {[ requests |-> c1 :> {Buy(a1, x, 1, 1), Sell(a1, x, 1, 1)} @@ c2 :> {Sell(a2, x, 1, 1)},
       opening |-> Balance(a1) :> 4 @@ Balance(a2) :> 4 @@ Symbol(x) :> TRUE
                   @@ Position(a1, x) :> 2 @@ Position(a2, x) :> 2 ]}
=============================================================================
