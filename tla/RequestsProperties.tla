------------------------- MODULE RequestsProperties -------------------------
(***************************************************************************)
(* What a client of the exchange may rely on: its answers.                 *)
(***************************************************************************)
EXTENDS Requests, FiniteSetsExt

Steps == {"start", "recv", "extract", "children", "match", "select", "order", "executed",
          "left", "closed", "failed"}

\* Type correctness of the connections; the tables keep their types too.
RequestsTypeOK ==
    /\ TypeOK
    /\ script \in Scripts /\ cut \subseteq Rough /\ up \in BOOLEAN
    /\ \A c \in Clients :
        /\ sent[c] \in 0..Len(script[c])
        /\ thread[c] \in Steps
        /\ account[c] \in Accounts
        /\ wire[c] \in Seq((1..sent[c]) \X (1..Blank))
        /\ request_copy[c] \in Seq((1..sent[c]) \X (1..Blank))
        /\ thread[c] = "extract" => request_copy[c] # <<>>
        /\ thread[c] \in {"match", "select", "order", "executed"} => children[c] # <<>>
    /\ matching # {} <=> \E c \in Clients : thread[c] = "match"

\* What an answer to a child has to name.
Names(kid) ==
    CASE kid.tag = "account" -> kid.id
      [] kid.tag = "share" -> <<kid.sym, kid.id>>
      [] kid.tag = "symbol" -> kid.sym
      [] kid.tag = "order" -> kid
      [] kid.tag \in {"query", "cancel"} -> kid.id
      [] kid.tag = "other" -> "tag"

SuccessTag(kid) ==
    CASE kid.tag \in {"account", "share"} -> "created"
      [] kid.tag = "order" -> "opened"
      [] kid.tag = "query" -> "status"
      [] kid.tag = "cancel" -> "canceled"
      [] OTHER -> "none"

Fits(kid, r) ==
    \/ r.tag = "error" /\ r.about = Names(kid)
    \/ /\ r.tag = SuccessTag(kid)
       /\ IF r.tag \in {"created", "opened"} THEN r.about = Names(kid) ELSE r.id = Names(kid)

\* However the segments fall, and whatever the other clients do, the j-th response
\* a client is sent answers its j-th request, child by child and in order; a request
\* that failed as a whole (nothing in it, unknown account) has one error.  So no
\* request is executed in part, twice, or out of order (main.cpp:54-81).
AnswersFitRequests ==
    \A c \in Clients : \A j \in DOMAIN answers[c] :
        LET r == script[c][j]
            items == Items(r.kids)
        IN  \/ /\ Len(answers[c][j]) = Len(items)
               /\ \A k \in DOMAIN items : Fits(items[k], answers[c][j][k])
            \/ answers[c][j] = <<Error("create", "Nothing in tag")>> /\ items = <<>>
            \/ r.root = "transactions" /\ answers[c][j] = <<Error(r.id, "Account does not exist")>>

\* An answer on its place: client, response, child.
AnswerAt ==
    UNION {UNION {{<<c, j, k>> : k \in DOMAIN answers[c][j]} : j \in DOMAIN answers[c]} : c \in Clients}
The(at) == answers[at[1]][at[2]][at[3]]
For(at) == script[at[1]][at[2]].id

\* No other client asks for an order.
OnlyTrader(c) ==
    \A d \in Clients \ {c} : \A k \in DOMAIN script[d] : \A n \in DOMAIN Items(script[d][k].kids) :
        Items(script[d][k].kids)[n].tag # "order"

\* Order i is the one the client asked for with the child answered at this place.
AsAsked(i, at) ==
    LET asked == The(at).about IN
    orders[i].AccountID = For(at) /\ orders[i].SymbolName = asked.sym /\ orders[i].PriceLimit = asked.limit

\* The order of the answers on one connection.
Before(a, b) == a[1] = b[1] /\ (a[2] < b[2] \/ (a[2] = b[2] /\ a[3] < b[3]))

\* Answers are true of the tables, over all connections: an account is reported
\* created once, and status and cancellations are told to the owner only.  The number
\* of an order opened may be another client's (database_func.cpp:331); it is the order
\* asked for when no one else trades, and always one from there on, after every number
\* this connection was told before.
AnswersAreTrue ==
    \A at \in AnswerAt :
        CASE The(at).tag = "created" ->
                /\ The(at).about \in opened \cup (Symbols \X opened)
                /\ The(at).about \in Accounts =>
                    \A other \in AnswerAt \ {at} : ~(The(other).tag = "created" /\ The(other).about = The(at).about)
          [] The(at).tag = "opened" ->
                /\ The(at).id \in DOMAIN orders
                /\ \E i \in 1..The(at).id :
                      /\ AsAsked(i, at)
                      /\ \A first \in AnswerAt : Before(first, at) /\ The(first).tag = "opened" => The(first).id < i
                /\ OnlyTrader(at[1]) => AsAsked(The(at).id, at)
          [] The(at).tag \in {"status", "canceled"} -> orders[The(at).id].AccountID = For(at)
          [] OTHER -> TRUE

Size(n) == IF n < 0 THEN -n ELSE n

SharesIn(rows) == SumFunction([k \in DOMAIN rows |-> rows[k].shares])

\* What an order was placed with: its open or cancelled part and its executions.
Placed(i) ==
    LET rows == {k \in DOMAIN executed : executed[k].TransID = i}
    IN  Size(orders[i].Amount) + SumFunction([k \in rows |-> Size(executed[k].Amount)])

\* The shares an answer shows as open or cancelled and those it shows as executed
\* are all the shares of the order, once it is closed; while it is open a match
\* may commit between the two SELECTs of get_order, which shows its shares in both
\* places, but never hides one (database_func.cpp:560-572).
AddsUp(r) ==
    LET shown == Size(r.shares) + SharesIn(r.executed)
        n == Placed(r.id)
    IN  IF r.part = "open" THEN n =< shown /\ SharesIn(r.executed) =< n ELSE n = shown

\* Executions stay, the open part does not grow, and once an order is filled or cancelled
\* nothing changes.
Follows(first, later) ==
    /\ DOMAIN first.executed \subseteq DOMAIN later.executed
    /\ Size(later.shares) =< Size(first.shares)
    /\ first.part # "open" =>
           /\ later.part = first.part /\ later.shares = first.shares
           /\ later.executed = first.executed

\* Answers that tell of an order's shares.
Tells(r) == r.tag \in {"status", "canceled"}

\* What <status> and <canceled> tell of an order adds up to what was placed, whatever is
\* matched meanwhile, and what one connection is told of it never goes back.  When no one
\* else trades, what was placed under the number told is what was asked for.
AnswersAddUp ==
    \A at \in AnswerAt :
        /\ Tells(The(at)) =>
              /\ AddsUp(The(at))
              /\ \A later \in AnswerAt :
                     Before(at, later) /\ Tells(The(later)) /\ The(later).id = The(at).id => Follows(The(at), The(later))
        /\ The(at).tag = "opened" /\ OnlyTrader(at[1]) => Placed(The(at).id) = Size(The(at).about.amount)

\* Requests all threads can read.
WellFormed == \A c \in Clients : \A k \in DOMAIN script[c] : script[c][k].root \in {"create", "transactions"}

\* When segments end where requests end, several of them in one included, every request
\* sent is answered, unless the connection or its database connection fails.
WholeRequestsAnswered ==
    \A c \in Clients : \A k \in 1..3 :
        (cut = {} /\ WellFormed /\ sent[c] >= k) ~> (Len(answers[c]) >= k \/ thread[c] = "failed")
=============================================================================
