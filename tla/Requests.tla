------------------------------ MODULE Requests ------------------------------
(***************************************************************************)
(* The connections of the stock exchange: handleClient (main.cpp) cuts what *)
(* recv returns into requests, handle_request and the loops of              *)
(* handle_create and handle_transaction (handle_xml.cpp) take a request's   *)
(* children one by one and gather one answer each.  What a child does to    *)
(* the tables is Exchange.tla.  Children of different clients follow each   *)
(* other here; the statements inside them interleave in ExchangeSql.tla.    *)
(* The two SELECTs of get_order do not belong to one transaction and are    *)
(* two steps.  So is the SELECT of the largest TransID: it belongs to the   *)
(* order's transaction but reads what others have committed since the       *)
(* INSERT.  The rest of the transaction is taken together with the INSERT:  *)
(* the orders of others the SELECT may find come after it.                  *)
(*                                                                         *)
(* Clients send well-formed requests with the attributes the handlers read  *)
(* and the right length in front; what the network does to the segments is  *)
(* free.                                                                   *)
(***************************************************************************)
EXTENDS Exchange, SequencesExt

CONSTANTS
    Clients,    \* one connection, thread and socket each
    Rough,      \* those whose segments may be cut anywhere
    Scripts     \* what the clients may have to ask: sets of [Clients -> Seq(Request)]

\* An element with the attributes its handler reads.  A <share> is an <account>
\* inside <symbol>; "other" is an element with any other name.
IsElement(o) ==
    /\ o.tag \in {"account", "share", "symbol", "order", "query", "cancel", "other"}
    /\ o.tag = "account" => o.id \in Accounts /\ o.balance \in Deposits
    /\ o.tag = "share" => o.id \in Accounts /\ o.sym \in Symbols /\ o.amount \in Grants
    /\ o.tag = "order" =>
           /\ o.sym \in Symbols /\ o.limit \in Prices
           /\ o.amount \in {0} \cup Amounts \cup {-n : n \in Amounts}
    /\ o.tag \in {"query", "cancel"} => o.id \in Nat

IsList(l) == l \in Seq(Range(l))

\* The children of <create> and of <transactions>.
IsCreated(o) ==
    /\ IsElement(o) /\ o.tag \in {"account", "symbol", "other"}
    /\ o.tag = "symbol" =>
           /\ IsList(o.accounts)
           /\ \A k \in DOMAIN o.accounts : IsElement(o.accounts[k]) /\ o.accounts[k].tag \in {"share", "other"}
IsTransaction(o) == IsElement(o) /\ o.tag \in {"order", "query", "cancel", "other"}

IsRequest(r) ==
    /\ r.root = "create" => IsList(r.kids) /\ \A k \in DOMAIN r.kids : IsCreated(r.kids[k])
    /\ r.root = "transactions" =>
           /\ r.id \in Accounts
           /\ IsList(r.kids) /\ \A k \in DOMAIN r.kids : IsTransaction(r.kids[k])

\* An answer names an account, or a symbol and an account: these are told apart.
ASSUME RequestsAssumption ==
    /\ Accounts # {} /\ Accounts \cap (Symbols \X Accounts) = {}
    /\ \A s \in Scripts : \A c \in Clients :
          IsList(s[c]) /\ \A k \in DOMAIN s[c] : IsRequest(s[c][k])

VARIABLES
    script,         \* the requests of each client
    cut,            \* the clients whose segments are
    up,             \* FALSE once an exception has left a thread
    sent,           \* how many requests a client has sent
    wire,           \* bytes on their way to recv
    thread,         \* what handleClient does next
    request_copy,   \* bytes received and not yet handled
    account,        \* myAccountID
    children,       \* the request's children not yet taken up
    results,        \* the children of <results> so far
    myOrder,        \* the row get_order has read
    answers         \* the responses sent to each client

connections == <<script, cut, up, sent, wire, thread, request_copy, account,
                 children, results, myOrder, answers>>
allvars == <<vars, connections>>

None == [TransID |-> -1]
-----------------------------------------------------------------------------
(* Requests on the wire                                                     *)

\* A request is a line with the length of the rest and the XML, which may end
\* in a line feed of its own.  Byte j of a client's k-th request is <<k, j>>.
Digits == 1
NewLine == 2
Blank == 5
XmlLength == Blank - NewLine
Wire(k) == [j \in 1..Blank |-> <<k, j>>]

\* Position of the first line feed, 0 for npos: find and substr then agree
\* that the XML begins one further.
FirstLineIndex(b) ==
    LET feeds == {j \in DOMAIN b : b[j][2] = NewLine}
    IN  IF feeds = {} THEN 0 ELSE CHOOSE j \in feeds : \A i \in feeds : j =< i

\* stoi throws unless the first line begins with digits.
IsNumber(b) == b[1][2] = Digits

\* substr cuts the XML short where the bytes end.
Xml(b) == SubSeq(b, FirstLineIndex(b) + 1, Lesser(FirstLineIndex(b) + XmlLength, Len(b)))

\* The request the bytes are the XML of; {} when Parse finds no root: a
\* document cut short is an error and is deleted, a missing line feed is not.
Parsed(xml) ==
    {k \in {xml[j][1] : j \in DOMAIN xml} :
        \/ xml = SubSeq(Wire(k), NewLine + 1, Blank)
        \/ xml = SubSeq(Wire(k), NewLine + 1, Blank - 1)}

\* Mutant of NextIndex: the line feed after the length is not counted.
NextIndexShort(b) == FirstLineIndex(b) - 1 + XmlLength

NextIndex(b) == FirstLineIndex(b) + XmlLength
-----------------------------------------------------------------------------
(* Answers                                                                  *)

Error(about, msg) == [tag |-> "error", about |-> about, msg |-> msg]
Created(about) == [tag |-> "created", about |-> about]
Opened(order, i) == [tag |-> "opened", about |-> order, id |-> i]

\* Mutant of Executed: shares keep their sign.
ExecutedSigned(i) ==
    LET rows == {k \in DOMAIN executed : executed[k].TransID = i}
    IN  [k \in rows |-> [shares |-> executed[k].Amount, price |-> executed[k].Price]]

\* The rows of EXECUTED for order i; shares are shown without sign.
Executed(i) ==
    LET rows == {k \in DOMAIN executed : executed[k].TransID = i}
    IN  [k \in rows |-> [shares |-> IF executed[k].Amount < 0 THEN -executed[k].Amount
                                    ELSE executed[k].Amount,
                         price |-> executed[k].Price]]

StatusPart(o) ==
    IF o.Amount = 0 THEN "filled"
    ELSE IF o.CancelTime = NOTCANCELLED THEN "open" ELSE "canceled"

Status(o) ==
    [tag |-> "status", id |-> o.TransID, part |-> StatusPart(o), shares |-> o.Amount,
     executed |-> Executed(o.TransID)]

Canceled(o) ==
    [tag |-> "canceled", id |-> o.TransID, part |-> "canceled", shares |-> o.Amount,
     executed |-> Executed(o.TransID)]
-----------------------------------------------------------------------------
(* The connection                                                           *)

RequestsInit ==
    /\ Init
    /\ script \in Scripts
    /\ cut \in SUBSET Rough
    /\ up = TRUE
    /\ sent = [c \in Clients |-> 0]
    /\ wire = [c \in Clients |-> <<>>]
    /\ thread = [c \in Clients |-> "start"]
    /\ request_copy = [c \in Clients |-> <<>>]
    /\ account = [c \in Clients |-> CHOOSE a \in Accounts : TRUE]
    /\ children = [c \in Clients |-> <<>>]
    /\ results = [c \in Clients |-> <<>>]
    /\ myOrder = [c \in Clients |-> None]
    /\ answers = [c \in Clients |-> <<>>]

\* The client sends its next request; it need not wait for an answer.
Send(c) ==
    /\ sent[c] < Len(script[c])
    /\ sent' = [sent EXCEPT ![c] = @ + 1]
    /\ wire' = [wire EXCEPT ![c] = @ \o Wire(sent'[c])]
    /\ UNCHANGED <<vars, script, cut, up, thread, request_copy, account, children,
                   results, myOrder, answers>>

\* A thread of the running server is at a step, and no other thread is inside
\* the transaction of an order.
At(c, step) == up /\ thread[c] = step /\ matching = {}

Go(c, step) == thread' = [thread EXCEPT ![c] = step]

\* The new thread opens its own database connection, or gives up.
Start(c) ==
    /\ At(c, "start")
    /\ Go(c, "recv") \/ Go(c, "failed")
    /\ UNCHANGED <<vars, script, cut, up, sent, wire, request_copy, account, children,
                   results, myOrder, answers>>

\* recv returns a segment; those of careful clients and networks end where a
\* request ends.  A segment never holds more than 65536 bytes.
Recv(c) ==
    /\ At(c, "recv")
    /\ \E n \in 1..Len(wire[c]) :
        /\ c \in cut \/ wire[c][n][2] = Blank
        /\ request_copy' = [request_copy EXCEPT ![c] = SubSeq(wire[c], 1, n)]
        /\ wire' = [wire EXCEPT ![c] = SubSeq(@, n + 1, Len(@))]
    /\ Go(c, "extract")
    /\ UNCHANGED <<vars, script, cut, up, sent, account, children, results, myOrder, answers>>

\* recv returns 0 when the client has closed its side, -1 on an error; only
\* the first leaves the loop for the disconnect.
RecvEnds(c) ==
    /\ At(c, "recv")
    /\ \/ sent[c] = Len(script[c]) /\ wire[c] = <<>> /\ Go(c, "closed")
       \/ Go(c, "failed")
    /\ UNCHANGED <<vars, script, cut, up, sent, wire, request_copy, account, children,
                   results, myOrder, answers>>

\* An exception leaves the thread: std::terminate.
Terminate == up' = FALSE

\* The children of a <create> in the order the nested loops take them up.
Items(kids) ==
    FlattenSeq([j \in DOMAIN kids |->
        IF kids[j].tag = "symbol" /\ kids[j].accounts # <<>> THEN kids[j].accounts
        ELSE <<kids[j]>>])

\* Mutant of BeginRequest: the answers of the request before are kept.
BeginRequestKeeping(c, r) ==
    /\ account' = IF r.root = "create" THEN account ELSE [account EXCEPT ![c] = r.id]
    /\ children' = [children EXCEPT ![c] = Items(r.kids)]
    /\ UNCHANGED results

\* handle_create and handle_transaction up to their loops.
BeginRequest(c, r) ==
    \/ /\ r.root = "create"
       /\ children' = [children EXCEPT ![c] = Items(r.kids)]
       /\ results' = [results EXCEPT ![c] =
             IF r.kids = <<>> THEN <<Error("create", "Nothing in tag")>> ELSE <<>>]
       /\ UNCHANGED account
    \/ /\ r.root = "transactions"
       /\ account' = [account EXCEPT ![c] = r.id]
       /\ children' = [children EXCEPT ![c] = IF r.id \in opened THEN r.kids ELSE <<>>]
       /\ results' = [results EXCEPT ![c] =
             IF r.id \in opened THEN <<>> ELSE <<Error(r.id, "Account does not exist")>>]

\* The head of the inner loop, and handle_request: without a root, or with an
\* unknown one, the thread returns and nothing is sent or closed.
Extract(c) ==
    LET b == request_copy[c]
        requests == {k \in Parsed(Xml(b)) : script[c][k].root \in {"create", "transactions"}}
    IN  /\ At(c, "extract")
        /\ \/ /\ ~IsNumber(b) /\ Terminate
              /\ UNCHANGED <<thread, account, children, results>>
           \/ /\ IsNumber(b) /\ requests = {}
              /\ Go(c, "left")
              /\ UNCHANGED <<up, account, children, results>>
           \/ /\ IsNumber(b)
              /\ \E k \in requests : BeginRequest(c, script[c][k])
              /\ Go(c, "children")
              /\ UNCHANGED up
        /\ UNCHANGED <<vars, script, cut, sent, wire, request_copy, myOrder, answers>>
-----------------------------------------------------------------------------
(* The children                                                             *)

\* c's thread is at the head of a loop, before a child with this tag.
Takes(c, tag) ==
    /\ At(c, "children")
    /\ children[c] # <<>> /\ Head(children[c]).tag = tag

Answer(c, r) ==
    /\ results' = [results EXCEPT ![c] = Append(@, r)]
    /\ children' = [children EXCEPT ![c] = Tail(@)]
    /\ Go(c, "children")
    /\ UNCHANGED <<script, cut, up, sent, wire, request_copy, account, myOrder, answers>>

\* A child that is refused: an <error> is added and no table changes.
Refuse(c, about, msg) == Answer(c, Error(about, msg)) /\ UNCHANGED vars

\* The child has more steps to come.
Proceed(c, step) ==
    /\ Go(c, step)
    /\ UNCHANGED <<script, cut, up, sent, wire, request_copy, account, children,
                   results, answers>>

\* <account id="" balance=""/> of a <create>
AccountChild(c) ==
    LET o == Head(children[c]) IN
    /\ Takes(c, "account")
    /\ \/ o.id \in opened /\ Refuse(c, o.id, "Account already exists")
       \/ CreateAccount(o.id, o.balance) /\ Answer(c, Created(o.id))

\* <account id="">shares</account> of a <symbol>
ShareChild(c) ==
    LET o == Head(children[c]) IN
    /\ Takes(c, "share")
    /\ \/ o.id \notin opened /\ Refuse(c, <<o.sym, o.id>>, "Account does not exist")
       \/ CreatePosition(o.id, o.sym, o.amount) /\ Answer(c, Created(<<o.sym, o.id>>))

\* <symbol sym=""/> without an account
EmptySymbolChild(c) ==
    /\ Takes(c, "symbol")
    /\ Refuse(c, Head(children[c]).sym, "No account specified")

\* A child, or an element inside <symbol>, with any other name
OtherChild(c) == Takes(c, "other") /\ Refuse(c, "tag", "Invalid tag")

\* <order sym="" amount="" limit=""/>: sells have negative amounts.
OrderChild(c) ==
    LET o == Head(children[c])
        a == account[c]
    IN  /\ Takes(c, "order")
        /\ \/ o.amount = 0 /\ Refuse(c, o, "Input amount is zero")
           \/ /\ o.amount > 0 /\ InsufficientFunds(a, o.amount, o.limit)
              /\ Refuse(c, o, "Insufficient funds")
           \/ /\ o.amount < 0 /\ InsufficientShares(a, o.sym, -o.amount)
              /\ Refuse(c, o, "Insufficient shares")
           \/ /\ o.amount > 0 /\ BuyOrder(a, o.sym, o.amount, o.limit)
              /\ Proceed(c, "match") /\ UNCHANGED myOrder
           \/ /\ o.amount < 0 /\ SellOrder(a, o.sym, -o.amount, o.limit)
              /\ Proceed(c, "match") /\ UNCHANGED myOrder

MatchTurn(c) ==
    /\ thread[c] = "match"
    /\ MatchHeads
    /\ UNCHANGED connections

CommitChild(c) ==
    /\ thread[c] = "match"
    /\ Commit
    /\ Proceed(c, "select") /\ UNCHANGED myOrder

\* The answer carries the largest TransID, of the order just filed or of one
\* another thread has filed and committed after it.
SelectMax(c) ==
    /\ At(c, "select")
    /\ Answer(c, Opened(Head(children[c]), Len(orders)))
    /\ UNCHANGED vars

\* get_order reads the row ...
GetOrder(i) == [TransID |-> i, AccountID |-> orders[i].AccountID, Amount |-> orders[i].Amount,
                CancelTime |-> orders[i].CancelTime]

ReadRow(c, i) == myOrder' = [myOrder EXCEPT ![c] = GetOrder(i)]

\* <query id=""/>
QueryChild(c) ==
    LET i == Head(children[c]).id IN
    /\ Takes(c, "query")
    /\ \/ i \notin DOMAIN orders /\ Refuse(c, i, "TransactionID does not exist")
       \/ i \in DOMAIN orders /\ ReadRow(c, i) /\ Proceed(c, "executed") /\ UNCHANGED vars

Closed(i) == orders[i].Amount = 0 \/ orders[i].CancelTime # NOTCANCELLED

\* <cancel id=""/>: cancel_order refuses a closed order, CancelOrder is enabled
\* for the others.
CancelChild(c) ==
    LET i == Head(children[c]).id IN
    /\ Takes(c, "cancel")
    /\ \/ i \notin DOMAIN orders /\ Refuse(c, i, "TransactionID does not exist")
       \/ /\ i \in DOMAIN orders /\ orders[i].AccountID # account[c]
          /\ Refuse(c, i, "Account does not own transaction, access denied")
       \/ /\ i \in DOMAIN orders /\ orders[i].AccountID = account[c] /\ Closed(i)
          /\ Refuse(c, i, "Transaction already cancelled or finished")
       \/ /\ i \in DOMAIN orders /\ orders[i].AccountID = account[c]
          /\ CancelOrder(i)
          /\ Proceed(c, "order") /\ UNCHANGED myOrder

\* After a cancellation get_order begins again.
ReadCanceled(c) ==
    /\ At(c, "order")
    /\ ReadRow(c, Head(children[c]).id)
    /\ Proceed(c, "executed")
    /\ UNCHANGED vars

\* Mutant of ReadExecuted: a query does not look at the owner.
ReadExecutedOfAnyone(c) ==
    LET o == myOrder[c] IN
    /\ At(c, "executed")
    /\ \/ Head(children[c]).tag = "query" /\ Answer(c, Status(o))
       \/ Head(children[c]).tag = "cancel" /\ Answer(c, Canceled(o))
    /\ UNCHANGED vars

\* ... and then the executions; only then a query looks at the owner.
ReadExecuted(c) ==
    LET o == myOrder[c] IN
    /\ At(c, "executed")
    /\ \/ /\ Head(children[c]).tag = "query" /\ o.AccountID # account[c]
          /\ Answer(c, Error(o.TransID, "Account does not own transaction, access denied"))
       \/ /\ Head(children[c]).tag = "query" /\ o.AccountID = account[c]
          /\ Answer(c, Status(o))
       \/ Head(children[c]).tag = "cancel" /\ Answer(c, Canceled(o))
    /\ UNCHANGED vars

\* Mutant of NextStep: the loop is entered again without a byte.
NextStepAgain(b) == "extract"

\* The inner loop goes on while bytes are left.
NextStep(b) == IF b = <<>> THEN "recv" ELSE "extract"

\* The response is sent; substr throws when the request was cut short after its
\* XML, otherwise what follows is the next request.
Respond(c) ==
    LET b == request_copy[c]
        n == NextIndex(b)
    IN  /\ At(c, "children") /\ children[c] = <<>>
        /\ answers' = [answers EXCEPT ![c] = Append(@, results[c])]
        /\ \/ n > Len(b) /\ Terminate /\ UNCHANGED <<thread, request_copy>>
           \/ /\ n =< Len(b)
              /\ request_copy' = [request_copy EXCEPT ![c] = SubSeq(b, n + 1, Len(b))]
              /\ Go(c, NextStep(request_copy'[c]))
              /\ UNCHANGED up
        /\ UNCHANGED <<vars, script, cut, sent, wire, account, children, results, myOrder>>
-----------------------------------------------------------------------------
Child(c) ==
    \/ AccountChild(c) \/ ShareChild(c) \/ EmptySymbolChild(c) \/ OtherChild(c)
    \/ OrderChild(c) \/ MatchTurn(c) \/ CommitChild(c) \/ SelectMax(c)
    \/ QueryChild(c) \/ CancelChild(c) \/ ReadCanceled(c) \/ ReadExecuted(c)

Serve(c) == Start(c) \/ Recv(c) \/ Extract(c) \/ Child(c) \/ Respond(c)

RequestsNext == \E c \in Clients : Send(c) \/ RecvEnds(c) \/ Serve(c)

RequestsSpec == RequestsInit /\ [][RequestsNext]_allvars

\* Threads run on; clients need not send.
FairRequestsSpec == RequestsSpec /\ \A c \in Clients : WF_allvars(Serve(c))
=============================================================================
