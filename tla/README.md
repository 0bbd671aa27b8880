# Formal models of the INTERN23 programs

TLA+ models, TLC runs and TLAPS proofs for the programs of this repository.
The repository is a collection of independent programs; this development takes
those whose behaviour is hard to test. Modelled are the stock exchange server
(serially, with concurrent clients, and its connections), the UPS server (its workers
and unreliable peers, and its messages on the wire), the ride sharing site, the
32-bit processor and the choose-your-own-adventure programs. What is not
modelled is listed at the end, with the reason.

To check a run: `tlc -config MCUps.cfg MCUps` (and so on, see *Runs*). To
check the proofs: `tlapm ExchangeProofs.tla`, and so on for the seven modules whose
names end in `Proofs`.

## Inventory

| Program | State | Operations | What is hard |
|---|---|---|---|
| **Stock exchange server** (`Mini Stock Exchange Server/docker-deploy/src`): `main.cpp` accepts clients, gives each a detached thread and a database connection, and cuts what `recv` returns into requests; `handle_xml.cpp` turns requests into calls and gathers their answers; `database_func.cpp` is SQL and the matching loop | PostgreSQL tables ACCOUNT, SYMBOL, TRANSACTION, EXECUTED; two vectors of open orders inside `matchOrders`; the bytes received and not yet handled | `<create>` account or position; `<order>` (check funds, insert, charge, match, commit); `<query>`; `<cancel>` | partial fills over copies of rows; statements of several clients interleave at READ COMMITTED; read-then-write of balances; deadlocks and unique violations that no handler catches; segments that do not end where requests end |
| **UPS server** (`Mini-UPS (Backend) in C++/ups_server`): threads that listen to Amazon and to a simulated world, a detached worker per message; generated protobuf classes and size-prefixed frames | `seqNumAcked_amazon`, `seqNumAcked_world`, `truckList`, one mutex; tables TRUCK, PKG, USERR; one input stream and one message object per connection | greetings; pickup, delivery, change of destination, bind; truck finished, delivery made, truck status, error; periodic queries; disconnect | resends until acknowledged, duplicate suppression by sequence number, unlocked truck assignment, list and table written in different orders; frames that arrive in pieces |
| **UPS website** (`ups_website`) | the same tables, through Django | search, list, update of a package, registration | saves whole rows that the server changes meanwhile |
| **Ride sharing site** (`ride/views.py`, `ride/models.py`, templates) | tables Ride_owner, Ride_sharer, Ride_driver; the pages users have before them | request, change, delete, join, cancel, confirm, complete a ride | every view reads a row and saves all of it, and none looks at the status: the pages do |
| **Adventure game** (`cyoa.cpp`) | pages, gadgets, current page | load and validate a story, play it, list the winning paths | graph search with an unusual stopping condition |
| **32-bit processor** (Verilog) | PC, register file, both memories with their registered ports, two clock dividers | sixteen instructions, one each four ticks of the board's clock; reset | memories that answer two ticks late; overflow and its redirected register write; a reset at any tick |
| **Vacuum cleaner robot** (`RobotStop.cpp`) | none | cancels the goal when an object is seen | - |
| **Handwriting recognition** (MATLAB), **LKM rootkit exercise** (C) | - | - | numeric scripts, kernel code: not modelled |

How the parts interact: the exchange's clients meet only in the database; the UPS
server exchanges protobuf messages with Amazon and the world over two sockets
and shares tables with the UPS website. The programs do not interact with each
other.

What makes each part correct:

- exchange: no account below zero, no two open orders that could still trade once a
  request is done, no trade beyond a limit, shares and cash explained, closed
  orders stay closed, every order's open amount and executions add up, every
  request ends; with several clients, the same as if they came one after
  another;
- UPS: every request of Amazon is acted on once however often it is sent, every
  command reaches the world, Amazon hears of a truck only when it is there and of a
  delivery only when it is recorded, a delivered package stays delivered; what the
  code does not provide for (one truck taken by two warehouses, list and table of
  trucks that differ) is among the hazards of `PROJECT.json`;
- connections: every response answers its request child by child, what it says of accounts,
  owners and shares is true of the tables and adds up, although `get_order` reads in two steps;
  the number of an opened order may be another client's, but is never below its own;
  frames are handed on whole, in order, with nothing of another one in them;
- ride sharing: among users who take turns, seats are lost in two ways only (the owner's form states
  fewer, a cancellation takes off more than the sharer still has), a confirmed ride is only completed;
- adventure game: a file is refused exactly if it breaks a rule, whatever the order
  of its lines; conditions hold when they are passed; the listed paths are winning
  paths without repetition, every page that can be won is at the end of one, and the search of a
  story without unreachable pages ends. The game's README asks for more (all paths, of all stories),
  and a run shows that the program does not do it;
- processor: each edge of the divided clock executes the instruction at pc, whole, and
  the data memory takes nothing else, both from a few ticks after a reset began: the clock and the
  memories' registers are not reset with the PC, so that an edge that follows at once executes, and a
  store in flight writes, what was fetched before.

## Modules

| Module | Models |
|---|---|
| `Market` | What the exchange promises, without tables or loop: open, grant, bid, ask, trade the best bid with the best ask, withdraw |
| `Exchange` | `handle_xml.cpp` and `database_func.cpp`, one request at a time, `matchOrders` one turn of its loop per step |
| `ExchangeProperties` | The properties of `Exchange`, and the refinement mapping to `Market` |
| `Induction` | Induction over natural numbers and finite sets, and what sums over finite sets are, for the proofs |
| `ExchangeProofs` | The inductive invariant of `Exchange`, the theorems it implies, those about steps and totals, and that it implements `Market` |
| `MCExchange` | Instances of `Exchange` for TLC |
| `ExchangeSql` | The same server with several clients, one SQL statement per step |
| `ExchangeSqlProperties` | The properties of `ExchangeSql`, and the refinement mapping of a lone client to `Exchange` |
| `ExchangeSqlProofs` | The locks and the cancellations of `ExchangeSql`, what clients with nothing in common may rely on, and that a client alone gets `Exchange`, for any clients |
| `MCExchangeSql` | Instances of `ExchangeSql` for TLC |
| `Requests` | `handleClient`, `handle_request` and the loops over children, composed with `Exchange`: bytes in, answers out |
| `RequestsProperties` | What a client may rely on in its answers |
| `RequestsProofs` | That answers fit their requests, are true as far as the code makes them, and add up |
| `MCRequests` | What the clients ask for in the run |
| `Parcels` | What the UPS server promises about each package, without messages, maps or trucks' status |
| `Ups` | `gpb_server.cpp` with its listeners, workers, maps, list and tables; Amazon and the world from how the server uses them |
| `UpsProperties` | The properties of `Ups`, and the refinement mapping to `Parcels` |
| `UpsProofs` | The safety properties of `Ups`, and that it implements `Parcels`, for any requests and trucks |
| `MCUps` | What Amazon asks for in the runs, and how the world numbers its reports |
| `MessageFields`, `WorldMessages`, `AmazonMessages` | The message classes of `world_ups.pb` and `ups_amazon.pb`: the kinds of their fields, what each tag leads to, what is written in which order |
| `Messages` | How a class writes, sizes, parses and completes a message |
| `Wire` | The greetings, `sendMesgTo`, `recvMesgFrom` and the listening loops over a stream of bytes |
| `WireProperties`, `MCWire` | What a connection keeps of the messages; the messages sent in the run |
| `RideSharing` | The views and the pages, a view as the read of a row and the save of the whole of it |
| `RideSharingProperties`, `RideSharingProofs`, `MCRideSharing` | Seats and confirmed rides; their proofs; an instance |
| `Processor` | The data path, the memories, the dividers and the reset, tick by tick |
| `ProcessorProperties`, `ProcessorProofs`, `MCProcessor` | The instruction set on numbers, and what an edge does; the proofs of timing and data path; programs |
| `StoryFile` | `readAStory` of `cyoa.cpp`: from the lines of a file to a story, or to the end of the program |
| `Adventure` | `playStory` and `printWinPath` |
| `AdventureProperties` | The properties of `Adventure`, with reachability and winning paths as reference definitions |
| `AdventureProofs` | That files are refused exactly, conditions hold, and the search lists ways to win, one for each choice that wins, for any file and story |
| `MCAdventure` | The files that the runs read |

The modules are layered: `ExchangeSql` with one client implements `Exchange`, `Exchange`
implements `Market`, and `Requests` extends `Exchange` with the connections its requests come
over. `Ups` implements `Parcels`; `Wire` carries the messages whose arrival `Ups` takes for
given.

### Exchange

State: `opened`, `balance` and `position` are the table ACCOUNT (the row with the
symbol NOSYMBOL holds the balance); `orders` is TRANSACTION, a sequence indexed by
TransID; `executed` is EXECUTED; `clock` is `time(nullptr)`; `buying`, `selling` and
`matching` are the vectors of `matchOrders` and the symbol it runs for.

| Action | Code |
|---|---|
| `CreateAccount`, `CreatePosition` | `create_ACCOUNT`, `update_ACCOUNT_Position` |
| `BuyOrder`, `SellOrder` | `handle_transaction_buyorder`, `handle_transaction_sellorder` and the two SELECTs at the head of `matchOrders` |
| `MatchHeads` | one turn of the loop: two rows of EXECUTED, both orders, the buyer's position, the seller's balance, both vectors |
| `Commit` | the loop's exit and `W.commit()` |
| `CancelOrder` | the `<cancel>` branch and `cancel_order` |
| `Tick` | a second passes |

The loop is a step per turn, since that is where the code keeps the same fact
twice: it writes rows from the copies in its vectors. `ORDER BY` leaves ties open,
so `DescendingOrders` and `AscendingOrders` are sets of answers.

Abstractions: numbers are integers (the code has doubles and writes six decimals);
ExecTime and the XML answers are left out; a refused request and a query change no
table and are stuttering steps. `NumbersAssumption` says that clients send no
negative limits, deposits or grants: the handlers do not test for them.

### ExchangeSql

State: `db` and `executed` are the committed rows; `tx[c]` holds the rows that the
open transaction of client `c` has written, which are also its row locks; `pc[c]`
is the statement it runs next; `local[c]` its variables; `up` is FALSE once an
exception has left a thread. Each statement of each handler that reads or writes
a row another client may write is an action named for what it does. The two
INSERTs into EXECUTED are one step with the UPDATE that follows them: no
other statement reads EXECUTED but a query. A statement that only asks whether an account or
an order exists, where rows are never deleted, is part of its neighbour.

The isolation is READ COMMITTED, PostgreSQL's default. `main.cpp:95` asks for
serializable, but `sql_exec` does so in a transaction of its own, on a connection
that is closed before the first client is accepted. PostgreSQL itself is modelled
from how the code uses it (`Seen`, `UpdateRow`, `InsertRow`, `EndTransaction`,
`DeadlockDetected`): a statement sees committed rows and its own; a writer waits for
the row; a duplicate key or a deadlock raises an exception. `Terminate` is what an
exception in a detached thread does.

All orders carry the same time: the rule for the price is checked in `Exchange`.

### Requests

State: the tables of `Exchange`, and for each connection `wire` (bytes on their way),
`request_copy`, the step of its `thread`, `account` (`myAccountID`), the `children` of the
request not yet taken up, `results` (the children of `<results>` so far), `myOrder` (the row
`get_order` has read) and `answers` (what has been sent back). `script` is what a client
has to ask, `cut` the clients whose segments the network may cut anywhere.

| Action | Code |
|---|---|
| `Send`, `Recv`, `RecvEnds` | the client; `recv` with what it returns; the end of the connection |
| `Extract` | the head of the inner loop: first line, `stoi`, `substr`, `Parse`, and which handler is called |
| `AccountChild` ... `CancelChild` | one turn of the loops of `handle_create` and `handle_transaction`, with its answer |
| `MatchTurn`, `CommitChild` | `matchOrders` and the commit |
| `SelectMax` | `SELECT max(TransID)` and the `<opened>` with it: other clients may have filed and committed orders since this one's INSERT |
| `ReadCanceled`, `ReadExecuted` | the two SELECTs of `get_order`, between which another client's match may commit |
| `Respond` | the answer is sent; the rest of the bytes is the next request, or `substr` throws |

A request is five bytes: a length, a line feed and an XML with a line feed at its end, enough
to cut it in front of, inside and after each part. XML that `tinyxml2` refuses leaves the loop
without an answer. Children of different clients follow each other; the statements inside
them interleave in `ExchangeSql`. One order is matched at a time here, so that the double execution of
`exchange_sql_fills`, a deadlock or a duplicate key that ends the process are not among the courses of this
module, and what is said of answers is said of servers to which they do not happen. Two things that need several
statements of one handler are kept apart: the two reads of `get_order`, and the INSERT of an order and the
SELECT of the largest TransID. The latter belongs to the order's transaction, in front of the loop;
it is taken after the commit, which lets it find the same orders: the order's own and
any that others filed after it.

### Ups

State: `ackedA` and `ackedW` are `seqNumAcked_amazon` and `seqNumAcked_world`, maps from
numbers to flags; `truckList` the vector; `TRUCK` and `PKG` the tables (`truckID` -1 is a
package without a truck, -2 a delivered one, as in the code); `workers` the detached
threads by message and copy, each with the step it runs next and its handler's
variables; `nextQuery` is `local_seqNum`. `accepted` and `told` are what the world and
Amazon have been sent and have taken in, `received` what has reached the server.

| Action | Code |
|---|---|
| `handle_AUrequests`, `handle_WUrequests` | the listeners: first seen or not, flag put down, worker started |
| `AmazonAcks`, `WorldAcks` | the acknowledgements the message constructors read |
| `ScanTrucks`, `TakeTruck`, `RecordTruck`, `InsertPackage` | `assign_truck` and `handle_AUreqPickup` |
| `ReadDestination`, `ReadTruck`, `SendCommand` | `handle_AUreqDelivery`, and the loop that resends a command |
| `CheckChange`, `ChangeDestination` | `handle_AUchangeDestn` |
| `ReadWarehouse`, `WriteTable`, `WriteList`, `GetShips` | `assign_wh` and `handle_UFinished`, `handle_UTruck` |
| `MarkDelivered`, `handle_UErr`, `TellAmazon` | `handle_UDeliveryMade`, `handle_UErr`, and the loop that resends an answer |
| `keep_querying`, `handle_disconnect_world`, `handle_disconnect_amazon` | the third thread; the two ends of a disconnect |

A step is one read or write of a row, of the list or of a map; the workers'
steps interleave freely. Neither peer keeps a copy of a message that matters: both
send again until acknowledged, so a message of theirs may arrive whenever it could
have been sent, and any number of times. The world drops commands (its flakiness) and
obeys each number once. A disconnect ends the process with the workers it still has.
An exception in a worker ends it too (`Terminate`).

Left out: sockets and database connections that fail, coordinates, item lists, login,
and what two threads inside one `std::map` operation do to its tree.

### StoryFile and Adventure

A line is a record of what its parser returns, or "malformed"; `readAStory` folds the
lines into `story` and applies the checks that follow the last line. `Adventure` reads
one file, then plays (`Turn`, `LastPage`: `gadgets`, `current`) or searches (`TakeUp`,
`PrintPaths`: `visited`, and `todo` for the two stacks of pages and of choices). Inputs that the
reader is asked for again are left out. A read beyond the end of a vector is
undefined behaviour; it ends the model in the phase "undefined". A file without a page
is undefined before anything else, and is not among the files. Text is left out.

### Messages and Wire

`WorldMessages` and `AmazonMessages` are the generated classes as tables: for each class the
fields with their kinds, the field each tag of `_InternalParse` leads to, and the order and
rule (required, optional, repeated) in which `_InternalSerialize` and `ByteSizeLong` go
through them. Reading and writing are tables of their own, since the generator writes
them as code of their own. `Messages` interprets them: a message is a function from the fields
that are set; numbers are varints, negative ones of ten bytes; unknown bytes are kept.

`Wire` is one of four links (world or Amazon, in or out). Outgoing frames are checked as they
are sent; on incoming ones `ReadSocket` takes any part of what is on its way, `Connect` reads the
greeting with a stream of its own, `Listen` takes frames and hands messages on. A frame
that lacks a required field is refused but stays in the message object, as in the code.
What a stream has read ahead is lost when it goes; if that cuts a frame, the listener reads
askew, and the model ends there ("astray").

### RideSharing

State: `ride_owner` is the table, `ride_sharer` the passengers of each user's last search,
`page` the button a user has before him, `request` what the server does for him. `careful` says
whether users take turns and act on fresh pages, or load pages, wait and press at once; it is no more
than that: a user who takes turns types any number into the form of a change, and searches
again whenever he likes. `owed` is a history variable: the seats of each ride that its owner and its sharer count on, and
whether a cancellation has taken off more than its sharer still had.

| Action | Code |
|---|---|
| `LoadPage`, `Buttons` | the list, search and status views with the conditions of their templates |
| `CreateRide`, `SearchRide` | `RideOwnerCreateView`, `RideSharerSearchView` |
| `Press` | a button or the form of a change is sent |
| `ReadRow`, `SaveRow`, `DeleteRow` | the two halves of every other view: `get_object` and `save()` or `delete()` |

### Processor

State: both memories with the registers of their ports (`address_reg`, `q_imem`,
`dmem_address_reg`, `q_dmem`), `pc`, `regs`, the dividers `clk_two` and `clk_four`, `reset`; `ticks`
counts up to 4 since the reset rose. `Tick` is one rising edge of the board's clock, with the edge of
the divided clock when it falls on it; `AssertReset` and `ReleaseReset` may come at any tick. The
combinational part (`Result`, `Overflow`, `WriteReg`, `WriteData`, `PCInput`) is a function of the
instruction and the registers; gates and adders are modelled by what they compute. The
instruction is the record of its fields. `and` and `or` go through the bits.

## Runs

| Run | Question | Bounds |
|---|---|---|
| `exchange` | Do all invariants and action properties of the serial server hold, and does it implement `Market`? | 2 accounts (symmetric), 1 symbol, 2 limits, orders of 1 or 2 shares, 3 orders, 2 seconds: partial fills on both sides, one order meeting two, equal and unequal limits, self-trades, orders of the same and of different age |
| `exchange_sql` | Every interleaving of statements: locks, cancellations, does every request end; do clients with nothing in common disturb each other; does a client alone get `Exchange`? | 2 clients, 3 orders of 1 or 2 shares, in three courses: together at an account that one of them opens while the other uses it; side by side at an account and a symbol each; one of them alone, for 2 accounts, from an empty database. Deadlocks and unique violations included; 429 thousand states |
| `exchange_sql_fills` | Is the server as good as serial for two sells that meet one buy? **Violated** | 2 clients |
| `requests` | Does every response answer its request, is it true as far as the code makes it, does it add up, and is every request that arrives whole answered? | 2 connections with up to 3 requests each in three scripts: a seller and a buyer, one trader on two connections, everything that is refused; one connection's segments cut anywhere |
| `ups` | Is every message acted on once, every peer heard before a worker stops, no truck announced that is not there, a delivery never undone; does the server implement `Parcels` and end what it begins? | 7 courses of business (below), 3 trucks in 2 stations of at most 2, 1 query, 2 workers for a status report, numbers of the peers that do not meet |
| `ups_keys` | Is every first-seen request handled when both peers count from small numbers? **Violated** | 1 package, delivered and redirected |
| `wire` | Do sizes and bytes of every class agree, is what was written read back, and are frames handed on whole and in order? | 4 links, at most 2 greetings and 2 frames of up to 5 messages each; every class, negative numbers, varints of one to three bytes, empty and incomplete messages; the socket gives 1 to 40 bytes at once |
| `rides` | In which ways does anybody lose seats, and does a confirmed ride stay? | 3 users (symmetric), each owner, sharer and driver; 1 ride, 1 or 2 passengers, 2 users with a page or a request at once; 2.8 million states |
| `processor` | Does each edge that is not too early after a reset execute the instruction at pc, and does nothing else reach the data memory from the fourth tick after a reset began? | words of 3 bits, 4 addresses: every program of three instructions out of 17 behind a counting one, and some that begin with the memory; resets at any tick; 1.6 million states |
| `processor_shift` | Does a shift write its register? **Violated** | the same programs |
| `adventure` | Are exactly the bad files refused, do conditions hold, are listed paths winning paths, does one lead to each page that can be won, when does the search end? | all stories of 4 pages with at most 2 choices on each of 2 pages; all of 5 pages with 2 choices on each of 3, the last one's fixed; a good file with any line changed or two exchanged; stories with 2 gadgets of 3 values; numbers with gaps; 3 turns of the reader |
| `adventure_ways` | Does the program print every cycle-free way to win, of a story with unreachable pages too? **Violated** | one story of 9 pages: two ways to win that meet before the end, two pages that only lead to each other |

Three orders are the least with which one order fills part of another and meets a
third; a fourth adds no new relation between the heads of the vectors. The bounds
that cut counters are `MaxOrders`, `MaxTime` and `MaxShares`; they bound what
clients ask, and never stop a request that has begun. `CHECK_DEADLOCK FALSE` is set since
a server with all its orders placed has nothing left to do, and a story that is
played or searched to its end neither.

The seven courses of `ups` are the least sets of requests for each pair of handlers that
share something: two pickups at one warehouse racing for a truck, two at different
warehouses, one package asked for under two numbers at one warehouse, the same at another
warehouse and with its delivery, a delivery with a change of destination, a warehouse
without a truck with two users to bind, and a pickup watched by a query and cut off by
a disconnect. `Stride` stands for the 5 trucks of a warehouse; `MaxQueries` and `MaxCopies`
bound what is otherwise repeated for ever; a repeated message needs no bound, since
it leaves the maps as they are. Stories of five pages are the least in which two
paths over different pages meet before a page that is won; four pages have every kind of cycle.

One ride is enough for `rides`, since no view touches two; three users are the least with which
two strangers meet at a third one's ride. Three bits are the narrowest word in which
the sign, a value and a carry differ; a program that wraps around four addresses meets each
instruction before and after each other one.

What the violated runs show:

- `exchange_sql_fills`: two sells read the same open buy and both execute it in
  full. A serial order would not allow it, and `main.cpp:95` asks for serializable.
- `ups_keys`: Amazon's requests and the world's reports share one map, so a change or
  bind whose number a report has used is taken for a repeat and never answered
  (`gpb_server.cpp:242`, comment at 200-203).
- `processor_shift`: the overflow of `alu.v:19` compares the sign of the sum of the operands with that of
  whatever result was selected, so a shift may be written to register 30 (`processor.v:213`);
  `halfTestCases.s:8` expects it in its own. `ExecutesProgram` says that nothing else goes wrong then.
- `adventure_ways`: the README of the game asks for every cycle-free way to win (282-307) and says that
  a page may be revisited on another path (341-348), and it allows stories with pages that cannot be reached
  (253-255). The program takes a page up once (`cyoa.cpp:279`), so that of two ways that meet it lists
  one; and its loop stops only when all pages are visited, so that in such a story it takes the
  `back()` of an empty vector (`cyoa.cpp:261`). `grade.txt` reports the tests of both as failed. What the
  program does list is told by `PathsWin` and `ListsEachWayOnce`.

The models show further disagreements that no run is spent on:

- two orders of the same second: the comparison gives a tie to the buy, so a sell that came
  first trades at the younger buy's limit (`database_func.cpp:508-509`, `dangerlog.log:37`);
- `SELECT max(TransID)` may return the order of another client (`database_func.cpp:331`; the comment
  there and `dangerlog.log:15` suspect it). `Requests` lets it happen, and `AnswersAreTrue` says what is left: the
  number is that of the order asked for or of a later one, comes after every number the connection was
  told before, and is right for a client while no other client asks for orders;
- the check and the update of a destination are two transactions, and the delivery may be
  recorded between them (`gpb_server.cpp:558`, comment at 553);
- the README of the game has pages numbered 0, 1, 2 and so on, and each but the first led to by a choice of an
  other page (README:87-97, 250); `readAStory` accepts increasing numbers with gaps and pages that only
  they themselves lead to, so `RefusesExactly` speaks of files that keep these two rules;
- a gadget that no page sets has the value 0 (README:417-418), yet the program lets every choice on it through
  (`cyoa.cpp:690-693`), so `ConditionsHold` speaks of gadgets that some page sets;
- `ridesharer_status.html:11` asks a sharer to cancel before he searches again, and nothing holds him
  to it: a cancellation takes off the passengers of the latest search (`views.py:195-198`), and the owner's form
  sets any number over what sharers have added (`views.py:68-73`);
- a reset clears the PC, but neither the memories' registers nor the level of the divided clock
  (`clk_div_four.v:23`): an edge in the tick after a reset executes the instruction fetched before it, and a
  store fetched before still writes, which `ExecutesProgram` and `StoresItsOwn`
  leave out;
- a confirmed ride is undone by a button on a page loaded before, or by a request under
  way (`rideowner_list.html:12` says it cannot be changed): `ConfirmedRideKept` is about users
  who take turns. `driver_status.html:34` misspells `window.location`: the
  button does nothing, and a ride is completed by entering the view's address, which the
  model takes for the button.

In the exchange, the same reads and writes explain other hazards that only clients with separate
accounts are safe from (`UndisturbedApart`, `OrdersKeptApart`): an account overdrawn by two buys,
a refund of shares just executed, and a server ended by two clients creating the same account. These two properties
exclude clients that share an account or a symbol, so they would not catch such a race.

### Fairness

That the matching loop ends needs no fairness in `Exchange`: each turn closes an order
(`TurnsCloseOrders`, proved). `ExchangeSql!Fairness` is weak fairness of
each client's statements, and of the detection of deadlocks, which PostgreSQL
does after a timeout. Nothing is assumed of the arrival of requests. Waiting for a
row that others take again and again is not excluded by weak fairness; the
bound on orders excludes it in the run, and PostgreSQL's first-come queue for
a row in the program.

`Ups!FairSpec` is weak fairness of `Progress`, the disjunction of the workers' steps, the
acknowledgements and the world's reports: threads run on, and a peer that is sent a
message again and again takes one of the copies in the end. Each of these steps changes
something and there are finitely many, so that fairness of the whole lets none
wait for ever; requests, queries and the disconnect are not assumed to come. `Adventure!FairSpec`
is weak fairness of the search, a loop of a thread of its own; a reader need not answer.

`Requests!FairRequestsSpec` is weak fairness of `Serve(c)` for each connection: its thread runs on,
and `recv` returns once there are bytes. Clients need not send, and a connection may fail at
any time. `Wire`, `RideSharing` and `Processor` state no fairness: what a connection must
have handed on is stated of the states in which nothing is left to read (`HandedInOrder`), and the
other two promise nothing about time.

## Proofs

Eight modules hold proofs, each about any values of the constants of its component that
satisfy the component's named assumption, and about runs of any length. What they need of induction
is in `Induction`: TLAPS cannot instantiate an induction theorem for a predicate, but it can for a
set, so `SetInduction` and `BoundedInduction` speak of the set of numbers that have the property. The
same module proves what a sum over a finite set is (`SumIs`), that equal terms have equal sums
(`SumsAgree`) and how a sum changes with one term (`SumChanged`).

### The exchange, serially

`ExchangeProofs`, from `NumbersAssumption` and `AccountsAssumption` (there are finitely many accounts: their
numbers are `long int`s):

| Theorem | Statement |
|---|---|
| `TypeCorrect` | `Spec => []TypeOK` |
| `VectorsAreTheBook` | `Spec => []VectorsMirrorBook` |
| `NobodyOverdraws` | `Spec => []NonNegative` |
| `BookUncrossedBetweenRequests` | `Spec => []NoCrossedBook` |
| `LimitsRespected` | `Spec => []ExecutedWithinLimits` |
| `ClosedForGood` | `Spec => ClosedOrdersStayClosed` |
| `BestTradesFirst` | `Spec => BestLimitsFirst` |
| `EveryTurnClosesAnOrder` | `Spec => TurnsCloseOrders` |
| `AllAccounted` | `Spec => EverythingAccounted` |
| `ServerIsMarket` | `Spec => ImplementsMarket` |

The inductive invariant is `IInv == TypeOK /\ VectorsMirrorBook /\ NonNegative /\
ExecutedWithinLimits`. `NoCrossedBook` is not inductive: that the exit of the loop
leaves nothing to trade follows only if the heads of the vectors are the best
rows of the table, that is if every vector entry equals its row
(`MatchHeads` writes the row from the entry), every active row has an entry, and the
entries are sorted. `VectorsMirrorBook` says so, together with the symbols the
loop does not touch. The argument goes action by action: `BuyOrder` and
`SellOrder` establish it since the SELECTs return a sorted permutation of the active
rows (`FetchedVectors`); `MatchHeads` keeps it since both heads lose the amount
their rows lose, and leave when that is all of it (`AfterMatchMirrors`,
`MatchedBook`); `Commit` turns sortedness and the failed comparison into
`NoCrossedBook`; `CancelOrder` only removes an active row. `NonNegative` needs the
checks before the charge and that amounts moved by a match or a refund are not
negative. `ExecutedWithinLimits` needs the heads' limits to be the rows' limits.

The theorems about steps follow from the same invariant. `ClosedForGood`: the heads are
copies of active rows, so the rows a turn writes were open (`ActiveRows`). `BestTradesFirst`:
sorted vectors without a missing row have the best row at the head (`HeadsAreBest`).
`EveryTurnClosesAnOrder`: the amount is the smaller of the two, so one head is used up.
`ServerIsMarket` is a refinement: under the mapping `Book` a request at rest meets a
settled market (`RestIsSettled`), `BuyOrder` and `SellOrder` are a bid and an ask,
`MatchHeads` a trade of the best with the best although it writes rows from copies
(`MatchIsTrade`), `CancelOrder` a withdrawal; `Commit` and `Tick` change nothing the
market speaks of.

`AllAccounted` sums over accounts, orders and executions. Each action changes at most one balance, one
position and two orders, so that each total is followed by `SumChanged`, and a match by cases on whether buyer and
seller are one account or two (`MatchAccounted`); the shares a seller is paid for are those the
buyer gets, and cash disappears only as `Forfeited`.

`ClosedForGood` and `BestTradesFirst` are of properties that no run checks separately; the
refinement implies them.

### The exchange with concurrent clients

`ExchangeSqlProofs`, from `ExchangeSqlAssumption` (what requests look like, and that a course
opens with whole rows) and, but for the first two, `NumbersAssumption` (no client sends a negative limit, deposit or grant;
the handlers do not test for them):

| Theorem | Statement |
|---|---|
| `LocksHold` | `Spec => []TypeOK` |
| `CancelledForGood` | `Spec => CancelledStaysCancelled` |
| `ApartUndisturbed` | `Spec => []UndisturbedApart` |
| `ApartKept` | `Spec => OrdersKeptApart` |
| `AloneIsSerial` | `Lone => (Spec => ImplementsExchange)` |

`TypeOK` holds the promise of the locks: no row is written by two open transactions. The invariant is
`Inv == Types /\ Locks /\` what each handler's variables are like at each of its steps
(`LocalOK`): the orders in its vectors, and the one it cancels, are orders it has seen. `Locks`
adds that no open transaction holds a cancelled order with its mark removed; that is why
a commit cannot bring one back, whatever copy a match works from. Statements are of four
kinds (read, write a row, insert a row, end the transaction) and each kind has its lemma.

`ApartUndisturbed` and `ApartKept` speak of clients that are `Apart`: no two of them act for one account or trade one symbol. The runs that
expect a violation show what happens to clients that are not. For clients that are, the isolation of READ COMMITTED must be as good as
the serial one although each handler reads first and writes statements later. `AInv` says at which
statement what was read is still so, of the rows a client sees and that belong to its accounts and symbols:

- `Wrote`: its transaction has written only such rows, and nothing at all at the statements that only look;
- `Serves`: its step is one of the handler of its request;
- `StillMissing`: a row it looked for in vain has not appeared, so no INSERT meets a duplicate key;
- `StillFunded`: what `buy_order` and `sell_order` checked still suffices when they charge, and a balance read is the balance;
- `StillOpen`: the order to be cancelled has open what was read, and its mark changes when the handler changes it;
- `StillMirrored`: the two vectors hold the active orders of the symbol, sorted, as they were before the current turn
  (`Rewound` takes back what the turn has written so far, up to three statements of it).

With `Paid` (an order's account and position have their rows), `Settled` (no two committed orders could trade) and what no
open order may owe (`Solvent`), this is inductive: a client's own step follows the handler, and a step of another
client touches no row of it (`OwnRows` and `OwnOrders` stay the same, also at the other's commit). A row is never locked by somebody else, so that
`DeadlockDetected` and a duplicate key are impossible and `up` holds. As in `ExchangeProofs`, `Settled` at the commit follows from
the failed comparison of the heads and the order of the vectors.

`ApartKept` adds `Tallies`: the fills of an open transaction make up for what its orders' amounts have lost since they were
committed, except between the updates of the buying and the selling row, when the lot is still `Due` by the
seller. A commit then adds to EXECUTED what it takes from the orders, whichever other client committed
in between.

`AloneIsSerial` is the refinement that `exchange_sql` checks of its third course: one client, whoever he is and whatever he asks for, who
finds no rows (`Lone`), gets the atomic requests and the turns of the loop of `Exchange`. A lone client is apart from
everybody, so `AInv` and `Tallies` hold of him. `LInv` adds what his handler has made so far of the rows that
`Exchange` has (`Ledger`, all but those of SYMBOL):

- `Draft`: up to the loop, the ledger he sees is the committed one with the row, or the two rows, that the handler has written,
  each written out (`Placed` is the order filed, `Cancelled` and `RefundOf` what a cancellation writes);
- `Checked`: what was tested of the committed ledger before it was changed, so that the guards of
  the step of `Exchange` hold when the mapping comes to take it, some statements later;
- the first vector is one that the second SELECT could be given, a turn's two executions are the last two of `fills`, and
  before the loop there are none.

The mapping shows the committed ledger up to the second SELECT of `matchOrders`, what the transaction has written at the
head of the loop, and in a turn that without the turn's own statements (`Rewind`). `RestShows`,
`LoopShows` and `TurnShows` say so; the rest is one lemma per kind of statement: those before the loop and inside a turn
change nothing (`UnseenStays`, `TurnOpens`, `TurnUnseen`), and a step of `Exchange` is taken by the commit of a <create> or
<cancel> (`CommitsCreate`), the second SELECT (`FetchesAlone`: order, reserve and both vectors at once), the payment of the
seller (`PaysSeller`, one `MatchHeads`) and the commit of an order (`CommitsOrder`). `SerialNumbers` shows that `Exchange` is
given the numbers it assumes. So what `ExchangeProofs` proves of `Exchange` holds, where there are finitely many
accounts, of the handlers as they run, statement by statement.

### Connections and answers

`RequestsProofs`, from the assumptions of `Exchange` and `RequestsAssumption` (requests carry the
attributes their handler reads, which the handlers take for granted, and an account is not a pair of a
symbol and an account):

| Theorem | Statement |
|---|---|
| `RequestsTyped` | `RequestsSpec => []RequestsTypeOK` |
| `ResponsesAnswerTheirRequests` | `RequestsSpec => []AnswersFitRequests` |
| `AnswersTrue` | `RequestsSpec => []AnswersAreTrue` |
| `NoShareUntold` | `RequestsSpec => []AnswersAddUp` |

In `Requests` one order is matched at a time, and so in these theorems. Each change of the tables is then
one of `Exchange`, and its invariant `IInv` is part of this one, `RInv`. The other parts: `Turn`, at most one thread is in
the transaction of an order, and it is while `matching` is not empty; `Sound`, the types of a connection;
`Aligned`, the bytes received and not yet handled, followed by those on the wire, are the tail of
what was sent, beginning at the first byte of the request to be answered next: that is
why a request is never mixed with another, although a segment that ends inside one ends the thread;
`Halfway`, what is left of the children and the results so far are those of that request, result by
result; `Answered`, so are the complete responses. `AnswersTrue` adds `TInv`: what the thread knows
of the row it is about to answer for (`Knows`), that everything said so far is told truly
(`Told`, which no later step undoes, `StillTold`), that no two answers report one account as created
(`AnsweringClashesNot`), and, of the numbers of orders, `Own`: before `SELECT max(TransID)` the thread's own row has the
largest number or a smaller one, and lies beyond all the connection has been told (`Past`). Nothing less would do: that
the number told is the order asked for is false in `Requests` as soon as two clients trade, and holds for
a client when no other asks for an order (`OnlyTrader`). `NoShareUntold` relates what `get_order` read at two different times and needs
`AInv`: `Ledger`, the open amount of an order, the signed sum of its executions and the shares
these show agree in sign and size (`LedgerStep`, from `OpenAmountsExplained`); `Reads`, the row a thread read before
bounds the row as it is now, for a step may only do to an order what `Moves` allows; `Tally`, what was told of an
order is still so, or still a bound; and that the answers of one connection about one order
follow each other (`AnsweringFollows`).

### The UPS server

`UpsProofs`, from `UpsAssumption`:

| Theorem | Statement |
|---|---|
| `ActsOnce` | `Spec => []ActedOnOnce` |
| `HeardFirst` | `Spec /\ []NumbersApart => []HeardBeforeDone` |
| `Typed` | `Spec /\ []ReportsNumbered => []TypeOK` |
| `NeverThrows` | `OneDelivery` implies `Spec => []StaysUp` |
| `WithTheRightTruck` | `Spec /\ []TrucksApart => []RightTruck` |
| `KeepsThePromise` | `Spec => ImplementsParcels` |

`ActsOnce` needs no more than that a message with a worker is remembered in the map its listener
looks at (`OnceInv`), even if numbers clash. `HeardFirst` needs that they do not:
`NumbersApart` says that no two messages received share the number their command is resent
under, that queries are numbered above them, and that no two share the number their answer is resent
under; the numbers of the `ups` run are such. `ups_keys` shows what a clash of a request with a report does.
Its invariant adds where each kind of worker can be (`WorkersInv`) and
that a flag is up only for what has been obeyed or told, by a worker that still stands
behind it (`HeardInv`).

`TravelInv` says what each worker's message and variables have to do with the tables: a package
named in a report has been sent out, a truck that is read from the table is there, and what was sent or told
stays so (`Stable`). The other theorems add to it:

- `Typed`: maps and commands bear natural numbers (`NumbersInv`). `ReportsNumbered` is about how the world numbers
  its reports, which the model leaves to a constant.
- `NeverThrows`: a handler that would throw looks for a package that is gone; `SourceInv` says each command has its
  worker, so that with one delivery per package nothing is gone too early (`NotOut`). Without `OneDelivery` the server
  does throw: a second delivery of one package finds its truckID at delivered.
- `WithTheRightTruck`: a truck stands for the warehouse it was taken for (`HomeInv`) and an arrival is
  the answer to a pickup (`ArriveInv`). `TrucksApart`, no truck is taken for two warehouses, is what
  `assign_truck` does not promise: see the hazard at `gpb_server.cpp:416`.
- `KeepsThePromise` has no hypothesis: the stages of a package follow from its row and from what the peers were
  sent (`StagesInOrder`), and each worker's step makes one of them or none.

### The ride sharing site

`RideSharingProofs`, from `SeatsAssumption`:

| Theorem | Statement |
|---|---|
| `TableTyped` | `Spec => []RidesTypeOK` |
| `SeatsLostByOverdrawingOnly` | `Spec => []SeatsKept` |
| `ConfirmedForGood` | `Spec => ConfirmedRideKept` |

`SeatsKept` counts what each side may count on: an owner what his last form stated, a sharer what he joined with or what
a later form has left of it; and it promises nothing from a cancellation that takes off more than that until
the next form. That these are the only two ways to lose seats, however rides are joined over others, changed and cancelled, is the
theorem. The invariant is `IInv == TypeInv /\ OneAtATime /\ SeatsKept`. `OneAtATime` is what users who take turns
give: while one is served nobody else is, and what he has read is what is there, so that
the condition under which his page showed the button still holds when the row is saved.

### The processor

`ProcessorProofs`, from `ProcessorAssumption` and, since the provers know nothing of
powers, the two facts of `PowersAssumption`:

| Theorem | Statement |
|---|---|
| `WidthsKept` | `Spec => []ProcessorTypeOK` |
| `InstructionInTime` | `Spec => FetchesInTime`: an edge finds the instruction at pc, unless it comes in the very tick after a reset began |
| `OnlyTheProgramStores` | `Spec => StoresItsOwn` |
| `InstructionsAreRight` | `Spec => ExecutesProgram` |

The invariant `Phases` says what each phase of the two dividers has seen of the instruction at pc, by
the ticks since the reset; a store drives the same lines as long as it writes no register, so
the memory takes the same word four times. The guards on `ticks` are what a reset needs: one tick
until an edge finds its instruction, two or three until a store or a load is whole, and four until no store fetched before
the reset is left in the memory's registers. Words stay within their width since a sum over bits is below
the power of their number (by `BoundedInduction`). `InstructionsAreRight` compares, opcode by opcode, what
control lines, multiplexers, ALU and overflow exception of `Processor` put out with the instruction set of
`ProcessorProperties`, which is stated on signed numbers and on bits: two's complement addition and its
overflow, the comparison behind `blt`, shifts, sign extension of the immediate, and the next pc.

### The adventure game

`AdventureProofs`, from `AdventureAssumption`:

| Theorem | Statement |
|---|---|
| `RefusedForGood` | `Spec => []RefusesExactly` |
| `StoriesTyped` | `Spec => []TypeOK` |
| `NoChoiceAgainstItsCondition` | `Spec => []ConditionsHold` |
| `LovelyPathsAreWays` | `Spec => []LovelyPathsWin` (the first half of `PathsWin`) |
| `WonPagesListed` | `Spec => []PathsWin` |
| `ListsEachWayOnce` | `Spec => []OneWayAnEntrance`: each choice that wins is at the end of exactly one listed path |

What `readAStory` has built after n lines is related to the lines read so far, and whether it has refused to
the rules broken among them, by induction over n: a line that breaks no rule leaves a story that
matches its lines, one that does ends the reading, and the checks after the last line find the rules that speak of
the whole file. For the conditions, the gadgets have at all times the values their last setters gave them
(`PlayInv`; `LastSetter` says there is a last one). For the search, every path on the stack begins at page 0 and goes
on by choices that are there (`Chain`), and all its pages but the last have been visited, are neither won nor
lost, and differ (`TakenUp`): a page that is taken up at its first visit cannot be one of them, and a won page
neither.

`WonPagesListed` adds that no story is called unwinnable that can be won, nor any page of it, and `ListsEachWayOnce` how far the
list goes, which is less than the game's README asks for: each winning choice of a page that can
be reached ends exactly one listed path. `ListInv` says that no two paths, on the stack or on the list, came to their last page by the same
choice of the same page (`Once`), and that each winning choice of a page taken up is covered by one of them
(`NoneMissed`): the extensions of a page at its first visit are new, since nothing came from it before, and a path that
is dropped, at a lost page or at a page taken up before, did not come by a winning choice. When the search stops, as many pages have been
taken up as there are, and all of them are pages, so all have been; pages that can be reached are among them
(`ReachablePages`), and those that are won or lost have no choices (`StoryDead`, again by induction over the lines).

### Only model-checked

- All liveness (`RequestsEnd` of both servers, `SearchEnds`, `WholeRequestsAnswered`): fairness and
  ENABLED are out of the prover's reach.
- `Wire` and the messages, whose codecs are RECURSIVE operators.

## What could come next

`AloneIsSerial` could be carried over to clients that are apart: each of them has an `Exchange` of its own. With recursive functions in place of the RECURSIVE operators of `Messages` the framing of `Wire` could be proved. A third
order size and a second symbol in `exchange_sql` need a reduction of its interleavings first.

## Not modelled, and why

- The UPS website: each form reads a row of PKG and saves the whole of it, so that it may undo
  what a handler wrote meanwhile (`views.py:68`). As one more writer of those rows it
  would break the promise of `Parcels` on every course; nothing in the repository says what
  the two promise each other.
- What `tinyxml2` does with a document, and the wording of answers: it is used as a parser of whole
  documents.
- Restart: `main` drops all tables, nothing is recovered.
- Doubles and their six decimals: integers stand for them.
- Failing sockets and database connections of the UPS server, and a `std::map` torn by two
  threads: an operation on a map, and the sending of a frame, are atomic.
- Groups and fixed-width fields of the wire format, which the messages do not use.
- Registration and profiles of the ride sharing site; destinations, times and vehicles, which suit everyone in the model.
- The end of the input in the adventure game, whose loop then never ends.
- The robot's single callback, the MATLAB scripts and the kernel module: no control worth a state machine,
  or outside what this development is about.
