------------------------------ MODULE OrderPage ------------------------------
(***************************************************************************)
(* A page that places orders: SellFragment with its view and SellViewModel *)
(* (one order, or a quantity split into several), or IpoOrderActivity with *)
(* IpoViewModel.  Its requests go through the request table of Client, and *)
(* everything here runs on the main thread, so a method or a callback is   *)
(* one step, the observers it wakes included.                              *)
(***************************************************************************)
EXTENDS Integers, Sequences, SequencesExt

CONSTANTS
  Stocks,      \* stocks the user can look up
  Held,        \* those in whose market the user has an account
  None,
  Pages,       \* "several": TradeSeveralView1, "single": TradeView1, "ipo": IpoOrderActivity
  Quantities,  \* quantities the user types
  MaxRequests, \* bound on requests
  MaxBreaks    \* bound on broken connections

ASSUME PageAssumption ==
  /\ Held \subseteq Stocks /\ None \notin Stocks
  /\ Pages \subseteq {"several", "single", "ipo"}
  /\ Quantities \subseteq Nat /\ MaxRequests \in Nat /\ MaxBreaks \in Nat

VARIABLES
  page,       \* which of them
  inOrder,    \* TRUE: the server answers in the order it is asked
  state,      \* Client.state: "LOGIN" or "DISCONNECT"
  server,     \* requests with a callback in the table that the server has not answered
  made,       \* number of requests tried
  breaks,     \* number of broken connections
  data,       \* AbsTradeView._data
  firstHq,
  price,      \* stock whose newest price is in the price field
  available,  \* what the largest quantity was computed for: a stock and a price
  num,        \* quantity field
  dialog,     \* the confirmation on the screen
  vm,         \* of the view model: total, temp, collection, the last result, the busy dialog
  batch,      \* history: the orders of the last batch
  cancelled,  \* history: the user has put a busy dialog away
  refused,    \* history: a request for this stock's quote or quantity has failed
  lost        \* history: a connection has broken with requests on their way

clientVars == <<state, server, made, breaks, lost>>
viewVars == <<data, firstHq, price, available, num>>
vars == <<page, inOrder, clientVars, viewVars, dialog, vm, batch, cancelled, refused>>

NoQuantity == [stock |-> None, price |-> None]
NoBatch == [no |-> 0, asked |-> 0, lines |-> <<>>, over |-> FALSE, lost |-> FALSE]

Init ==
  /\ page \in Pages /\ inOrder \in BOOLEAN
  /\ state = "LOGIN" /\ server = <<>> /\ made = 0 /\ breaks = 0
  /\ data = None /\ firstHq = FALSE /\ price = None /\ available = NoQuantity /\ num = 0
  /\ dialog = None
  /\ vm = [total |-> 0, temp |-> 0, collection |-> <<>>, result |-> <<>>, busy |-> FALSE]
  /\ batch = NoBatch
  /\ cancelled = FALSE /\ refused = FALSE /\ lost = FALSE

Asked(what) == \E i \in 1..Len(server) : server[i].what \in what
-----------------------------------------------------------------------------
(* Client.                                                                 *)

\* send() and sendBiz(): what is asked without a login goes nowhere.
send(requests) ==
  /\ made + Len(requests) <= MaxRequests
  /\ made' = made + Len(requests)
  /\ server' = IF state = "LOGIN" THEN server \o requests ELSE server
  /\ UNCHANGED <<state, breaks, lost>>

Break ==
  /\ state = "LOGIN" /\ breaks < MaxBreaks
  /\ state' = "DISCONNECT" /\ breaks' = breaks + 1
  /\ server' = <<>>
  /\ lost' = (lost \/ server # <<>>)
  /\ batch' = [batch EXCEPT !.lost = @ \/ Asked({"order"})]
  /\ UNCHANGED <<page, inOrder, made, viewVars, dialog, vm, cancelled, refused>>

\* The session is resumed on the next connection.
Resume ==
  /\ state = "DISCONNECT"
  /\ state' = "LOGIN"
  /\ UNCHANGED <<page, inOrder, server, made, breaks, lost, viewVars, dialog, vm, batch, cancelled,
                 refused>>
-----------------------------------------------------------------------------
(* The view model.                                                         *)

\* Mutant: what comes after the report is counted too.
CountsLateAnswers(v, line) ==
  LET more == [v EXCEPT !.collection = Append(@, line), !.temp = @ + 1] IN
  IF more.temp # more.total THEN more
  ELSE [more EXCEPT !.result = more.collection, !.busy = FALSE]

collect(v, line) ==
  LET more == [v EXCEPT !.collection = Append(@, line), !.temp = @ + 1] IN
  IF v.temp >= v.total THEN v
  ELSE IF more.temp < more.total THEN more
  ELSE [more EXCEPT !.result = more.collection, !.busy = FALSE]

\* collect() for one line after the other.
collectAll(v, lines) ==
  LET after[i \in 0..Len(lines)] == IF i = 0 THEN v ELSE collect(after[i - 1], lines[i])
  IN  after[Len(lines)]

Line(item, qty) == [no |-> batch.no + 1, item |-> item, qty |-> qty]
Lines(count, qty) == [i \in 1..count |-> Line(i, qty)]

\* The orders of a batch in their order, sendBiz() for each, which refuses at once without a login.
place(lines, asked) ==
  /\ batch' = [no |-> batch.no + 1, asked |-> asked, lines |-> lines,
               over |-> Asked({"order"}), lost |-> FALSE]
  /\ send([i \in DOMAIN lines |-> [what |-> "order", stock |-> data, line |-> lines[i]]])

\* total is the number of items, raised to raised after they are sent and before the rest is.
Split(items, rest, raised) ==
  LET begun == [vm EXCEPT !.busy = TRUE, !.temp = 0, !.total = Len(items), !.collection = <<>>] IN
  /\ place(items \o rest, dialog.num)
  /\ vm' = IF state = "LOGIN"
           THEN [begun EXCEPT !.total = raised]
           ELSE collectAll([collectAll(begun, items) EXCEPT !.total = raised], rest)

\* Mutant: one share left over is not worth an order.
LosesRemainder(qty, items, remainder) ==
  LET rest == IF remainder > 1 THEN <<Line(items + 1, remainder)>> ELSE <<>> IN
  Split(Lines(items, qty), rest, items + Len(rest))

\* Mutant: total stays at the number of items.
CountsItemsOnly(qty, items, remainder) ==
  Split(Lines(items, qty), IF remainder # 0 THEN <<Line(items + 1, remainder)>> ELSE <<>>, items)

transactionSeveral(qty, items, remainder) ==
  LET rest == IF remainder # 0 THEN <<Line(items + 1, remainder)>> ELSE <<>> IN
  Split(Lines(items, qty), rest, items + Len(rest))

transaction(qty) ==
  /\ place(<<Line(1, qty)>>, dialog.num)
  /\ vm' = [vm EXCEPT !.busy = state = "LOGIN"]
-----------------------------------------------------------------------------
(* What the user does.  A busy dialog or a confirmation takes every touch. *)

Free == ~vm.busy /\ dialog = None

\* Six digits in the code field, or a touch on a stock the user holds.
Search(s) ==
  /\ page # "ipo" /\ Free /\ state = "LOGIN"
  /\ send(<<[what |-> "search", stock |-> s]>>)
  /\ vm' = [vm EXCEPT !.busy = TRUE]
  /\ UNCHANGED <<page, inOrder, viewVars, dialog, batch, cancelled, refused>>

\* The quantity is typed and the button pressed; single is that of one order.
submit(n, single) ==
  /\ page # "ipo" /\ Free
  /\ data \in Held /\ price # None
  /\ page = "several" => single # 0 /\ single <= n
  /\ num' = n
  /\ dialog' = [stock |-> data, price |-> price, num |-> n, single |-> single,
                quiet |-> ~Asked({"search", "quote"})]
  /\ UNCHANGED <<page, inOrder, clientVars, data, firstHq, price, available, vm, batch, cancelled,
                 refused>>

\* The times and the remainder were computed with the dialog; the rest is read off the page now.
Confirm ==
  /\ dialog # None
  /\ IF page = "several"
     THEN transactionSeveral(dialog.single, dialog.num \div dialog.single,
                             dialog.num % dialog.single)
     ELSE transaction(num)
  /\ dialog' = None
  /\ UNCHANGED <<page, inOrder, viewVars, cancelled, refused>>

Decline ==
  /\ dialog # None /\ dialog' = None
  /\ UNCHANGED <<page, inOrder, clientVars, viewVars, vm, batch, cancelled, refused>>

\* The new stocks on the list, all of them, and no dialog.
IpoSubmit(count) ==
  LET lines == Lines(count, 1)
      begun == [vm EXCEPT !.temp = 0, !.total = count, !.collection = <<>>] IN
  /\ page = "ipo" /\ count # 0
  /\ place(lines, count)
  /\ vm' = IF state = "LOGIN" THEN begun ELSE collectAll(begun, lines)
  /\ UNCHANGED <<page, inOrder, viewVars, dialog, cancelled, refused>>

\* The busy dialog is cancelable.
PutAway ==
  /\ vm.busy
  /\ vm' = [vm EXCEPT !.busy = FALSE] /\ cancelled' = TRUE
  /\ UNCHANGED <<page, inOrder, clientVars, viewVars, dialog, batch, refused>>
-----------------------------------------------------------------------------
(* The callbacks.                                                          *)

\* Request i is answered.
Answered(i) ==
  /\ i \in 1..Len(server) /\ (inOrder => i = 1)
  /\ server' = RemoveAt(server, i)
  /\ UNCHANGED <<page, inOrder, state, breaks, dialog, cancelled, lost>>

\* A request follows from the callback of request i.
AnsweredThenSent(i, request) ==
  /\ i \in 1..Len(server) /\ (inOrder => i = 1)
  /\ made < MaxRequests /\ made' = made + 1
  /\ server' = Append(RemoveAt(server, i), request)
  /\ UNCHANGED <<page, inOrder, state, breaks, dialog, cancelled, lost>>

\* Mutant: only the first stock makes the page wait for a quote.
FirstStockOnly(s) ==
  /\ data' = s /\ firstHq' = (data = None) /\ refused' = FALSE
  /\ UNCHANGED <<price, available, num>>

setData(s) ==
  /\ data' = s /\ firstHq' = TRUE /\ refused' = FALSE
  /\ UNCHANGED <<price, available, num>>

\* stockEntity, its observer, then loading.
OnSearch(i) ==
  /\ server[i].what = "search"
  /\ AnsweredThenSent(i, [what |-> "quote", stock |-> server[i].stock])
  /\ setData(server[i].stock)
  /\ vm' = [vm EXCEPT !.busy = FALSE]
  /\ UNCHANGED batch

OnSearchFailure(i) ==
  /\ server[i].what = "search"
  /\ Answered(i)
  /\ vm' = [vm EXCEPT !.busy = FALSE]
  /\ UNCHANGED <<made, viewVars, batch, refused>>

\* updateHQ(): the first quote after a stock asks how much of that stock can be traded at this price.
OnQuote(i) ==
  /\ server[i].what = "quote"
  /\ price' = server[i].stock
  /\ IF firstHq /\ data \in Held
     THEN /\ AnsweredThenSent(i, [what |-> "available", stock |-> data, price |-> server[i].stock])
          /\ firstHq' = FALSE
     ELSE /\ Answered(i)
          /\ UNCHANGED <<made, firstHq>>
  /\ UNCHANGED <<data, available, num, vm, batch, refused>>

\* Mutant: the largest quantity is filled in.
FillsQuantity(i) ==
  /\ available' = [stock |-> server[i].stock, price |-> server[i].price]
  /\ num' = CHOOSE q \in Quantities : q # num

setAvailable(i) ==
  /\ available' = [stock |-> server[i].stock, price |-> server[i].price]
  /\ UNCHANGED num

OnAvailable(i) ==
  /\ server[i].what = "available"
  /\ Answered(i)
  /\ setAvailable(i)
  /\ UNCHANGED <<made, data, firstHq, price, vm, batch, refused>>

\* A failed quote is passed over in silence, a failed quantity with a toast.
OnRefused(i) ==
  /\ server[i].what \in {"quote", "available"}
  /\ Answered(i)
  /\ refused' = TRUE
  /\ UNCHANGED <<made, viewVars, vm, batch>>

\* An order, accepted or not: a batch collects either, a single one has a toast for a failure.
OnOrder(i, success) ==
  /\ server[i].what = "order"
  /\ Answered(i)
  /\ vm' = IF page # "single" THEN collect(vm, server[i].line)
           ELSE [vm EXCEPT !.result = IF success THEN <<server[i].line>> ELSE @, !.busy = FALSE]
  /\ UNCHANGED <<made, viewVars, batch, refused>>

Callbacks == \E i \in 1..Len(server) :
  \/ OnSearch(i) \/ OnSearchFailure(i) \/ OnQuote(i) \/ OnAvailable(i) \/ OnRefused(i)
  \/ \E success \in BOOLEAN : OnOrder(i, success)

Gestures ==
  \/ \E s \in Stocks : Search(s)
  \/ \E n, single \in Quantities : submit(n, single)
  \/ Confirm \/ Decline \/ PutAway
  \/ \E count \in Quantities : IpoSubmit(count)

Next == Callbacks \/ Gestures \/ Break \/ Resume

Spec == Init /\ [][Next]_vars
-----------------------------------------------------------------------------
(* Properties.                                                             *)

Requests ==
  [what : {"search", "quote"}, stock : Stocks]
  \cup [what : {"available"}, stock : Stocks, price : Stocks]
  \cup [what : {"order"}, stock : Stocks \cup {None},
        line : [no : Nat, item : Nat, qty : Nat]]

PageTypeOK ==
  /\ state \in {"LOGIN", "DISCONNECT"}
  /\ server \in Seq(Requests) /\ Len(server) <= made /\ made <= MaxRequests
  /\ state = "DISCONNECT" => server = <<>>
  /\ data \in Stocks \cup {None} /\ price \in Stocks \cup {None}
  /\ available \in [stock : Stocks \cup {None}, price : Stocks \cup {None}]
  /\ vm.temp \in 0..vm.total /\ Len(vm.collection) = vm.temp
  /\ page = "ipo" => dialog = None /\ ~vm.busy

Outstanding(no) == \E i \in 1..Len(server) : server[i].what = "order" /\ server[i].line.no = no

\* When the last batch has been answered, whatever the order of the answers and even if the server
\* or the client refused some, its report has each of its orders once, and they come to the quantity
\* that was confirmed.  A batch started over one that is not finished, or cut by a break, may lie.
ReportIsWhole ==
  (page # "single" /\ batch.no > 0 /\ ~Outstanding(batch.no) /\ ~batch.over /\ ~batch.lost)
    => /\ vm.result \in SetToSeqs(ToSet(batch.lines))
       /\ FoldLeft(LAMBDA sum, line : sum + line.qty, 0, vm.result) = batch.asked

\* The page is blocked exactly while a search or an order has no answer, unless the user has put
\* the busy dialog away or a break has swallowed the answer: no order is placed over another.
BusyIsWaiting ==
  (page # "ipo" /\ ~cancelled /\ ~lost) => (vm.busy <=> Asked({"search", "order"}))

\* When all is answered, in the order it was asked, the price is that of the stock on the page, and
\* so is the quantity, computed at that price, unless two searches ran at once.
PageSettles ==
  (inOrder /\ server = <<>> /\ data # None /\ ~refused /\ ~lost)
    => /\ price = data
       /\ (~cancelled /\ data \in Held) => available = [stock |-> data, price |-> data]

\* What is ordered is what the user confirmed, if no search and no quote was on its way when the
\* question was put; all but the quantities of a batch is read again when it is answered.
OrderAsConfirmed ==
  [][(Confirm /\ dialog.quiet /\ state = "LOGIN")
       => \A i \in (Len(server) + 1)..Len(server') :
            /\ server'[i].stock = dialog.stock /\ price = dialog.price
            /\ page = "single" => server'[i].line.qty = dialog.num]_vars
=============================================================================
