--------------------------- MODULE OrderPage_proofs ---------------------------
(***************************************************************************)
(* Safety of a page that places orders, for any stocks, quantities and     *)
(* number of requests and breaks: its types; that what the user confirms   *)
(* is what it orders; that it is blocked exactly while it waits; that,     *)
(* with answers in order, it settles on the stock it shows; and that the   *)
(* report of a batch is whole.  Sequences and collectAll() come first,     *)
(* then one invariant for each of these, each resting on some of those     *)
(* before it.                                                              *)
(***************************************************************************)
EXTENDS OrderPage, SequenceTheorems, FiniteSetTheorems, TLAPS

OrderLines == [no : Nat, item : Nat, qty : Nat]

\* The states of a view model.
VmOK(v) ==
  /\ v \in [total : Nat, temp : Nat, collection : Seq(OrderLines), result : Seq(OrderLines),
            busy : BOOLEAN]
  /\ v.temp <= v.total /\ Len(v.collection) = v.temp

\* The quantities of a confirmation are numbers, and one order is not more than the whole.
DialogOK ==
  /\ page # "ipo"
  /\ dialog.num \in Nat /\ dialog.single \in Nat
  /\ page = "several" => dialog.single # 0 /\ dialog.single <= dialog.num

\* The requests on their way.
ServerOK ==
  /\ state \in {"LOGIN", "DISCONNECT"}
  /\ server \in Seq(Requests) /\ Len(server) <= made /\ made <= MaxRequests /\ made \in Nat
  /\ state = "DISCONNECT" => server = <<>>

\* What the page shows, and the last batch.
ViewOK ==
  /\ page \in {"several", "single", "ipo"}
  /\ data \in Stocks \cup {None} /\ price \in Stocks \cup {None} /\ num \in Nat
  /\ available \in [stock : Stocks \cup {None}, price : Stocks \cup {None}]
  /\ batch \in [no : Nat, asked : Nat, lines : Seq(OrderLines), over : BOOLEAN, lost : BOOLEAN]

TypeInv ==
  /\ ServerOK /\ ViewOK /\ VmOK(vm)
  /\ page = "ipo" => dialog = None /\ ~vm.busy
  /\ dialog # None => DialogOK
-----------------------------------------------------------------------------
(* Sequences, and collectAll().                                            *)

\* Induction over the numbers, for a set: if A were to miss m, adding one would squeeze the
\* numbers of A below m into one place less.
LEMMA Induction ==
  ASSUME NEW A, 0 \in A, \A n \in Nat : n \in A => n + 1 \in A
  PROVE  \A n \in Nat : n \in A
<1> SUFFICES ASSUME NEW m \in Nat, m \notin A PROVE FALSE
  OBVIOUS
<1> DEFINE S == {n \in 0..m : n \in A}
           T == S \ {0}
           next == [n \in S |-> n + 1]
<1>1. next \in [S -> T]
  <2> SUFFICES ASSUME NEW n \in S PROVE n + 1 \in T
    OBVIOUS
  <2>1. n \in Nat /\ n <= m /\ n # m /\ n + 1 \in A
    OBVIOUS
  <2> QED
    BY <2>1
<1>2. S \subseteq 0..m /\ 0 \in S /\ T \subseteq S
  OBVIOUS
<1>3. T = S \ {0}
  OBVIOUS
<1> HIDE DEF S, T
<1>4. IsFiniteSet(0..m)
  BY FS_Interval
<1>5. IsFiniteSet(S)
  BY <1>2, <1>4, FS_Subset
<1>6. IsFiniteSet(T)
  BY <1>2, <1>5, FS_Subset
<1>7. Cardinality(T) = Cardinality(S) - 1 /\ Cardinality(S) \in Nat
  BY <1>2, <1>3, <1>5, FS_RemoveElement, FS_CardinalityType
<1>8. \E x, y \in S : x # y /\ next[x] = next[y]
  <2> HIDE DEF next
  <2>1. Cardinality(T) < Cardinality(S)
    BY <1>7
  <2> QED
    BY <1>1, <1>5, <1>6, <2>1, FS_PigeonHole
<1>9. S \subseteq Nat
  BY <1>2
<1> QED
  BY <1>8, <1>9

\* RemoveAt() closes the gap.
LEMMA RemoveAtProperties ==
  ASSUME NEW S, NEW s \in Seq(S), NEW i \in 1..Len(s)
  PROVE  /\ RemoveAt(s, i) \in Seq(S) /\ Len(RemoveAt(s, i)) = Len(s) - 1
         /\ \A j \in 1..(Len(s) - 1) :
              RemoveAt(s, i)[j] = IF j < i THEN s[j] ELSE s[j + 1]
<1> DEFINE a == SubSeq(s, 1, i - 1)
           b == SubSeq(s, i + 1, Len(s))
<1>1. /\ Len(s) \in Nat /\ i \in Nat
      /\ \A j \in 1..Len(s) : s[j] \in S
  BY ElementOfSeq
<1>2. /\ a \in Seq(S) /\ Len(a) = i - 1
      /\ \A j \in 1..(i - 1) : a[j] = s[j]
  BY <1>1, SubSeqProperties
<1>3. /\ b \in Seq(S) /\ Len(b) = Len(s) - i
      /\ \A j \in 1..(Len(s) - i) : b[j] = s[i + j]
  BY <1>1, SubSeqProperties
<1> HIDE DEF a, b
<1>4. /\ a \o b \in Seq(S) /\ Len(a \o b) = Len(s) - 1
      /\ \A j \in 1..(Len(s) - 1) : (a \o b)[j] = IF j <= i - 1 THEN a[j] ELSE b[j - (i - 1)]
  BY <1>1, <1>2, <1>3, ConcatProperties
<1>5. \A j \in 1..(Len(s) - 1) : (a \o b)[j] = IF j < i THEN s[j] ELSE s[j + 1]
  <2> SUFFICES ASSUME NEW j \in 1..(Len(s) - 1)
               PROVE  (a \o b)[j] = IF j < i THEN s[j] ELSE s[j + 1]
    OBVIOUS
  <2>1. CASE j < i
    BY <1>1, <1>2, <1>4, <2>1
  <2>2. CASE j >= i
    <3>1. j - (i - 1) \in 1..(Len(s) - i) /\ i + (j - (i - 1)) = j + 1
      BY <1>1, <2>2
    <3>2. b[j - (i - 1)] = s[j + 1]
      BY <1>3, <3>1
    <3> QED
      BY <1>1, <1>4, <2>2, <3>2
  <2>3. j < i \/ j >= i
    BY <1>1
  <2> QED
    BY <2>1, <2>2, <2>3
<1>6. RemoveAt(s, i) = a \o b
  BY DEF RemoveAt, a, b
<1> QED
  BY <1>4, <1>5, <1>6

\* Lines() is a sequence of so many lines, and so is the whole of a batch with its rest.
LEMMA LinesProperties ==
  ASSUME NEW count \in Nat, NEW qty \in Nat, NEW last \in OrderLines, batch.no \in Nat
  PROVE  LET s == Lines(count, qty) IN
         /\ s \in Seq(OrderLines) /\ Len(s) = count
         /\ s \o <<last>> \in Seq(OrderLines) /\ Len(s \o <<last>>) = count + 1
         /\ s \o <<>> \in Seq(OrderLines) /\ Len(s \o <<>>) = count
<1> DEFINE s == Lines(count, qty)
<1>1. s = [i \in 1..count |-> Line(i, qty)]
  BY DEF Lines
<1>2. \A i \in 1..count : Line(i, qty) \in OrderLines
  BY DEF Line, OrderLines
<1> HIDE DEF s
<1>3. s \in Seq(OrderLines) /\ Len(s) = count
  BY <1>1, <1>2
<1>4. /\ <<last>> \in Seq(OrderLines) /\ <<>> \in Seq(OrderLines)
      /\ Len(<<last>>) = 1 /\ Len(<<>>) = 0
  OBVIOUS
<1>5. /\ s \o <<last>> \in Seq(OrderLines) /\ Len(s \o <<last>>) = count + 1
      /\ s \o <<>> \in Seq(OrderLines) /\ Len(s \o <<>>) = count
  BY <1>3, <1>4, ConcatProperties
<1> QED
  BY <1>3, <1>5 DEF s

\* collect() keeps the types, raises no busy dialog, and after the last answer puts it away.
LEMMA CollectProperties ==
  ASSUME NEW v, VmOK(v), NEW line \in OrderLines, NEW w, w = collect(v, line)
  PROVE  /\ VmOK(w) /\ w.total = v.total
         /\ w.temp = IF v.temp < v.total THEN v.temp + 1 ELSE v.temp
         /\ w.busy <=> (v.busy /\ (v.temp < v.total => w.temp < w.total))
<1> DEFINE more == [v EXCEPT !.collection = Append(@, line), !.temp = @ + 1]
<1>1. /\ v.collection \in Seq(OrderLines) /\ v.result \in Seq(OrderLines)
      /\ v.temp \in Nat /\ v.total \in Nat /\ v.busy \in BOOLEAN
      /\ Len(v.collection) = v.temp /\ v.temp <= v.total
  BY DEF VmOK
<1>2. /\ Append(v.collection, line) \in Seq(OrderLines)
      /\ Len(Append(v.collection, line)) = v.temp + 1
  BY <1>1, AppendProperties
<1>3. /\ more \in [total : Nat, temp : Nat, collection : Seq(OrderLines),
                   result : Seq(OrderLines), busy : BOOLEAN]
      /\ more.temp = v.temp + 1 /\ more.total = v.total /\ more.busy = v.busy
      /\ Len(more.collection) = more.temp
  <2>1. v \in [total : Nat, temp : Nat, collection : Seq(OrderLines), result : Seq(OrderLines),
               busy : BOOLEAN]
    BY DEF VmOK
  <2>2. /\ more.temp = v.temp + 1 /\ more.total = v.total /\ more.busy = v.busy
        /\ more.collection = Append(v.collection, line) /\ more.result = v.result
    BY <2>1
  <2>3. more \in [total : Nat, temp : Nat, collection : Seq(OrderLines),
                  result : Seq(OrderLines), busy : BOOLEAN]
    <3> DEFINE first == [v EXCEPT !.collection = Append(@, line)]
    <3>1. /\ first \in [total : Nat, temp : Nat, collection : Seq(OrderLines),
                        result : Seq(OrderLines), busy : BOOLEAN]
          /\ first.temp = v.temp
      BY <1>2, <2>1
    <3>2. more = [first EXCEPT !.temp = v.temp + 1]
      BY <2>1
    <3> HIDE DEF first, more
    <3>3. v.temp + 1 \in Nat
      BY <1>1
    <3> QED
      BY <3>1, <3>2, <3>3
  <2> HIDE DEF more
  <2> QED
    BY <1>1, <1>2, <2>2, <2>3
<1> DEFINE done == [more EXCEPT !.result = more.collection, !.busy = FALSE]
<1>4. collect(v, line) = IF v.temp >= v.total THEN v ELSE IF more.temp < more.total THEN more
                         ELSE done
  BY DEF collect
<1> HIDE DEF more
<1>5. /\ done \in [total : Nat, temp : Nat, collection : Seq(OrderLines),
                   result : Seq(OrderLines), busy : BOOLEAN]
      /\ done.temp = more.temp /\ done.total = more.total /\ done.busy = FALSE
      /\ done.collection = more.collection
  BY <1>3
<1> HIDE DEF done
<1>6. CASE v.temp >= v.total
  BY <1>1, <1>4, <1>6
<1>7. CASE v.temp < v.total /\ more.temp < more.total
  BY <1>1, <1>3, <1>4, <1>7 DEF VmOK
<1>8. CASE v.temp < v.total /\ ~(more.temp < more.total)
  BY <1>1, <1>3, <1>4, <1>5, <1>8 DEF VmOK
<1> QED
  BY <1>1, <1>3, <1>6, <1>7, <1>8

\* The states collectAll() goes through exist: each prefix of lines has its own.
LEMMA CollectAllRuns ==
  ASSUME NEW v, NEW lines, Len(lines) \in Nat
  PROVE  \E g : /\ g = [i \in 0..Len(lines) |-> IF i = 0 THEN v ELSE collect(g[i - 1], lines[i])]
                /\ collectAll(v, lines) = g[Len(lines)]
<1> DEFINE IsRun(g, n) == g = [i \in 0..n |-> IF i = 0 THEN v ELSE collect(g[i - 1], lines[i])]
           A == {n \in Nat : \E g : IsRun(g, n)}
           g1 == CHOOSE g : IsRun(g, Len(lines))
<1>1. 0 \in A
  <2>1. IsRun([i \in 0..0 |-> v], 0)
    OBVIOUS
  <2> QED
    BY <2>1
<1>2. \A n \in Nat : n \in A => n + 1 \in A
  <2> SUFFICES ASSUME NEW n \in Nat, NEW g, IsRun(g, n) PROVE \E h : IsRun(h, n + 1)
    OBVIOUS
  <2> DEFINE h == [i \in 0..(n + 1) |-> IF i = n + 1 THEN collect(g[n], lines[n + 1]) ELSE g[i]]
  <2>1. IsRun(h, n + 1)
    <3>1. \A i \in 0..n : h[i] = g[i] /\ g[i] = IF i = 0 THEN v ELSE collect(g[i - 1], lines[i])
      OBVIOUS
    <3>2. h[n + 1] = collect(g[n], lines[n + 1])
      OBVIOUS
    <3> HIDE DEF h
    <3>3. ASSUME NEW i \in 0..(n + 1)
          PROVE  h[i] = IF i = 0 THEN v ELSE collect(h[i - 1], lines[i])
      <4>1. CASE i = n + 1
        BY <3>1, <3>2, <4>1
      <4>2. CASE i \in 0..n /\ i # 0
        <5>1. i - 1 \in 0..n
          BY <4>2
        <5> QED
          BY <3>1, <4>2, <5>1
      <4>3. CASE i = 0
        BY <3>1, <4>3
      <4> QED
        BY <4>1, <4>2, <4>3
    <3>4. h = [i \in 0..(n + 1) |-> h[i]]
      BY DEF h
    <3> QED
      BY <3>3, <3>4
  <2> QED
    BY <2>1
<1>3. \A n \in Nat : n \in A
  <2> HIDE DEF A
  <2> QED
    BY <1>1, <1>2, Induction
<1>4. IsRun(g1, Len(lines))
  BY <1>3
<1>5. collectAll(v, lines) = g1[Len(lines)]
  BY DEF collectAll
<1> QED
  BY <1>4, <1>5

\* So it keeps the types, and when the lines are all that is missing it puts the busy dialog away.
LEMMA CollectAllProperties ==
  ASSUME NEW v, VmOK(v), NEW lines \in Seq(OrderLines), NEW w, w = collectAll(v, lines)
  PROVE  /\ VmOK(w) /\ w.total = v.total
         /\ ~v.busy => ~w.busy
         /\ v.temp + Len(lines) = v.total => w.temp = w.total
         /\ v.temp + Len(lines) = v.total /\ lines # <<>> => ~w.busy
<1>1. Len(lines) \in Nat /\ \A i \in 1..Len(lines) : lines[i] \in OrderLines
  BY ElementOfSeq
<1>2. PICK g : /\ g = [i \in 0..Len(lines) |-> IF i = 0 THEN v ELSE collect(g[i - 1], lines[i])]
               /\ collectAll(v, lines) = g[Len(lines)]
  BY <1>1, CollectAllRuns
<1>3. g[0] = v /\ \A i \in 1..Len(lines) : g[i] = collect(g[i - 1], lines[i])
  <2> DEFINE h == [i \in 0..Len(lines) |-> IF i = 0 THEN v ELSE collect(g[i - 1], lines[i])]
  <2>1. h[0] = v /\ \A i \in 1..Len(lines) : h[i] = collect(g[i - 1], lines[i])
    BY <1>1
  <2>2. g = h
    BY <1>2
  <2> HIDE DEF h
  <2> QED
    BY <2>1, <2>2
<1> DEFINE Good(i) ==
      /\ VmOK(g[i]) /\ g[i].total = v.total
      /\ ~v.busy => ~g[i].busy
      /\ v.temp + i <= v.total => g[i].temp = v.temp + i
      /\ v.temp + i = v.total /\ i # 0 => ~g[i].busy
    A == {i \in Nat : i <= Len(lines) => Good(i)}
<1>4. 0 \in A
  BY <1>3 DEF VmOK
<1>5. ASSUME NEW n \in Nat, n \in A PROVE n + 1 \in A
  <2> SUFFICES ASSUME n + 1 <= Len(lines) PROVE Good(n + 1)
    OBVIOUS
  <2>1. n <= Len(lines) /\ n + 1 \in 1..Len(lines) /\ (n + 1) - 1 = n
    BY <1>1
  <2>2. Good(n)
    BY <1>5, <2>1
  <2>3. g[n + 1] = collect(g[n], lines[n + 1]) /\ lines[n + 1] \in OrderLines
    BY <1>1, <1>3, <2>1
  <2> HIDE DEF A
  <2>4. /\ VmOK(g[n + 1]) /\ g[n + 1].total = g[n].total
        /\ g[n + 1].temp = IF g[n].temp < g[n].total THEN g[n].temp + 1 ELSE g[n].temp
        /\ g[n + 1].busy <=> (g[n].busy /\ (g[n].temp < g[n].total => g[n + 1].temp < g[n + 1].total))
    <3>1. VmOK(g[n])
      BY <2>2
    <3> QED
      BY <2>3, <3>1, CollectProperties
  <2>5. v.temp \in Nat /\ v.total \in Nat
    BY DEF VmOK
  <2>6. g[n].temp \in Nat /\ g[n].total \in Nat
    BY <2>2 DEF VmOK
  <2>7. g[n + 1].total = v.total /\ (~v.busy => ~g[n + 1].busy)
    BY <2>2, <2>4
  <2>8. v.temp + (n + 1) <= v.total => g[n + 1].temp = v.temp + (n + 1)
    <3>1. g[n].total = v.total /\ (v.temp + n <= v.total => g[n].temp = v.temp + n)
      BY <2>2
    <3>2. g[n + 1].temp = IF g[n].temp < g[n].total THEN g[n].temp + 1 ELSE g[n].temp
      BY <2>4
    <3> QED
      BY <2>5, <2>6, <3>1, <3>2
  <2>9. v.temp + (n + 1) = v.total => ~g[n + 1].busy
    BY <2>2, <2>4, <2>5, <2>6
  <2> QED
    BY <2>4, <2>7, <2>8, <2>9
<1>6. \A n \in Nat : n \in A
  <2> HIDE DEF A
  <2> QED
    BY <1>4, <1>5, Induction
<1>7. Good(Len(lines))
  BY <1>1, <1>6
<1>8. v.temp \in Nat /\ v.total \in Nat
  BY DEF VmOK
<1>9. lines # <<>> => Len(lines) # 0
  OBVIOUS
<1> QED
  BY <1>1, <1>2, <1>7, <1>8, <1>9
-----------------------------------------------------------------------------
(* The requests.                                                           *)

\* What a request carries goes by what it asks.
LEMMA RequestKinds ==
  ASSUME NEW r \in Requests
  PROVE  /\ r.what \in {"search", "quote", "available", "order"}
         /\ r.what \in {"search", "quote"} => r.stock \in Stocks
         /\ r.what = "available" => r.stock \in Stocks /\ r.price \in Stocks
         /\ r.what = "order" => r.line \in OrderLines
<1>1. CASE r \in [what : {"search", "quote"}, stock : Stocks]
  BY <1>1
<1>2. CASE r \in [what : {"available"}, stock : Stocks, price : Stocks]
  BY <1>2
<1>3. CASE r \in [what : {"order"}, stock : Stocks \cup {None}, line : OrderLines]
  BY <1>3
<1> QED
  BY <1>1, <1>2, <1>3 DEF Requests, OrderLines

\* send() puts what it sends behind what is there, with a login, and nothing without.
LEMMA SendProperties ==
  ASSUME ServerOK, NEW requests \in Seq(Requests), send(requests)
  PROVE  /\ ServerOK'
         /\ \A i \in 1..Len(server) : i \in 1..Len(server') /\ server'[i] = server[i]
         /\ \A i \in 1..Len(server') : i > Len(server) =>
              i - Len(server) \in 1..Len(requests) /\ server'[i] = requests[i - Len(server)]
         /\ state = "LOGIN" => Len(server') = Len(server) + Len(requests)
         /\ state # "LOGIN" => server' = server
<1>1. Len(server) \in Nat /\ Len(requests) \in Nat /\ made \in Nat /\ server \in Seq(Requests)
  BY DEF ServerOK
<1>2. CASE state = "LOGIN"
  <2>1. server' = server \o requests /\ made' = made + Len(requests) /\ made' <= MaxRequests
        /\ state' = state
    BY <1>2 DEF send
  <2>2. /\ server' \in Seq(Requests) /\ Len(server') = Len(server) + Len(requests)
        /\ \A i \in 1..(Len(server) + Len(requests)) :
             server'[i] = IF i <= Len(server) THEN server[i] ELSE requests[i - Len(server)]
    BY <1>1, <2>1, ConcatProperties
  <2>3. \A i \in 1..Len(server) : i \in 1..Len(server') /\ server'[i] = server[i]
    BY <1>1, <2>2
  <2>4. \A i \in 1..Len(server') : i > Len(server) =>
          i - Len(server) \in 1..Len(requests) /\ server'[i] = requests[i - Len(server)]
    BY <1>1, <2>2
  <2>5. ServerOK'
    BY <1>1, <1>2, <2>1, <2>2 DEF ServerOK
  <2> QED
    BY <1>2, <2>2, <2>3, <2>4, <2>5
<1>3. CASE state # "LOGIN"
  BY <1>1, <1>3 DEF send, ServerOK
<1> QED
  BY <1>2, <1>3

\* An answer takes its request off.
LEMMA AnsweredProperties ==
  ASSUME ServerOK, NEW i \in 1..Len(server), Answered(i), made' = made
  PROVE  /\ ServerOK'
         /\ Len(server) \in Nat /\ Len(server') = Len(server) - 1
         /\ \A j \in 1..Len(server') : server'[j] = IF j < i THEN server[j] ELSE server[j + 1]
<1>1. server' = RemoveAt(server, i) /\ state' = state
  BY DEF Answered
<1>2. Len(server) \in Nat /\ server \in Seq(Requests) /\ server # <<>>
  BY DEF ServerOK
<1>3. /\ server' \in Seq(Requests) /\ Len(server') = Len(server) - 1
      /\ \A j \in 1..(Len(server) - 1) : server'[j] = IF j < i THEN server[j] ELSE server[j + 1]
  BY <1>1, <1>2, RemoveAtProperties
<1> QED
  BY <1>1, <1>2, <1>3 DEF ServerOK

\* ... and the request that follows from it goes to the end.
LEMMA AnsweredThenSentProperties ==
  ASSUME ServerOK, NEW i \in 1..Len(server), NEW request \in Requests, AnsweredThenSent(i, request)
  PROVE  /\ ServerOK'
         /\ Len(server) \in Nat /\ Len(server') = Len(server)
         /\ \A j \in 1..Len(server') :
              server'[j] = IF j = Len(server) THEN request
                           ELSE IF j < i THEN server[j] ELSE server[j + 1]
<1> DEFINE rest == RemoveAt(server, i)
<1>1. server' = Append(rest, request) /\ state' = state /\ made' = made + 1 /\ made < MaxRequests
  BY DEF AnsweredThenSent
<1>2. Len(server) \in Nat /\ server \in Seq(Requests) /\ server # <<>>
  BY DEF ServerOK
<1>3. /\ rest \in Seq(Requests) /\ Len(rest) = Len(server) - 1
      /\ \A j \in 1..(Len(server) - 1) : rest[j] = IF j < i THEN server[j] ELSE server[j + 1]
  BY <1>2, RemoveAtProperties
<1> HIDE DEF rest
<1>4. /\ server' \in Seq(Requests) /\ Len(server') = Len(rest) + 1
      /\ \A j \in 1..Len(rest) : server'[j] = rest[j]
      /\ server'[Len(rest) + 1] = request
  BY <1>1, <1>3, AppendProperties
<1>5. \A j \in 1..Len(server') : server'[j] = IF j = Len(server) THEN request
                                 ELSE IF j < i THEN server[j] ELSE server[j + 1]
  <2> SUFFICES ASSUME NEW j \in 1..Len(server'), j # Len(server)
               PROVE  server'[j] = IF j < i THEN server[j] ELSE server[j + 1]
    BY <1>2, <1>3, <1>4
  <2>1. j \in 1..Len(rest) /\ j \in 1..(Len(server) - 1)
    BY <1>2, <1>3, <1>4
  <2> QED
    BY <1>3, <1>4, <2>1
<1>6. Len(server') = Len(server)
  BY <1>2, <1>3, <1>4
<1>7. MaxRequests \in Nat /\ made \in Nat /\ Len(server) <= made
  BY PageAssumption DEF ServerOK
<1>8. state' # "DISCONNECT"
  BY <1>1, <1>2 DEF ServerOK
<1> QED
  BY <1>1, <1>2, <1>4, <1>5, <1>6, <1>7, <1>8 DEF ServerOK

\* place() asks an order for the stock on the page, one a line.
LEMMA PlaceProperties ==
  ASSUME ServerOK, data \in Stocks \cup {None}, NEW lines \in Seq(OrderLines), NEW asked,
         place(lines, asked)
  PROVE  /\ ServerOK'
         /\ \A i \in 1..Len(server) : i \in 1..Len(server') /\ server'[i] = server[i]
         /\ \A i \in 1..Len(server') : i > Len(server) =>
              /\ i - Len(server) \in 1..Len(lines)
              /\ server'[i] = [what |-> "order", stock |-> data, line |-> lines[i - Len(server)]]
         /\ state = "LOGIN" => Len(server') = Len(server) + Len(lines)
         /\ state # "LOGIN" => server' = server
<1> DEFINE Order(line) == [what |-> "order", stock |-> data, line |-> line]
           requests == [k \in DOMAIN lines |-> Order(lines[k])]
<1>1. send(requests)
  BY DEF place
<1>2. DOMAIN lines = 1..Len(lines) /\ Len(lines) \in Nat
  BY LenProperties
<1>3. \A k \in 1..Len(lines) : Order(lines[k]) \in Requests
  <2>1. \A line \in OrderLines :
          Order(line) \in [what : {"order"}, stock : Stocks \cup {None}, line : OrderLines]
    OBVIOUS
  <2>2. \A line \in OrderLines : Order(line) \in Requests
    BY <2>1 DEF Requests, OrderLines
  <2> QED
    BY <2>2, ElementOfSeq
<1> HIDE DEF Order
<1>4. requests \in [1..Len(lines) -> Requests]
  BY <1>2, <1>3
<1>5. \A k \in 1..Len(lines) : requests[k] = Order(lines[k])
  BY <1>2
<1> HIDE DEF requests
<1>6. requests \in Seq(Requests) /\ Len(requests) = Len(lines)
  BY <1>2, <1>4
<1> QED
  BY <1>1, <1>5, <1>6, SendProperties DEF Order
-----------------------------------------------------------------------------
(* Types.                                                                  *)

\* A batch that begins with count orders.
LEMMA BegunBatch ==
  ASSUME VmOK(vm), NEW count \in Nat,
         NEW w, w = [vm EXCEPT !.busy = TRUE, !.temp = 0, !.total = count, !.collection = <<>>]
  PROVE  VmOK(w) /\ w.temp = 0 /\ w.total = count /\ w.busy
<1>1. vm \in [total : Nat, temp : Nat, collection : Seq(OrderLines), result : Seq(OrderLines),
              busy : BOOLEAN]
  BY DEF VmOK
<1> DEFINE b == [total |-> count, temp |-> 0, collection |-> <<>>, result |-> vm.result,
                 busy |-> TRUE]
<1>2. w = b
  BY <1>1
<1>3. <<>> \in Seq(OrderLines) /\ Len(<<>>) = 0 /\ vm.result \in Seq(OrderLines)
  BY <1>1
<1>4. b \in [total : Nat, temp : Nat, collection : Seq(OrderLines), result : Seq(OrderLines),
              busy : BOOLEAN]
  BY <1>3
<1>5. b.temp = 0 /\ b.total = count /\ b.busy /\ b.collection = <<>>
  OBVIOUS
<1> HIDE DEF b
<1> QED
  BY <1>2, <1>3, <1>4, <1>5 DEF VmOK

\* Its total is raised without more ado.
LEMMA RaisedTotal ==
  ASSUME NEW v, VmOK(v), NEW raised \in Nat, v.total <= raised,
         NEW w, w = [v EXCEPT !.total = raised]
  PROVE  VmOK(w) /\ w.temp = v.temp /\ w.total = raised /\ w.busy = v.busy
<1>1. /\ v \in [total : Nat, temp : Nat, collection : Seq(OrderLines), result : Seq(OrderLines),
                busy : BOOLEAN]
      /\ v.temp <= v.total /\ Len(v.collection) = v.temp
  BY DEF VmOK
<1>2. w \in [total : Nat, temp : Nat, collection : Seq(OrderLines), result : Seq(OrderLines),
             busy : BOOLEAN]
  BY <1>1
<1>3. w.temp = v.temp /\ w.total = raised /\ w.busy = v.busy /\ w.collection = v.collection
  BY <1>1
<1>4. v.temp \in Nat /\ v.total \in Nat
  BY <1>1
<1> QED
  BY <1>1, <1>2, <1>3, <1>4 DEF VmOK

\* A split quantity: with a login the view model waits for as many answers as orders were placed;
\* without one it has collected as many refusals.
LEMMA SeveralEffect ==
  ASSUME VmOK(vm), batch.no \in Nat, state \in {"LOGIN", "DISCONNECT"},
         NEW qty \in Nat, NEW items \in Nat, NEW remainder \in Nat, items # 0,
         transactionSeveral(qty, items, remainder)
  PROVE  \E lines \in Seq(OrderLines) :
           /\ place(lines, dialog.num) /\ VmOK(vm') /\ Len(lines) # 0
           /\ state = "LOGIN" => vm'.busy /\ vm'.temp = 0 /\ vm'.total = Len(lines)
           /\ state # "LOGIN" => ~vm'.busy
<1> DEFINE last == Line(items + 1, remainder)
           rest == IF remainder # 0 THEN <<last>> ELSE <<>>
           first == Lines(items, qty)
           lines == first \o rest
           raised == items + Len(rest)
           begun == [vm EXCEPT !.busy = TRUE, !.temp = 0, !.total = Len(first), !.collection = <<>>]
<1>1. /\ place(lines, dialog.num)
      /\ vm' = IF state = "LOGIN" THEN [begun EXCEPT !.total = raised]
               ELSE collectAll([collectAll(begun, first) EXCEPT !.total = raised], rest)
  BY DEF transactionSeveral, Split
<1>2. last \in OrderLines
  BY DEF Line, OrderLines
<1>3. /\ first \in Seq(OrderLines) /\ Len(first) = items /\ lines \in Seq(OrderLines)
      /\ rest \in Seq(OrderLines) /\ Len(rest) \in Nat /\ Len(lines) = raised
  <2> HIDE DEF last, first
  <2>1. CASE remainder # 0
    <3>1. rest = <<last>> /\ Len(<<last>>) = 1 /\ <<last>> \in Seq(OrderLines)
      BY <1>2, <2>1
    <3> HIDE DEF rest
    <3> QED
      BY <1>2, <3>1, LinesProperties DEF first
  <2>2. CASE remainder = 0
    <3>1. rest = <<>> /\ Len(<<>>) = 0 /\ <<>> \in Seq(OrderLines)
      BY <2>2
    <3> HIDE DEF rest
    <3> QED
      BY <1>2, <3>1, LinesProperties DEF first
  <2> QED
    BY <2>1, <2>2
<1> HIDE DEF last, rest, first, lines
<1>4. raised \in Nat /\ items <= raised
  BY <1>3
<1> HIDE DEF raised
<1>5. VmOK(begun) /\ begun.temp = 0 /\ begun.total = items /\ begun.busy
  BY <1>3, BegunBatch
<1> HIDE DEF begun
<1>6. state # "LOGIN" => VmOK(vm') /\ ~vm'.busy
  <2> SUFFICES ASSUME state # "LOGIN" PROVE VmOK(vm') /\ ~vm'.busy
    OBVIOUS
  <2> DEFINE w1 == collectAll(begun, first)
             w2 == [w1 EXCEPT !.total = raised]
  <2>1. first # <<>> /\ begun.temp + Len(first) = begun.total
    BY <1>3, <1>5
  <2>2. VmOK(w1) /\ w1.total = items /\ ~w1.busy
    BY <1>3, <1>5, <2>1, CollectAllProperties
  <2>3. vm' = collectAll(w2, rest)
    BY <1>1
  <2> HIDE DEF w1
  <2>4. VmOK(w2) /\ ~w2.busy
    BY <1>4, <2>2, RaisedTotal
  <2> HIDE DEF w2
  <2> QED
    BY <1>3, <2>3, <2>4, CollectAllProperties
<1>7. state = "LOGIN" => VmOK(vm') /\ vm'.busy /\ vm'.temp = 0 /\ vm'.total = Len(lines)
  BY <1>1, <1>3, <1>4, <1>5, RaisedTotal
<1>8. Len(lines) # 0
  BY <1>3, <1>4
<1> QED
  BY <1>1, <1>3, <1>6, <1>7, <1>8

\* What a confirmation places, and what the view model waits for.
LEMMA ConfirmEffect ==
  ASSUME TypeInv, Confirm
  PROVE  \E lines \in Seq(OrderLines) :
           /\ place(lines, dialog.num) /\ VmOK(vm') /\ Len(lines) # 0
           /\ state # "LOGIN" => ~vm'.busy
           /\ state = "LOGIN" => vm'.busy
           /\ page = "several" /\ state = "LOGIN" => vm'.temp = 0 /\ vm'.total = Len(lines)
           /\ page # "several" => lines = <<Line(1, num)>>
<1>1. /\ DialogOK /\ VmOK(vm) /\ batch.no \in Nat /\ num \in Nat
      /\ state \in {"LOGIN", "DISCONNECT"}
  BY DEF TypeInv, ServerOK, ViewOK, Confirm
<1>2. CASE page = "several"
  <2> DEFINE items == dialog.num \div dialog.single
             remainder == dialog.num % dialog.single
  <2>1. items \in Nat /\ remainder \in Nat /\ items # 0
    BY <1>1, <1>2 DEF DialogOK
  <2>2. transactionSeveral(dialog.single, items, remainder)
    BY <1>2 DEF Confirm
  <2> HIDE DEF items, remainder
  <2>3. dialog.single \in Nat
    BY <1>1 DEF DialogOK
  <2>4. PICK lines \in Seq(OrderLines) :
           /\ place(lines, dialog.num) /\ VmOK(vm') /\ Len(lines) # 0
           /\ state = "LOGIN" => vm'.busy /\ vm'.temp = 0 /\ vm'.total = Len(lines)
           /\ state # "LOGIN" => ~vm'.busy
    BY <1>1, <2>1, <2>2, <2>3, SeveralEffect
  <2> QED
    BY <1>2, <2>4
<1>3. CASE page # "several"
  <2> DEFINE line == Line(1, num)
  <2>1. place(<<line>>, dialog.num) /\ vm' = [vm EXCEPT !.busy = state = "LOGIN"]
    BY <1>3 DEF Confirm, transaction
  <2>2. line \in OrderLines
    BY <1>1 DEF Line, OrderLines
  <2> HIDE DEF line
  <2>3. <<line>> \in Seq(OrderLines) /\ Len(<<line>>) # 0
    BY <2>2
  <2>4. VmOK(vm') /\ (vm'.busy <=> state = "LOGIN")
    BY <1>1, <2>1 DEF VmOK
  <2> QED
    BY <1>3, <2>1, <2>3, <2>4 DEF line
<1> QED
  BY <1>2, <1>3

LEMMA InitTypes == Init => TypeInv
<1> SUFFICES ASSUME Init PROVE TypeInv
  OBVIOUS
<1>1. ServerOK
  BY PageAssumption DEF Init, ServerOK
<1>2. ViewOK
  BY PageAssumption DEF Init, ViewOK, NoQuantity, NoBatch
<1>3. VmOK(vm) /\ ~vm.busy
  <2>1. vm = [total |-> 0, temp |-> 0, collection |-> <<>>, result |-> <<>>, busy |-> FALSE]
    BY DEF Init
  <2>2. <<>> \in Seq(OrderLines) /\ Len(<<>>) = 0
    OBVIOUS
  <2> QED
    BY <2>1, <2>2 DEF VmOK
<1> QED
  BY <1>1, <1>2, <1>3 DEF Init, TypeInv

LEMMA CallbackTypes ==
  ASSUME TypeInv, NEW i \in 1..Len(server),
         \/ OnSearch(i) \/ OnSearchFailure(i) \/ OnQuote(i) \/ OnAvailable(i) \/ OnRefused(i)
         \/ \E success \in BOOLEAN : OnOrder(i, success)
  PROVE  TypeInv'
<1>1. /\ ServerOK /\ ViewOK /\ VmOK(vm)
      /\ page = "ipo" => dialog = None /\ ~vm.busy
      /\ dialog # None => DialogOK
  BY DEF TypeInv
<1>2. /\ UNCHANGED <<page, dialog>>
      /\ DialogOK' <=> DialogOK
  BY DEF OnSearch, OnSearchFailure, OnQuote, OnAvailable, OnRefused, OnOrder, Answered,
         AnsweredThenSent, DialogOK
<1>3. server[i] \in Requests
  BY <1>1, ElementOfSeq DEF ServerOK
<1>4. /\ server[i].what \in {"search", "quote"} => server[i].stock \in Stocks
      /\ server[i].what = "available" => server[i].stock \in Stocks /\ server[i].price \in Stocks
      /\ server[i].what = "order" => server[i].line \in OrderLines
  BY <1>3, RequestKinds
<1>5. CASE OnSearch(i)
  <2> DEFINE request == [what |-> "quote", stock |-> server[i].stock]
  <2>1. request \in Requests
    BY <1>4, <1>5 DEF OnSearch, Requests
  <2>2. ServerOK'
    BY <1>1, <1>5, <2>1, AnsweredThenSentProperties DEF OnSearch
  <2>3. ViewOK'
    BY <1>1, <1>2, <1>4, <1>5 DEF OnSearch, setData, ViewOK
  <2>4. VmOK(vm') /\ ~vm'.busy
    BY <1>1, <1>5 DEF OnSearch, VmOK
  <2> QED
    BY <1>1, <1>2, <2>2, <2>3, <2>4 DEF TypeInv
<1>6. CASE OnSearchFailure(i)
  <2>1. ServerOK'
    BY <1>1, <1>6, AnsweredProperties DEF OnSearchFailure
  <2>2. ViewOK'
    BY <1>1, <1>2, <1>6 DEF OnSearchFailure, viewVars, ViewOK
  <2>3. VmOK(vm') /\ ~vm'.busy
    BY <1>1, <1>6 DEF OnSearchFailure, VmOK
  <2> QED
    BY <1>1, <1>2, <2>1, <2>2, <2>3 DEF TypeInv
<1>7. CASE OnQuote(i)
  <2>1. ServerOK'
    <3>1. CASE firstHq /\ data \in Held
      <4> DEFINE request == [what |-> "available", stock |-> data, price |-> server[i].stock]
      <4>1. request \in Requests
        BY <1>4, <1>7, <3>1, PageAssumption DEF OnQuote, Requests
      <4> QED
        BY <1>1, <1>7, <3>1, <4>1, AnsweredThenSentProperties DEF OnQuote
    <3>2. CASE ~(firstHq /\ data \in Held)
      BY <1>1, <1>7, <3>2, AnsweredProperties DEF OnQuote
    <3> QED
      BY <3>1, <3>2
  <2>2. ViewOK' /\ vm' = vm
    BY <1>1, <1>2, <1>4, <1>7 DEF OnQuote, ViewOK
  <2> QED
    BY <1>1, <1>2, <2>1, <2>2 DEF TypeInv
<1>8. CASE OnAvailable(i)
  <2>1. ServerOK'
    BY <1>1, <1>8, AnsweredProperties DEF OnAvailable
  <2>2. ViewOK' /\ vm' = vm
    BY <1>1, <1>2, <1>4, <1>8 DEF OnAvailable, setAvailable, ViewOK
  <2> QED
    BY <1>1, <1>2, <2>1, <2>2 DEF TypeInv
<1>9. CASE OnRefused(i)
  <2>1. ServerOK'
    BY <1>1, <1>9, AnsweredProperties DEF OnRefused
  <2>2. ViewOK' /\ vm' = vm
    BY <1>1, <1>2, <1>9 DEF OnRefused, viewVars, ViewOK
  <2> QED
    BY <1>1, <1>2, <2>1, <2>2 DEF TypeInv
<1>10. ASSUME NEW success \in BOOLEAN, OnOrder(i, success) PROVE TypeInv'
  <2>1. ServerOK'
    BY <1>1, <1>10, AnsweredProperties DEF OnOrder
  <2>2. ViewOK'
    BY <1>1, <1>2, <1>10 DEF OnOrder, viewVars, ViewOK
  <2>3. server[i].line \in OrderLines
    BY <1>4, <1>10 DEF OnOrder
  <2>4. VmOK(vm') /\ (~vm.busy => ~vm'.busy)
    <3>1. CASE page # "single"
      <4>1. vm' = collect(vm, server[i].line)
        BY <1>10, <3>1 DEF OnOrder
      <4> QED
        BY <1>1, <2>3, <4>1, CollectProperties
    <3>2. CASE page = "single"
      <4> DEFINE line == server[i].line
                 r == IF success THEN <<line>> ELSE vm.result
      <4>1. vm' = [vm EXCEPT !.result = r, !.busy = FALSE]
        BY <1>10, <3>2 DEF OnOrder
      <4> HIDE DEF line
      <4>2. <<line>> \in Seq(OrderLines)
        BY <2>3 DEF line
      <4>3. r \in Seq(OrderLines)
        BY <1>1, <4>2 DEF VmOK
      <4> HIDE DEF r
      <4> QED
        BY <1>1, <4>1, <4>3 DEF VmOK
    <3> QED
      BY <3>1, <3>2
  <2> QED
    BY <1>1, <1>2, <2>1, <2>2, <2>4 DEF TypeInv
<1> QED
  BY <1>5, <1>6, <1>7, <1>8, <1>9, <1>10

LEMMA GestureTypes ==
  ASSUME TypeInv, Gestures
  PROVE  TypeInv'
<1>1. /\ ServerOK /\ ViewOK /\ VmOK(vm)
      /\ page = "ipo" => dialog = None /\ ~vm.busy
      /\ dialog # None => DialogOK
  BY DEF TypeInv
<1>2. page' = page
  BY DEF Gestures, Search, submit, Confirm, Decline, PutAway, IpoSubmit
<1>3. data \in Stocks \cup {None} /\ batch.no \in Nat
  BY <1>1 DEF ViewOK
\* A batch that is placed is a batch.
<1>4. ASSUME NEW lines \in Seq(OrderLines), NEW asked \in Nat, place(lines, asked),
             UNCHANGED <<data, price, num, available>>
      PROVE  ServerOK' /\ ViewOK'
  <2>1. ServerOK'
    BY <1>1, <1>3, <1>4, PlaceProperties
  <2> DEFINE over == Asked({"order"})
  <2>2. batch' = [no |-> batch.no + 1, asked |-> asked, lines |-> lines, over |-> over, lost |-> FALSE]
    BY <1>4 DEF place
  <2>3. over \in BOOLEAN
    BY DEF Asked
  <2> HIDE DEF over
  <2> QED
    BY <1>1, <1>2, <1>3, <1>4, <2>1, <2>2, <2>3 DEF ViewOK
<1>5. ASSUME NEW s \in Stocks, Search(s) PROVE TypeInv'
  <2> DEFINE request == [what |-> "search", stock |-> s]
  <2>1. send(<<request>>) /\ UNCHANGED <<viewVars, dialog, batch>> /\ page # "ipo" /\ dialog = None
    BY <1>5 DEF Search, Free
  <2>2. request \in Requests
    BY DEF Requests
  <2> HIDE DEF request
  <2>3. <<request>> \in Seq(Requests)
    BY <2>2
  <2>4. ServerOK'
    BY <1>1, <2>1, <2>3, SendProperties
  <2>5. ViewOK'
    BY <1>1, <1>2, <2>1 DEF ViewOK, viewVars
  <2>6. VmOK(vm')
    BY <1>1, <1>5 DEF Search, VmOK
  <2> QED
    BY <1>1, <1>2, <2>1, <2>4, <2>5, <2>6 DEF TypeInv
<1>6. ASSUME NEW n \in Quantities, NEW single \in Quantities, submit(n, single)
      PROVE  TypeInv'
  <2>1. n \in Nat /\ single \in Nat
    BY PageAssumption
  <2>2. /\ dialog'.num = n /\ dialog'.single = single /\ num' = n
        /\ UNCHANGED <<clientVars, data, price, available, vm, batch>>
        /\ page # "ipo" /\ (page = "several" => single # 0 /\ single <= n)
    BY <1>6 DEF submit
  <2>3. ServerOK'
    BY <1>1, <2>2 DEF ServerOK, clientVars
  <2>4. ViewOK'
    BY <1>1, <1>2, <2>1, <2>2 DEF ViewOK
  <2>5. DialogOK'
    BY <1>2, <2>1, <2>2 DEF DialogOK
  <2> QED
    BY <1>1, <1>2, <2>2, <2>3, <2>4, <2>5 DEF TypeInv
<1>7. CASE Confirm
  <2>1. dialog # None /\ dialog' = None /\ UNCHANGED <<data, price, num, available>>
    BY <1>7 DEF Confirm, viewVars
  <2>2. PICK lines \in Seq(OrderLines) : place(lines, dialog.num) /\ VmOK(vm')
    BY <1>7, ConfirmEffect
  <2>3. dialog.num \in Nat /\ page # "ipo"
    BY <1>1, <2>1 DEF DialogOK
  <2>4. ServerOK' /\ ViewOK'
    BY <1>4, <2>1, <2>2, <2>3
  <2> QED
    BY <1>2, <2>1, <2>2, <2>3, <2>4 DEF TypeInv
<1>8. CASE Decline
  <2>1. dialog' = None /\ UNCHANGED <<clientVars, viewVars, vm, batch>>
    BY <1>8 DEF Decline
  <2>2. ServerOK' /\ ViewOK'
    BY <1>1, <1>2, <2>1 DEF ServerOK, ViewOK, clientVars, viewVars
  <2> QED
    BY <1>1, <1>2, <2>1, <2>2 DEF TypeInv
<1>9. CASE PutAway
  <2>1. vm' = [vm EXCEPT !.busy = FALSE] /\ UNCHANGED <<clientVars, viewVars, dialog, batch>>
    BY <1>9 DEF PutAway
  <2>2. ServerOK' /\ ViewOK' /\ (DialogOK' <=> DialogOK)
    BY <1>1, <1>2, <2>1 DEF ServerOK, ViewOK, DialogOK, clientVars, viewVars
  <2>3. VmOK(vm') /\ ~vm'.busy
    BY <1>1, <2>1 DEF VmOK
  <2> QED
    BY <1>1, <1>2, <2>1, <2>2, <2>3 DEF TypeInv
<1>10. ASSUME NEW count \in Quantities, IpoSubmit(count) PROVE TypeInv'
  <2> DEFINE lines == Lines(count, 1)
             begun == [vm EXCEPT !.temp = 0, !.total = count, !.collection = <<>>]
  <2>1. /\ place(lines, count) /\ page = "ipo" /\ UNCHANGED <<data, price, num, available, dialog>>
        /\ vm' = IF state = "LOGIN" THEN begun ELSE collectAll(begun, lines)
    BY <1>10 DEF IpoSubmit, viewVars
  <2>2. count \in Nat
    BY PageAssumption
  <2>3. lines \in Seq(OrderLines)
    <3>1. Line(1, 1) \in OrderLines
      BY <1>3 DEF Line, OrderLines
    <3> QED
      BY <1>3, <2>2, <3>1, LinesProperties
  <2> HIDE DEF lines
  <2>4. ServerOK' /\ ViewOK'
    BY <1>4, <2>1, <2>2, <2>3
  <2>5. VmOK(begun) /\ ~begun.busy
    <3>1. VmOK([vm EXCEPT !.busy = TRUE, !.temp = 0, !.total = count, !.collection = <<>>])
      BY <1>1, <2>2, BegunBatch
    <3> DEFINE b == [vm EXCEPT !.busy = TRUE, !.temp = 0, !.total = count, !.collection = <<>>]
    <3>2. begun = [b EXCEPT !.busy = FALSE]
      BY <1>1, <2>1 DEF VmOK
    <3> HIDE DEF b, begun
    <3> QED
      BY <3>1, <3>2 DEF VmOK, b
  <2> HIDE DEF begun
  <2>6. VmOK(vm') /\ ~vm'.busy
    BY <2>1, <2>3, <2>5, CollectAllProperties
  <2> QED
    BY <1>1, <1>2, <2>1, <2>4, <2>6 DEF TypeInv
<1> QED
  BY <1>5, <1>6, <1>7, <1>8, <1>9, <1>10 DEF Gestures

LEMMA NextTypes == TypeInv /\ [Next]_vars => TypeInv'
<1> SUFFICES ASSUME TypeInv, [Next]_vars PROVE TypeInv'
  OBVIOUS
<1>1. /\ ServerOK /\ ViewOK /\ VmOK(vm)
      /\ page = "ipo" => dialog = None /\ ~vm.busy
      /\ dialog # None => DialogOK
  BY DEF TypeInv
<1>2. CASE Break
  <2>1. /\ UNCHANGED <<page, made, viewVars, dialog, vm>> /\ state' = "DISCONNECT" /\ server' = <<>>
    BY <1>2 DEF Break
  <2>2. ServerOK'
    <3>1. Len(<<>>) = 0 /\ <<>> \in Seq(Requests) /\ Len(server) \in Nat
      BY <1>1 DEF ServerOK
    <3> QED
      BY <1>1, <2>1, <3>1 DEF ServerOK
  <2>3. ViewOK'
    <3> DEFINE cut == batch.lost \/ Asked({"order"})
    <3>1. batch' = [batch EXCEPT !.lost = cut]
      BY <1>2 DEF Break
    <3>2. cut \in BOOLEAN
      OBVIOUS
    <3> HIDE DEF cut
    <3> QED
      BY <1>1, <2>1, <3>1, <3>2 DEF ViewOK, viewVars
  <2> QED
    BY <1>1, <2>1, <2>2, <2>3 DEF TypeInv, DialogOK
<1>3. CASE Resume \/ UNCHANGED vars
  <2>1. /\ UNCHANGED <<page, server, made, viewVars, dialog, vm, batch>>
        /\ state' = "LOGIN" \/ state' = state
    BY <1>3 DEF Resume, vars, clientVars
  <2>2. ServerOK' /\ ViewOK'
    BY <1>1, <2>1 DEF ServerOK, ViewOK, viewVars
  <2> QED
    BY <1>1, <2>1, <2>2 DEF TypeInv, DialogOK
<1>4. CASE Callbacks
  BY <1>4, CallbackTypes DEF Callbacks
<1> QED
  BY <1>2, <1>3, <1>4, GestureTypes DEF Next

\* The types of a page, for any number of requests; in particular that no answer counts twice:
\* a view model never holds more lines than the orders it waits for.
THEOREM PageTypeCorrect == Spec => []PageTypeOK
<1>1. TypeInv => PageTypeOK
  BY DEF TypeInv, PageTypeOK, ServerOK, ViewOK, VmOK
<1> QED
  BY <1>1, InitTypes, NextTypes, PTL DEF Spec
-----------------------------------------------------------------------------
(* What is ordered is what was confirmed.                                  *)

Quiet == ~Asked({"search", "quote"})

\* While the question is on the screen nothing types over the quantity field, and, if no search
\* and no quote was on its way when it was put, none is now, and the page still shows its stock
\* and its price.
Unchanged ==
  dialog # None =>
    /\ num = dialog.num
    /\ dialog.quiet => Quiet /\ data = dialog.stock /\ price = dialog.price

\* Where the rest of the requests was before request i was taken off.
Old(i, j) == IF j < i THEN j ELSE j + 1

LEMMA OldProperties ==
  ASSUME NEW n \in Nat, NEW i \in 1..n
  PROVE  /\ \A j \in 1..(n - 1) : Old(i, j) \in 1..n /\ Old(i, j) # i
         /\ \A j, k \in 1..(n - 1) : /\ Old(i, j) = Old(i, k) => j = k
                                     /\ j < k <=> Old(i, j) < Old(i, k)
         /\ \A k \in 1..n : k # i => \E j \in 1..(n - 1) : Old(i, j) = k
<1>1. ASSUME NEW k \in 1..n, k # i PROVE \E j \in 1..(n - 1) : Old(i, j) = k
  <2>1. CASE k < i
    BY <2>1 DEF Old
  <2>2. CASE k > i
    <3>1. k - 1 \in 1..(n - 1) /\ Old(i, k - 1) = k
      BY <2>2 DEF Old
    <3> QED
      BY <3>1
  <2> QED
    BY <1>1, <2>1, <2>2
<1> QED
  BY <1>1 DEF Old

\* Whatever follows from an answer, the requests but the one answered are still there, in their
\* order, and before the one that follows.
Taken(i, request) ==
  /\ Len(server) \in Nat /\ Len(server') \in {Len(server) - 1, Len(server)}
  /\ \A j \in 1..(Len(server) - 1) : j \in 1..Len(server') /\ server'[j] = server[Old(i, j)]
  /\ \A j \in 1..Len(server') : j \notin 1..(Len(server) - 1) =>
       j = Len(server) /\ server'[j] = request

LEMMA AnsweredTakes ==
  ASSUME ServerOK, NEW i \in 1..Len(server), NEW request, Answered(i), made' = made
  PROVE  Taken(i, request)
<1>1. /\ Len(server) \in Nat /\ Len(server') = Len(server) - 1
      /\ \A j \in 1..Len(server') : server'[j] = IF j < i THEN server[j] ELSE server[j + 1]
  BY AnsweredProperties
<1> QED
  BY <1>1 DEF Taken, Old

LEMMA AnsweredThenSentTakes ==
  ASSUME ServerOK, NEW i \in 1..Len(server), NEW request \in Requests, AnsweredThenSent(i, request)
  PROVE  Taken(i, request) /\ Len(server') = Len(server) /\ server'[Len(server)] = request
<1>1. /\ Len(server) \in Nat /\ Len(server') = Len(server)
      /\ \A j \in 1..Len(server') :
              server'[j] = IF j = Len(server) THEN request
                           ELSE IF j < i THEN server[j] ELSE server[j + 1]
  BY AnsweredThenSentProperties
<1>2. \A j \in 1..(Len(server) - 1) : server'[j] = server[Old(i, j)]
  BY <1>1 DEF Old
<1>3. \A j \in 1..Len(server') : j \notin 1..(Len(server) - 1) => j = Len(server)
  BY <1>1
<1>4. Len(server) \in 1..Len(server')
  BY <1>1
<1> QED
  BY <1>1, <1>2, <1>3, <1>4 DEF Taken

\* In every callback but those of a search and of a quote nothing is asked.
LEMMA CallbackTakes ==
  ASSUME TypeInv, NEW i \in 1..Len(server),
         \/ OnSearch(i) \/ OnSearchFailure(i) \/ OnQuote(i) \/ OnAvailable(i) \/ OnRefused(i)
         \/ \E success \in BOOLEAN : OnOrder(i, success)
  PROVE  \E request :
           /\ Taken(i, request)
           /\ IF OnSearch(i) THEN request = [what |-> "quote", stock |-> server[i].stock]
              ELSE request.what = "available"
<1>1. ServerOK /\ ViewOK /\ server[i] \in Requests
  BY ElementOfSeq DEF TypeInv, ServerOK
<1>2. server[i].what \in {"search", "quote"} => server[i].stock \in Stocks
  BY <1>1, RequestKinds
<1>3. CASE OnSearch(i)
  <2> DEFINE request == [what |-> "quote", stock |-> server[i].stock]
  <2>1. request \in Requests
    BY <1>2, <1>3 DEF OnSearch, Requests
  <2>2. Taken(i, request)
    BY <1>1, <1>3, <2>1, AnsweredThenSentTakes DEF OnSearch
  <2> QED
    BY <1>3, <2>1, <2>2
<1>4. CASE OnQuote(i) /\ ~OnSearch(i)
  <2>1. server[i].stock \in Stocks
    BY <1>2, <1>4 DEF OnQuote
  <2> DEFINE stock == IF firstHq /\ data \in Held THEN data ELSE server[i].stock
             request == [what |-> "available", stock |-> stock, price |-> server[i].stock]
  <2>2. stock \in Stocks
    BY <2>1, PageAssumption
  <2>3. request \in Requests /\ request.what = "available"
    BY <2>1, <2>2 DEF Requests
  <2>4. Taken(i, request)
    <3>1. CASE firstHq /\ data \in Held
      <4>1. AnsweredThenSent(i, request)
        BY <1>4, <3>1 DEF OnQuote
      <4> HIDE DEF request
      <4> QED
        BY <1>1, <2>3, <4>1, AnsweredThenSentTakes
    <3>2. CASE ~(firstHq /\ data \in Held)
      <4> HIDE DEF request
      <4> QED
        BY <1>1, <1>4, <3>2, AnsweredTakes DEF OnQuote
    <3> QED
      BY <3>1, <3>2
  <2> HIDE DEF request
  <2> QED
    BY <1>4, <2>3, <2>4
<1>5. CASE ~OnSearch(i) /\ ~OnQuote(i)
  <2>1. Answered(i) /\ made' = made
    BY <1>5 DEF OnSearchFailure, OnAvailable, OnRefused, OnOrder
  <2> DEFINE request == [what |-> "available"]
  <2>2. request.what = "available"
    OBVIOUS
  <2> HIDE DEF request
  <2> QED
    BY <1>1, <1>5, <2>1, <2>2, AnsweredTakes
<1> QED
  BY <1>3, <1>4, <1>5

\* So what waits before a callback waits after it, but for the request that is answered.
LEMMA TakenAsks ==
  ASSUME NEW i \in 1..Len(server), NEW request, Taken(i, request), NEW what,
         Asked(what)', request.what \notin what
  PROVE  Asked(what)
<1>1. Len(server) \in Nat
  BY DEF Taken
<1>2. PICK j \in 1..Len(server') : server'[j].what \in what
  BY DEF Asked
<1>3. j \in 1..(Len(server) - 1) /\ server'[j] = server[Old(i, j)]
  BY <1>2 DEF Taken
<1>4. Old(i, j) \in 1..Len(server)
  BY <1>1, <1>3, OldProperties
<1> QED
  BY <1>2, <1>3, <1>4 DEF Asked

LEMMA CallbackUnchanged ==
  ASSUME TypeInv, Unchanged, NEW i \in 1..Len(server),
         \/ OnSearch(i) \/ OnSearchFailure(i) \/ OnQuote(i) \/ OnAvailable(i) \/ OnRefused(i)
         \/ \E success \in BOOLEAN : OnOrder(i, success)
  PROVE  Unchanged'
<1>2. dialog' = dialog /\ num' = num
  BY DEF OnSearch, OnSearchFailure, OnQuote, OnAvailable, OnRefused, OnOrder, Answered,
         AnsweredThenSent, setData, setAvailable, viewVars
<1> SUFFICES ASSUME dialog # None
             PROVE  Quiet => Quiet' /\ data' = data /\ price' = price
  BY <1>2 DEF Unchanged
<1>1. PICK request : /\ Taken(i, request)
                     /\ IF OnSearch(i) THEN request = [what |-> "quote", stock |-> server[i].stock]
                        ELSE request.what = "available"
  BY CallbackTakes
<1>3. CASE server[i].what \in {"search", "quote"}
  BY <1>2, <1>3 DEF Quiet, Asked
<1>4. CASE server[i].what \notin {"search", "quote"}
  <2>1. ~OnSearch(i) /\ ~OnSearchFailure(i) /\ ~OnQuote(i)
    BY <1>4 DEF OnSearch, OnSearchFailure, OnQuote
  <2>2. data' = data /\ price' = price
    BY <2>1 DEF OnAvailable, OnRefused, OnOrder, setAvailable, viewVars
  <2>3. request.what \notin {"search", "quote"}
    BY <1>1, <2>1
  <2>4. Quiet => Quiet'
    BY <1>1, <2>3, TakenAsks DEF Quiet
  <2> QED
    BY <1>2, <2>2, <2>4
<1> QED
  BY <1>3, <1>4

LEMMA GestureUnchanged ==
  ASSUME TypeInv, Unchanged, Gestures
  PROVE  Unchanged'
<1>1. ASSUME NEW n \in Quantities, NEW single \in Quantities, submit(n, single)
      PROVE  Unchanged'
  <2>1. /\ dialog'.num = n /\ num' = n
        /\ dialog'.stock = data /\ dialog'.price = price /\ (dialog'.quiet <=> Quiet)
        /\ UNCHANGED <<server, data, price>>
    BY <1>1 DEF submit, clientVars, Quiet
  <2>2. Quiet' <=> Quiet
    BY <2>1 DEF Quiet, Asked
  <2> QED
    BY <2>1, <2>2 DEF Unchanged
<1>2. CASE PutAway
  <2>1. UNCHANGED <<server, data, price, num, dialog>>
    BY <1>2 DEF PutAway, clientVars, viewVars
  <2> QED
    BY <2>1 DEF Unchanged, Quiet, Asked
<1>3. CASE \/ \E s \in Stocks : Search(s)
           \/ Confirm \/ Decline
           \/ \E count \in Quantities : IpoSubmit(count)
  <2>1. dialog' = None
    BY <1>3 DEF Search, Free, Confirm, Decline, IpoSubmit, TypeInv
  <2> QED
    BY <2>1 DEF Unchanged
<1> QED
  BY <1>1, <1>2, <1>3 DEF Gestures

LEMMA NextUnchanged == TypeInv /\ Unchanged /\ [Next]_vars => Unchanged'
<1> SUFFICES ASSUME TypeInv, Unchanged, [Next]_vars PROVE Unchanged'
  OBVIOUS
<1>1. CASE Break
  <2>1. server' = <<>> /\ UNCHANGED <<data, price, num, dialog>>
    BY <1>1 DEF Break, viewVars
  <2>2. Quiet'
    BY <2>1 DEF Quiet, Asked
  <2> QED
    BY <2>1, <2>2 DEF Unchanged
<1>2. CASE Resume \/ UNCHANGED vars
  <2>1. UNCHANGED <<server, data, price, num, dialog>>
    BY <1>2 DEF Resume, vars, clientVars, viewVars
  <2> QED
    BY <2>1 DEF Unchanged, Quiet, Asked
<1>3. CASE Callbacks
  BY <1>3, CallbackUnchanged DEF Callbacks
<1> QED
  BY <1>1, <1>2, <1>3, GestureUnchanged DEF Next

\* A page orders what its user confirmed: the stock and, for a single order, the quantity of the
\* question on the screen, at the price it showed, whatever was answered while the user thought.
THEOREM OrdersWhatIsConfirmed == Spec => OrderAsConfirmed
<1>1. ASSUME TypeInv, Unchanged, Confirm, dialog.quiet, state = "LOGIN",
             NEW i \in (Len(server) + 1)..Len(server')
      PROVE  /\ server'[i].stock = dialog.stock /\ price = dialog.price
             /\ page = "single" => server'[i].line.qty = dialog.num
  <2>1. /\ num = dialog.num /\ data = dialog.stock /\ price = dialog.price
        /\ ServerOK /\ data \in Stocks \cup {None}
    BY <1>1 DEF TypeInv, ViewOK, Unchanged, Confirm
  <2>2. PICK lines \in Seq(OrderLines) : /\ place(lines, dialog.num)
                                         /\ page # "several" => lines = <<Line(1, num)>>
    BY <1>1, ConfirmEffect
  <2>3. Len(server) \in Nat /\ Len(server') \in Nat
    BY <2>1, <2>2, PlaceProperties DEF ServerOK
  <2>4. i \in 1..Len(server') /\ i > Len(server)
    BY <2>3
  <2> DEFINE k == i - Len(server)
  <2>5. k \in 1..Len(lines) /\ server'[i] = [what |-> "order", stock |-> data, line |-> lines[k]]
    BY <2>1, <2>2, <2>4, PlaceProperties
  <2> HIDE DEF k
  <2>6. server'[i].stock = data /\ server'[i].line = lines[k]
    BY <2>5
  <2>7. page = "single" => lines[k].qty = num
    <3> SUFFICES ASSUME page = "single" PROVE lines[k].qty = num
      OBVIOUS
    <3> DEFINE line == Line(1, num)
    <3>1. lines = <<line>>
      BY <2>2
    <3>2. line.qty = num
      BY DEF Line
    <3> HIDE DEF line
    <3>3. Len(lines) = 1 /\ lines[1] = line
      BY <3>1
    <3>4. k = 1
      BY <2>5, <3>3
    <3> QED
      BY <3>2, <3>3, <3>4
  <2> QED
    BY <2>1, <2>6, <2>7
<1>2. TypeInv /\ Unchanged /\ [Next]_vars => [(Confirm /\ dialog.quiet /\ state = "LOGIN")
        => \A i \in (Len(server) + 1)..Len(server') :
             /\ server'[i].stock = dialog.stock /\ price = dialog.price
             /\ page = "single" => server'[i].line.qty = dialog.num]_vars
  BY <1>1
<1>3. Init => Unchanged
  BY DEF Init, Unchanged
<1> QED
  BY <1>2, <1>3, InitTypes, NextTypes, NextUnchanged, PTL DEF Spec, OrderAsConfirmed
-----------------------------------------------------------------------------
(* The page is blocked exactly while it waits.                             *)

Kind(what) == {i \in 1..Len(server) : server[i].what = what}

\* A split batch counts: the orders without an answer and the answers still to come go together.
Counted ==
  Kind("order") # {} =>
    \E f \in [Kind("order") -> (vm.temp + 1)..vm.total] :
      /\ \A i, j \in Kind("order") : f[i] = f[j] => i = j
      /\ \A m \in (vm.temp + 1)..vm.total : \E i \in Kind("order") : f[i] = m

\* Unless the user puts a busy dialog away or a break swallows an answer, it is one search, or
\* the orders of one confirmation, that the page waits for, and no question is put meanwhile.
OneWait ==
  (page # "ipo" /\ ~cancelled /\ ~lost) =>
    /\ vm.busy <=> Asked({"search", "order"})
    /\ dialog # None => ~vm.busy
    /\ \A i, j \in Kind("search") : i = j
    /\ Kind("search") = {} \/ Kind("order") = {}
    /\ page = "single" => \A i, j \in Kind("order") : i = j
    /\ page = "several" => Counted

LEMMA AskedKinds ==
  Asked({"search", "order"}) <=> (Kind("search") # {} \/ Kind("order") # {})
  BY DEF Asked, Kind

\* Requests of another kind come and go, and the count stays.
LEMMA TakenCounts ==
  ASSUME NEW i \in 1..Len(server), NEW request, Taken(i, request), request.what # "order",
         server[i].what # "order", Counted, UNCHANGED vm
  PROVE  Counted'
<1> SUFFICES ASSUME Kind("order")' # {}
             PROVE  \E f \in [Kind("order")' -> (vm.temp + 1)..vm.total] :
                      /\ \A j, k \in Kind("order")' : f[j] = f[k] => j = k
                      /\ \A m \in (vm.temp + 1)..vm.total : \E j \in Kind("order")' : f[j] = m
  BY DEF Counted
<1>1. Len(server) \in Nat
  BY DEF Taken
<1>2. ASSUME NEW j \in Kind("order")'
      PROVE  j \in 1..(Len(server) - 1) /\ Old(i, j) \in Kind("order")
  <2>1. j \in 1..Len(server') /\ server'[j].what = "order"
    BY DEF Kind
  <2>2. j \in 1..(Len(server) - 1) /\ server'[j] = server[Old(i, j)]
    BY <2>1 DEF Taken
  <2>3. Old(i, j) \in 1..Len(server)
    BY <1>1, <2>2, OldProperties
  <2> QED
    BY <2>1, <2>2, <2>3 DEF Kind
<1>3. ASSUME NEW k \in Kind("order")
      PROVE  \E j \in Kind("order")' : Old(i, j) = k
  <2>1. k \in 1..Len(server) /\ server[k].what = "order" /\ k # i
    BY DEF Kind
  <2>2. PICK j \in 1..(Len(server) - 1) : Old(i, j) = k
    BY <1>1, <2>1, OldProperties
  <2>3. j \in 1..Len(server') /\ server'[j] = server[Old(i, j)]
    BY <2>2 DEF Taken
  <2> QED
    BY <2>1, <2>2, <2>3 DEF Kind
<1>4. PICK f \in [Kind("order") -> (vm.temp + 1)..vm.total] :
        /\ \A j, k \in Kind("order") : f[j] = f[k] => j = k
        /\ \A m \in (vm.temp + 1)..vm.total : \E j \in Kind("order") : f[j] = m
  BY <1>2 DEF Counted
<1> DEFINE K == Kind("order")'
           g == [j \in K |-> f[Old(i, j)]]
<1>5. \A j \in K : j \in 1..(Len(server) - 1) /\ Old(i, j) \in Kind("order")
  BY <1>2
<1>6. \A k \in Kind("order") : \E j \in K : Old(i, j) = k
  BY <1>3
<1> HIDE DEF K
<1>7. g \in [K -> (vm.temp + 1)..vm.total]
  BY <1>4, <1>5
<1>8. \A j, k \in K : g[j] = g[k] => j = k
  <2> SUFFICES ASSUME NEW j \in K, NEW k \in K, g[j] = g[k] PROVE j = k
    OBVIOUS
  <2>1. f[Old(i, j)] = f[Old(i, k)]
    OBVIOUS
  <2>2. Old(i, j) = Old(i, k)
    BY <1>4, <1>5, <2>1
  <2> QED
    BY <1>1, <1>5, <2>2, OldProperties
<1>9. \A m \in (vm.temp + 1)..vm.total : \E j \in K : g[j] = m
  BY <1>4, <1>6
<1> HIDE DEF g
<1> QED
  BY <1>7, <1>8, <1>9 DEF K

\* An order of the batch is answered: one less to wait for, one more collected.
LEMMA OrderCounts ==
  ASSUME ServerOK, VmOK(vm), NEW i \in 1..Len(server), NEW request, Taken(i, request),
         request.what # "order", server[i].what = "order", server[i].line \in OrderLines,
         Counted, vm' = collect(vm, server[i].line)
  PROVE  Counted' /\ (vm'.busy <=> vm.busy /\ Kind("order")' # {})
<1>1. Len(server) \in Nat /\ i \in Kind("order")
  BY DEF Taken, Kind
<1>2. PICK f \in [Kind("order") -> (vm.temp + 1)..vm.total] :
        /\ \A j, k \in Kind("order") : f[j] = f[k] => j = k
        /\ \A m \in (vm.temp + 1)..vm.total : \E j \in Kind("order") : f[j] = m
  BY <1>1 DEF Counted
<1>3. vm.temp \in Nat /\ vm.total \in Nat /\ f[i] \in (vm.temp + 1)..vm.total
  BY <1>1, <1>2 DEF VmOK
<1>4. vm.temp < vm.total /\ vm.temp + 1 \in (vm.temp + 1)..vm.total
  BY <1>3
<1>5. /\ vm'.total = vm.total /\ vm'.temp = vm.temp + 1
      /\ vm'.busy <=> (vm.busy /\ vm.temp + 1 < vm.total)
  BY <1>3, <1>4, CollectProperties
<1> DEFINE K == Kind("order")'
           next(k) == IF f[k] = vm.temp + 1 THEN f[i] ELSE f[k]
           g == [j \in K |-> next(Old(i, j))]
           T == (vm.temp + 1)..vm.total
           U == (vm.temp + 2)..vm.total
<1>6. \A j \in K : /\ j \in 1..(Len(server) - 1)
                   /\ Old(i, j) \in Kind("order") /\ Old(i, j) # i
  <2> SUFFICES ASSUME NEW j \in K
               PROVE  /\ j \in 1..(Len(server) - 1)
                      /\ Old(i, j) \in Kind("order") /\ Old(i, j) # i
    OBVIOUS
  <2>1. j \in 1..Len(server') /\ server'[j].what = "order"
    BY DEF Kind
  <2>2. j \in 1..(Len(server) - 1) /\ server'[j] = server[Old(i, j)]
    BY <2>1 DEF Taken
  <2>3. Old(i, j) \in 1..Len(server) /\ Old(i, j) # i
    BY <1>1, <2>2, OldProperties
  <2> QED
    BY <2>1, <2>2, <2>3 DEF Kind
<1>7. \A k \in Kind("order") : k # i => \E j \in K : Old(i, j) = k
  <2> SUFFICES ASSUME NEW k \in Kind("order"), k # i PROVE \E j \in K : Old(i, j) = k
    OBVIOUS
  <2>1. k \in 1..Len(server) /\ server[k].what = "order"
    BY DEF Kind
  <2>2. PICK j \in 1..(Len(server) - 1) : Old(i, j) = k
    BY <1>1, <2>1, OldProperties
  <2>3. j \in 1..Len(server') /\ server'[j] = server[Old(i, j)]
    BY <2>2 DEF Taken
  <2> QED
    BY <2>1, <2>2, <2>3 DEF Kind
<1> HIDE DEF K
\* Without its least number, which i takes over, f numbers the rest.
<1>8. \A k \in Kind("order") : k # i => next(k) \in U
  <2> SUFFICES ASSUME NEW k \in Kind("order"), k # i PROVE next(k) \in U
    OBVIOUS
  <2>1. f[k] \in T /\ f[i] \in T /\ f[k] # f[i]
    BY <1>1, <1>2
  <2> QED
    BY <1>3, <2>1
<1>9. \A j, k \in Kind("order") : j # i /\ k # i /\ next(j) = next(k) => j = k
  BY <1>1, <1>2
<1>10. \A m \in U : \E k \in Kind("order") : k # i /\ next(k) = m
  <2> SUFFICES ASSUME NEW m \in U PROVE \E k \in Kind("order") : k # i /\ next(k) = m
    OBVIOUS
  <2>1. m \in T /\ m # vm.temp + 1 /\ vm.temp + 1 \in T
    BY <1>3, <1>4
  <2>2. CASE m = f[i]
    <3>1. PICK k \in Kind("order") : f[k] = vm.temp + 1
      BY <1>2, <2>1
    <3> QED
      BY <2>1, <2>2, <3>1
  <2>3. CASE m # f[i]
    <3>1. PICK k \in Kind("order") : f[k] = m
      BY <1>2, <2>1
    <3> QED
      BY <2>1, <2>3, <3>1
  <2> QED
    BY <2>2, <2>3
<1> HIDE DEF next, U, T
<1>11. g \in [K -> U]
  BY <1>6, <1>8
<1>12. \A j, k \in K : g[j] = g[k] => j = k
  <2> SUFFICES ASSUME NEW j \in K, NEW k \in K, g[j] = g[k] PROVE j = k
    OBVIOUS
  <2>1. next(Old(i, j)) = next(Old(i, k))
    OBVIOUS
  <2>2. Old(i, j) = Old(i, k)
    BY <1>6, <1>9, <2>1
  <2> QED
    BY <1>1, <1>6, <2>2, OldProperties
<1>13. \A m \in U : \E j \in K : g[j] = m
  <2> SUFFICES ASSUME NEW m \in U PROVE \E j \in K : g[j] = m
    OBVIOUS
  <2>1. PICK k \in Kind("order") : k # i /\ next(k) = m
    BY <1>10
  <2>2. PICK j \in K : Old(i, j) = k
    BY <1>7, <2>1
  <2> QED
    BY <2>1, <2>2
<1> HIDE DEF g
<1>14. (vm'.temp + 1)..vm'.total = U
  BY <1>3, <1>5 DEF U
<1>15. Counted'
  BY <1>11, <1>12, <1>13, <1>14 DEF K, Counted
<1>16. K # {} <=> vm.temp + 1 < vm.total
  <2>1. K # {} => U # {}
    BY <1>11
  <2>2. U # {} => K # {}
    BY <1>13
  <2>3. U # {} <=> vm.temp + 1 < vm.total
    <3>1. vm.temp + 1 < vm.total => vm.total \in U
      BY <1>3 DEF U
    <3> QED
      BY <1>3, <3>1 DEF U
  <2> QED
    BY <2>1, <2>2, <2>3
<1> QED
  BY <1>5, <1>15, <1>16 DEF K

\* What is of a kind after an answer was of it before, but the request that follows.
LEMMA TakenKinds ==
  ASSUME NEW i \in 1..Len(server), NEW request, Taken(i, request), NEW what
  PROVE  /\ request.what # what => \A j \in Kind(what)' : Old(i, j) \in Kind(what) /\ Old(i, j) # i
         /\ \A j, k \in Kind(what)' : request.what # what /\ Old(i, j) = Old(i, k) => j = k
         /\ (\E k \in Kind(what) : k # i) => Kind(what)' # {}
<1>1. Len(server) \in Nat
  BY DEF Taken
<1>2. ASSUME request.what # what, NEW j \in Kind(what)'
      PROVE  j \in 1..(Len(server) - 1) /\ Old(i, j) \in Kind(what) /\ Old(i, j) # i
  <2>1. j \in 1..Len(server') /\ server'[j].what = what
    BY DEF Kind
  <2>2. j \in 1..(Len(server) - 1) /\ server'[j] = server[Old(i, j)]
    BY <1>2, <2>1 DEF Taken
  <2>3. Old(i, j) \in 1..Len(server) /\ Old(i, j) # i
    BY <1>1, <2>2, OldProperties
  <2> QED
    BY <2>1, <2>2, <2>3 DEF Kind
<1>3. ASSUME NEW k \in Kind(what), k # i PROVE Kind(what)' # {}
  <2>1. k \in 1..Len(server) /\ server[k].what = what
    BY DEF Kind
  <2>2. PICK j \in 1..(Len(server) - 1) : Old(i, j) = k
    BY <1>1, <1>3, <2>1, OldProperties
  <2>3. j \in 1..Len(server') /\ server'[j] = server[k]
    BY <2>2 DEF Taken
  <2>4. j \in Kind(what)'
    BY <2>1, <2>3 DEF Kind
  <2> QED
    BY <2>4
<1>4. ASSUME NEW j \in Kind(what)', NEW k \in Kind(what)', request.what # what,
             Old(i, j) = Old(i, k)
      PROVE  j = k
  BY <1>1, <1>2, <1>4, OldProperties
<1> QED
  BY <1>2, <1>3, <1>4

LEMMA CallbackWait ==
  ASSUME TypeInv, OneWait, NEW i \in 1..Len(server),
         \/ OnSearch(i) \/ OnSearchFailure(i) \/ OnQuote(i) \/ OnAvailable(i) \/ OnRefused(i)
         \/ \E success \in BOOLEAN : OnOrder(i, success)
  PROVE  OneWait'
<1>1. UNCHANGED <<page, dialog, cancelled, lost>>
  BY DEF OnSearch, OnSearchFailure, OnQuote, OnAvailable, OnRefused, OnOrder, Answered,
         AnsweredThenSent
<1> SUFFICES ASSUME page # "ipo", ~cancelled, ~lost
             PROVE  /\ vm'.busy <=> Asked({"search", "order"})'
                    /\ dialog # None => ~vm'.busy
                    /\ \A j, k \in Kind("search")' : j = k
                    /\ Kind("search")' = {} \/ Kind("order")' = {}
                    /\ page = "single" => \A j, k \in Kind("order")' : j = k
                    /\ page = "several" => Counted'
  BY <1>1 DEF OneWait
<1>2. /\ vm.busy <=> (Kind("search") # {} \/ Kind("order") # {})
      /\ dialog # None => ~vm.busy
      /\ \A j, k \in Kind("search") : j = k
      /\ Kind("search") = {} \/ Kind("order") = {}
      /\ page = "single" => \A j, k \in Kind("order") : j = k
      /\ page = "several" => Counted
  BY AskedKinds DEF OneWait
<1>3. ServerOK /\ ViewOK /\ VmOK(vm) /\ server[i] \in Requests
  BY ElementOfSeq DEF TypeInv, ServerOK
<1>4. PICK request : /\ Taken(i, request)
                     /\ IF OnSearch(i) THEN request = [what |-> "quote", stock |-> server[i].stock]
                        ELSE request.what = "available"
  BY CallbackTakes
<1>5. request.what # "search" /\ request.what # "order"
  BY <1>4
<1>6. \A what : server[i].what = what <=> i \in Kind(what)
  BY DEF Kind
<1>7. /\ \A j \in Kind("search")' : Old(i, j) \in Kind("search") /\ Old(i, j) # i
      /\ \A j, k \in Kind("search")' : Old(i, j) = Old(i, k) => j = k
      /\ (\E k \in Kind("search") : k # i) => Kind("search")' # {}
  BY <1>4, <1>5, TakenKinds
<1>8. /\ \A j \in Kind("order")' : Old(i, j) \in Kind("order") /\ Old(i, j) # i
      /\ \A j, k \in Kind("order")' : Old(i, j) = Old(i, k) => j = k
      /\ (\E k \in Kind("order") : k # i) => Kind("order")' # {}
  BY <1>4, <1>5, TakenKinds
<1>9. /\ \A j, k \in Kind("search")' : j = k
      /\ Kind("search")' = {} \/ Kind("order")' = {}
      /\ page = "single" => \A j, k \in Kind("order")' : j = k
  BY <1>2, <1>7, <1>8
<1>10. Asked({"search", "order"})' <=> (Kind("search")' # {} \/ Kind("order")' # {})
  BY DEF Asked, Kind
<1>11. CASE OnSearch(i) \/ OnSearchFailure(i)
  <2>1. server[i].what = "search" /\ ~vm'.busy
    BY <1>3, <1>11 DEF OnSearch, OnSearchFailure, VmOK
  <2>2. Kind("search")' = {} /\ Kind("order")' = {}
    BY <1>2, <1>6, <1>7, <1>8, <2>1
  <2> QED
    BY <1>9, <1>10, <2>1, <2>2 DEF Counted
<1>12. CASE OnQuote(i) \/ OnAvailable(i) \/ OnRefused(i)
  <2>1. server[i].what \notin {"search", "order"} /\ vm' = vm
    BY <1>12 DEF OnQuote, OnAvailable, OnRefused
  <2>2. /\ Kind("search")' # {} <=> Kind("search") # {}
        /\ Kind("order")' # {} <=> Kind("order") # {}
    BY <1>6, <1>7, <1>8, <2>1
  <2>3. page = "several" => Counted'
    BY <1>2, <1>4, <1>5, <2>1, TakenCounts
  <2> QED
    BY <1>2, <1>9, <1>10, <2>1, <2>2, <2>3
<1>13. ASSUME NEW success \in BOOLEAN, OnOrder(i, success)
       PROVE  /\ vm'.busy <=> Asked({"search", "order"})'
              /\ dialog # None => ~vm'.busy
              /\ page = "several" => Counted'
  <2>1. server[i].what = "order" /\ i \in Kind("order") /\ server[i].line \in OrderLines
    BY <1>3, <1>6, <1>13, RequestKinds DEF OnOrder
  <2>2. vm.busy /\ dialog = None /\ Kind("search")' = {}
    BY <1>2, <1>7, <2>1
  <2>3. CASE page = "single"
    <3>1. Kind("order")' = {}
      BY <1>2, <1>8, <2>1, <2>3
    <3>2. ~vm'.busy
      BY <1>3, <1>13, <2>3 DEF OnOrder, VmOK
    <3> QED
      BY <1>10, <2>2, <2>3, <3>1, <3>2
  <2>4. CASE page = "several"
    <3>1. vm' = collect(vm, server[i].line)
      BY <1>13, <2>4 DEF OnOrder
    <3>2. Counted' /\ (vm'.busy <=> vm.busy /\ Kind("order")' # {})
      BY <1>2, <1>3, <1>4, <1>5, <2>1, <2>4, <3>1, OrderCounts
    <3> QED
      BY <1>10, <2>2, <3>2
  <2> QED
    BY <1>3, <2>3, <2>4 DEF ViewOK
<1> QED
  BY <1>9, <1>11, <1>12, <1>13

\* The orders of a confirmation, when nothing else was waited for.
LEMMA ConfirmWait ==
  ASSUME TypeInv, OneWait, Confirm
  PROVE  OneWait'
<1>1. UNCHANGED <<page, cancelled>> /\ dialog # None /\ dialog' = None /\ lost' = lost
  <2>1. \E lines \in Seq(OrderLines) : place(lines, dialog.num)
    BY ConfirmEffect
  <2> QED
    BY <2>1 DEF Confirm, place, send
<1> SUFFICES ASSUME page # "ipo", ~cancelled, ~lost
             PROVE  /\ vm'.busy <=> Asked({"search", "order"})'
                    /\ \A j, k \in Kind("search")' : j = k
                    /\ Kind("search")' = {} \/ Kind("order")' = {}
                    /\ page = "single" => \A j, k \in Kind("order")' : j = k
                    /\ page = "several" => Counted'
  BY <1>1 DEF OneWait
<1>2. Kind("search") = {} /\ Kind("order") = {}
  BY <1>1, AskedKinds DEF OneWait
<1>3. /\ ServerOK /\ data \in Stocks \cup {None} /\ page \in {"several", "single", "ipo"}
      /\ Len(server) \in Nat
  BY DEF TypeInv, ViewOK, ServerOK
<1>4. PICK lines \in Seq(OrderLines) :
           /\ place(lines, dialog.num) /\ VmOK(vm') /\ Len(lines) # 0
           /\ state # "LOGIN" => ~vm'.busy
           /\ state = "LOGIN" => vm'.busy
           /\ page = "several" /\ state = "LOGIN" => vm'.temp = 0 /\ vm'.total = Len(lines)
           /\ page # "several" => lines = <<Line(1, num)>>
  BY ConfirmEffect
<1>5. /\ \A j \in 1..Len(server) : j \in 1..Len(server') /\ server'[j] = server[j]
      /\ \A j \in 1..Len(server') : j > Len(server) =>
              /\ j - Len(server) \in 1..Len(lines)
              /\ server'[j] = [what |-> "order", stock |-> data, line |-> lines[j - Len(server)]]
      /\ state = "LOGIN" => Len(server') = Len(server) + Len(lines)
      /\ state # "LOGIN" => server' = server
      /\ ServerOK'
  BY <1>3, <1>4, PlaceProperties
<1>6. Asked({"search", "order"})' <=> (Kind("search")' # {} \/ Kind("order")' # {})
  BY DEF Asked, Kind
<1>7. CASE state # "LOGIN"
  <2>1. Kind("search")' = {} /\ Kind("order")' = {}
    BY <1>2, <1>5, <1>7 DEF Kind
  <2> QED
    BY <1>4, <1>6, <1>7, <2>1 DEF Counted
<1>8. CASE state = "LOGIN"
  <2> DEFINE n == Len(server)
             c == Len(lines)
  <2>1. n \in Nat /\ c \in Nat /\ c # 0 /\ Len(server') = n + c
    BY <1>3, <1>4, <1>5, <1>8
  <2> HIDE DEF n, c
  <2>2. \A j \in 1..Len(server') : IF j <= n THEN server'[j].what \notin {"search", "order"}
                                   ELSE server'[j].what = "order"
    <3>1. \A j \in 1..n : server[j].what \notin {"search", "order"} /\ server'[j] = server[j]
      BY <1>2, <1>5 DEF Kind, n
    <3>2. \A j \in 1..Len(server') : j <= n => j \in 1..n
      BY <2>1
    <3>3. \A j \in 1..Len(server') : j > n => server'[j].what = "order"
      <4> SUFFICES ASSUME NEW j \in 1..Len(server'), j > n PROVE server'[j].what = "order"
        OBVIOUS
      <4> DEFINE line == lines[j - Len(server)]
      <4>1. server'[j] = [what |-> "order", stock |-> data, line |-> line]
        BY <1>5 DEF n
      <4> HIDE DEF line
      <4> QED
        BY <4>1
    <3>4. \A j \in 1..Len(server') : j <= n \/ j > n
      BY <2>1
    <3> QED
      BY <3>1, <3>2, <3>3, <3>4
  <2>3. Kind("search")' = {}
    BY <2>1, <2>2 DEF Kind
  <2>4. Kind("order")' = (n + 1)..(n + c)
    BY <2>1, <2>2 DEF Kind
  <2>5. Kind("order")' # {}
    <3>1. n + 1 \in (n + 1)..(n + c)
      BY <2>1
    <3> QED
      BY <2>4, <3>1
  <2>6. page = "single" => \A j, k \in Kind("order")' : j = k
    <3> SUFFICES ASSUME page = "single" PROVE c = 1
      BY <2>1, <2>4
    <3> DEFINE line == Line(1, num)
    <3>1. lines = <<line>>
      BY <1>4
    <3> HIDE DEF line
    <3> QED
      BY <3>1 DEF c
  <2>7. page = "several" => Counted'
    <3> SUFFICES ASSUME page = "several"
                 PROVE  \E f \in [Kind("order")' -> (vm'.temp + 1)..vm'.total] :
                          /\ \A i, j \in Kind("order")' : f[i] = f[j] => i = j
                          /\ \A m \in (vm'.temp + 1)..vm'.total :
                               \E i \in Kind("order")' : f[i] = m
      BY DEF Counted
    <3>1. vm'.temp = 0 /\ vm'.total = c
      BY <1>4, <1>8 DEF c
    <3> DEFINE K == (n + 1)..(n + c)
               f == [j \in K |-> j - n]
    <3>2. f \in [K -> 1..c]
      BY <2>1
    <3>3. \A i, j \in K : f[i] = f[j] => i = j
      BY <2>1
    <3>4. \A m \in 1..c : m + n \in K /\ f[m + n] = m
      BY <2>1
    <3> HIDE DEF f, K
    <3>5. (vm'.temp + 1)..vm'.total = 1..c
      BY <3>1
    <3> QED
      BY <2>4, <3>2, <3>3, <3>4, <3>5 DEF K
  <2> QED
    BY <1>4, <1>6, <1>8, <2>3, <2>5, <2>6, <2>7
<1> QED
  BY <1>7, <1>8, Zenon

\* A step that leaves the requests and the view model alone.
LEMMA StutterWait ==
  ASSUME OneWait, UNCHANGED <<page, server, vm, cancelled>>, lost' <=> lost,
         dialog' # None => dialog # None \/ ~vm.busy
  PROVE  OneWait'
<1>1. \A what : Kind(what)' = Kind(what)
  BY DEF Kind
<1>2. Counted => Counted'
  BY <1>1 DEF Counted
<1>3. Asked({"search", "order"})' <=> Asked({"search", "order"})
  BY DEF Asked
<1> QED
  BY <1>1, <1>2, <1>3 DEF OneWait

LEMMA GestureWait ==
  ASSUME TypeInv, OneWait, Gestures
  PROVE  OneWait'
<1>1. ServerOK /\ Len(server) \in Nat /\ VmOK(vm)
  BY DEF TypeInv, ServerOK
<1>2. ASSUME NEW s \in Stocks, Search(s) PROVE OneWait'
  <2> DEFINE request == [what |-> "search", stock |-> s]
  <2>1. /\ send(<<request>>) /\ UNCHANGED <<page, dialog, cancelled, lost>>
        /\ ~vm.busy /\ dialog = None /\ state = "LOGIN" /\ page # "ipo"
        /\ vm' = [vm EXCEPT !.busy = TRUE]
    BY <1>2 DEF Search, Free, send
  <2> SUFFICES ASSUME ~cancelled, ~lost
               PROVE  /\ Kind("search")' # {} /\ \A j, k \in Kind("search")' : j = k
                      /\ Kind("order")' = {}
    <3>1. vm'.busy
      BY <1>1, <2>1 DEF VmOK
    <3>2. Asked({"search", "order"})' <=> (Kind("search")' # {} \/ Kind("order")' # {})
      BY DEF Asked, Kind
    <3> QED
      BY <2>1, <3>1, <3>2 DEF OneWait, Counted
  <2>2. Kind("search") = {} /\ Kind("order") = {}
    BY <2>1, AskedKinds DEF OneWait
  <2>3. request \in Requests /\ request.what = "search"
    BY DEF Requests
  <2> HIDE DEF request
  <2>4. <<request>> \in Seq(Requests) /\ Len(<<request>>) = 1 /\ <<request>>[1] = request
    BY <2>3
  <2>5. /\ Len(server') = Len(server) + 1
        /\ \A j \in 1..Len(server) : server'[j] = server[j]
        /\ server'[Len(server) + 1] = request
    <3>1. /\ Len(server') = Len(server) + 1
          /\ \A j \in 1..Len(server) : server'[j] = server[j]
          /\ \A j \in 1..Len(server') : j > Len(server) =>
               server'[j] = <<request>>[j - Len(server)]
      BY <1>1, <2>1, <2>4, SendProperties
    <3>2. /\ Len(server) + 1 \in 1..Len(server') /\ Len(server) + 1 > Len(server)
          /\ (Len(server) + 1) - Len(server) = 1
      BY <1>1, <3>1
    <3> QED
      BY <2>4, <3>1, <3>2
  <2>6. \A j \in 1..Len(server') : j \in 1..Len(server) \/ j = Len(server) + 1
    BY <1>1, <2>5
  <2>7. Len(server) + 1 \in Kind("search")'
    BY <1>1, <2>3, <2>5 DEF Kind
  <2>8. \A j \in Kind("search")' : j = Len(server) + 1
    BY <2>2, <2>5, <2>6 DEF Kind
  <2>9. Kind("order")' = {}
    BY <2>2, <2>3, <2>5, <2>6 DEF Kind
  <2> QED
    BY <2>7, <2>8, <2>9
<1>3. ASSUME NEW n \in Quantities, NEW single \in Quantities, submit(n, single)
      PROVE  OneWait'
  <2>1. ~vm.busy /\ UNCHANGED <<page, server, vm, cancelled, lost>>
    BY <1>3 DEF submit, Free, clientVars
  <2> QED
    BY <2>1, StutterWait
<1>4. CASE Decline
  <2>1. dialog' = None /\ UNCHANGED <<page, server, vm, cancelled, lost>>
    BY <1>4 DEF Decline, clientVars
  <2> QED
    BY <2>1, StutterWait
<1>5. CASE PutAway
  BY <1>5 DEF PutAway, OneWait
<1>6. ASSUME NEW count \in Quantities, IpoSubmit(count) PROVE OneWait'
  BY <1>6 DEF IpoSubmit, OneWait
<1> QED
  BY <1>2, <1>3, <1>4, <1>5, <1>6, ConfirmWait DEF Gestures

LEMMA NextWait == TypeInv /\ OneWait /\ [Next]_vars => OneWait'
<1> SUFFICES ASSUME TypeInv, OneWait, [Next]_vars PROVE OneWait'
  OBVIOUS
<1>1. CASE Break
  <2>1. /\ server' = <<>> /\ (lost' <=> lost \/ server # <<>>)
        /\ UNCHANGED <<page, dialog, vm, cancelled>>
    BY <1>1 DEF Break
  <2>2. CASE server # <<>>
    BY <2>1, <2>2 DEF OneWait
  <2>3. CASE server = <<>>
    <3>1. server' = server /\ (lost' <=> lost)
      BY <2>1, <2>3
    <3> QED
      BY <2>1, <3>1, StutterWait
  <2> QED
    BY <2>2, <2>3
<1>2. CASE Resume \/ UNCHANGED vars
  <2>1. UNCHANGED <<page, server, vm, dialog, cancelled, lost>>
    BY <1>2 DEF Resume, vars, clientVars
  <2> QED
    BY <2>1, StutterWait
<1>3. CASE Callbacks
  BY <1>3, CallbackWait DEF Callbacks
<1> QED
  BY <1>1, <1>2, <1>3, GestureWait DEF Next

LEMMA InitWait == Init => OneWait
<1> SUFFICES ASSUME Init PROVE OneWait
  OBVIOUS
<1>1. Len(server) = 0 /\ vm.busy = FALSE /\ dialog = None
  BY DEF Init
<1>2. \A what : Kind(what) = {}
  BY <1>1 DEF Kind
<1> QED
  BY <1>1, <1>2, AskedKinds DEF OneWait, Counted

\* The page is blocked exactly while a search or an order has no answer, so no order is placed
\* over another, whatever is answered in whatever order, accepted or refused.
THEOREM BlockedWhileWaiting == Spec => []BusyIsWaiting
<1>1. OneWait => BusyIsWaiting
  BY DEF OneWait, BusyIsWaiting
<1> QED
  BY <1>1, InitTypes, NextTypes, InitWait, NextWait, PTL DEF Spec
-----------------------------------------------------------------------------
(* The page settles on the stock it shows.                                 *)

LastOf(what, k) == k \in Kind(what) /\ \A j \in Kind(what) : j <= k

\* The last quote that was asked, if it is still to come, is that of the stock on the page.
PriceFollows ==
  (data # None /\ ~refused) =>
    \/ \E k \in Kind("quote") : LastOf("quote", k) /\ server[k].stock = data
    \/ Kind("quote") = {} /\ price = data

\* One stock is looked for, and its quote asked, after the quote of the one before.
OneQuote ==
  /\ \A j, k \in Kind("quote") : j = k
  /\ \A j \in Kind("quote"), k \in Kind("search") : j < k

\* The page waits for a quote to ask the quantity, or has asked it last of the stock it shows,
\* at its price.
QuantityFollows ==
  (data \in Held /\ ~refused) =>
    \/ Kind("quote") # {} /\ firstHq
    \/ /\ Kind("quote") = {}
       /\ \/ \E k \in Kind("available") :
               LastOf("available", k) /\ server[k].stock = data /\ server[k].price = data
          \/ Kind("available") = {} /\ available = [stock |-> data, price |-> data]

Settling ==
  /\ page = "ipo" => data = None /\ Kind("search") = {}
  /\ (page # "ipo" /\ inOrder /\ ~lost) =>
       PriceFollows /\ (~cancelled => OneQuote /\ QuantityFollows)

\* The last request of a kind stays the last when another one is answered.
LEMMA LastTaken ==
  ASSUME NEW i \in 1..Len(server), NEW request, Taken(i, request), NEW what,
         request.what # what
  PROVE  \A k : LastOf(what, k) /\ k # i => \E j \in Kind(what)' :
           (\A h \in Kind(what)' : h <= j) /\ server'[j] = server[k]
<1> SUFFICES ASSUME NEW k, LastOf(what, k), k # i
             PROVE  \E j \in Kind(what)' : (\A h \in Kind(what)' : h <= j) /\ server'[j] = server[k]
  OBVIOUS
<1>1. Len(server) \in Nat /\ k \in 1..Len(server) /\ server[k].what = what
  BY DEF Taken, LastOf, Kind
<1>2. PICK j \in 1..(Len(server) - 1) : Old(i, j) = k
  BY <1>1, OldProperties
<1>3. j \in 1..Len(server') /\ server'[j] = server[k]
  BY <1>2 DEF Taken
<1>4. j \in Kind(what)'
  BY <1>1, <1>3 DEF Kind
<1>5. ASSUME NEW h \in Kind(what)' PROVE h <= j
  <2>1. h \in 1..Len(server') /\ server'[h].what = what
    BY DEF Kind
  <2>2. h \in 1..(Len(server) - 1)
    BY <2>1 DEF Taken
  <2>3. Old(i, h) \in Kind(what)
    BY TakenKinds
  <2>4. Old(i, h) <= k /\ Old(i, h) \in 1..Len(server)
    BY <2>3 DEF LastOf, Kind
  <2>5. ~(j < h)
    <3>1. j < h <=> Old(i, j) < Old(i, h)
      BY <1>1, <1>2, <2>2, OldProperties
    <3> QED
      BY <1>1, <1>2, <2>4, <3>1
  <2> QED
    BY <1>1, <1>2, <2>2, <2>5
<1> QED
  BY <1>3, <1>4, <1>5

\* ... and none is left when the first request is the last of its kind and is answered.
LEMMA NoneTaken ==
  ASSUME NEW request, 1 \in 1..Len(server), Taken(1, request), NEW what, request.what # what,
         \A k \in Kind(what) : k = 1
  PROVE  Kind(what)' = {}
  BY TakenKinds

\* What is asked behind the rest is the last of its kind, and leaves the others as they were.
Behind(what) ==
  /\ Len(server) \in Nat /\ Len(server') \in Nat
  /\ \A j \in 1..Len(server) : j \in 1..Len(server') /\ server'[j] = server[j]
  /\ \A j \in 1..Len(server') : j > Len(server) => server'[j].what # what

LEMMA BehindKinds ==
  ASSUME NEW what, Behind(what)
  PROVE  Kind(what)' = Kind(what) /\ \A k \in Kind(what) : server'[k] = server[k]
<1>1. \A j \in 1..Len(server') : j \in 1..Len(server) \/ j > Len(server)
  BY DEF Behind
<1> QED
  BY <1>1 DEF Behind, Kind

LEMMA BehindFollows ==
  ASSUME UNCHANGED <<data, refused, price, firstHq, available>>,
         Behind("quote"), Behind("available")
  PROVE  /\ PriceFollows => PriceFollows'
         /\ QuantityFollows => QuantityFollows'
<1>1. /\ Kind("quote")' = Kind("quote") /\ \A k \in Kind("quote") : server'[k] = server[k]
      /\ Kind("available")' = Kind("available")
      /\ \A k \in Kind("available") : server'[k] = server[k]
  BY BehindKinds
<1>2. \A k : /\ LastOf("quote", k)' <=> LastOf("quote", k)
             /\ LastOf("available", k)' <=> LastOf("available", k)
  BY <1>1 DEF LastOf
<1> QED
  BY <1>1, <1>2 DEF PriceFollows, QuantityFollows

LEMMA BehindSettles ==
  ASSUME Settling, UNCHANGED <<page, inOrder, data, refused, price, firstHq, available>>,
         lost' <=> lost, cancelled => cancelled', Behind("quote"), Behind("available"),
         \A k \in Kind("search")' : k \in Kind("search") \/ (page # "ipo" /\ k > Len(server))
  PROVE  Settling'
<1>1. /\ PriceFollows => PriceFollows'
      /\ QuantityFollows => QuantityFollows'
  BY BehindFollows
<1>2. OneQuote => OneQuote'
  <2>1. Kind("quote")' = Kind("quote") /\ \A j \in Kind("quote") : j \in 1..Len(server)
    BY BehindKinds DEF Kind
  <2>2. \A j \in Kind("quote") : \A k \in Kind("search")' : k > Len(server) => j < k
    <3>1. \A k \in Kind("search")' : k \in Nat
      BY DEF Kind
    <3> QED
      BY <2>1, <3>1 DEF Behind
  <2> QED
    BY <2>1, <2>2 DEF OneQuote
<1>3. page = "ipo" => data = None /\ Kind("search")' = {}
  BY DEF Settling
<1> QED
  BY <1>1, <1>2, <1>3 DEF Settling

\* Nothing is asked.
LEMMA StutterSettles ==
  ASSUME Settling, server \in Seq(Requests),
         UNCHANGED <<page, inOrder, server, data, refused, price, firstHq, available>>,
         lost' <=> lost, cancelled => cancelled'
  PROVE  Settling'
<1>1. Len(server) \in Nat
  OBVIOUS
<1>2. \A what : Behind(what)
  BY <1>1 DEF Behind
<1>3. Kind("search")' = Kind("search")
  BY DEF Kind
<1> QED
  BY <1>2, <1>3, BehindSettles

\* When a request of another kind is answered, the last of a kind stays the last.
LEMMA KindTaken ==
  ASSUME NEW i \in 1..Len(server), NEW request, Taken(i, request), NEW what,
         request.what # what, server[i].what # what
  PROVE  /\ Kind(what)' = {} <=> Kind(what) = {}
         /\ \A k : LastOf(what, k) => \E j \in Kind(what)' :
              (\A h \in Kind(what)' : h <= j) /\ server'[j] = server[k]
<1>1. i \notin Kind(what)
  BY DEF Kind
<1>2. \A k : LastOf(what, k) => k # i
  BY <1>1 DEF LastOf
<1>3. \A k : LastOf(what, k) /\ k # i => \E j \in Kind(what)' :
        (\A h \in Kind(what)' : h <= j) /\ server'[j] = server[k]
  BY LastTaken
<1>4. Kind(what)' = {} <=> Kind(what) = {}
  BY <1>1, TakenKinds
<1> QED
  BY <1>2, <1>3, <1>4

LEMMA OneQuoteTaken ==
  ASSUME NEW i \in 1..Len(server), NEW request, Taken(i, request),
         request.what \notin {"quote", "search"}, OneQuote
  PROVE  OneQuote'
<1>1. Len(server) \in Nat
  BY DEF Taken
<1>2. /\ \A j \in Kind("quote")' : Old(i, j) \in Kind("quote")
      /\ \A j, k \in Kind("quote")' : Old(i, j) = Old(i, k) => j = k
      /\ \A j \in Kind("search")' : Old(i, j) \in Kind("search")
  BY TakenKinds
<1>3. \A j : j \in Kind("quote")' \cup Kind("search")' => j \in 1..(Len(server) - 1)
  <2> SUFFICES ASSUME NEW j, j \in Kind("quote")' \cup Kind("search")'
               PROVE  j \in 1..(Len(server) - 1)
    OBVIOUS
  <2>1. j \in 1..Len(server') /\ server'[j].what \in {"quote", "search"}
    BY DEF Kind
  <2> QED
    BY <2>1 DEF Taken
<1>4. \A j \in Kind("quote")', k \in Kind("search")' : j < k
  BY <1>1, <1>2, <1>3, OldProperties DEF OneQuote
<1> QED
  BY <1>2, <1>4 DEF OneQuote

LEMMA CallbackSettles ==
  ASSUME TypeInv, OneWait, Settling, NEW i \in 1..Len(server),
         \/ OnSearch(i) \/ OnSearchFailure(i) \/ OnQuote(i) \/ OnAvailable(i) \/ OnRefused(i)
         \/ \E success \in BOOLEAN : OnOrder(i, success)
  PROVE  Settling'
<1>1. /\ UNCHANGED <<page, inOrder, cancelled, lost>>
      /\ inOrder => i = 1
  BY DEF OnSearch, OnSearchFailure, OnQuote, OnAvailable, OnRefused, OnOrder, Answered,
         AnsweredThenSent
<1>2. ServerOK /\ Len(server) \in Nat /\ server[i] \in Requests /\ None \notin Held
  BY ElementOfSeq, PageAssumption DEF TypeInv, ServerOK
<1>3. PICK request : /\ Taken(i, request)
                     /\ IF OnSearch(i) THEN request = [what |-> "quote", stock |-> server[i].stock]
                        ELSE request.what = "available"
  BY CallbackTakes
<1>4. page = "ipo" => data' = None /\ Kind("search")' = {}
  <2> SUFFICES ASSUME page = "ipo" PROVE data' = None /\ Kind("search")' = {}
    OBVIOUS
  <2>1. data = None /\ Kind("search") = {}
    BY DEF Settling
  <2>2. ~OnSearch(i)
    BY <2>1 DEF OnSearch, Kind
  <2>3. data' = data
    BY <2>2 DEF OnSearchFailure, OnQuote, OnAvailable, OnRefused, OnOrder, setAvailable, viewVars
  <2>4. Kind("search")' = {}
    BY <1>3, <2>1, TakenKinds
  <2> QED
    BY <2>1, <2>3, <2>4
<1> SUFFICES ASSUME page # "ipo", inOrder, ~lost
             PROVE  PriceFollows' /\ (~cancelled => OneQuote' /\ QuantityFollows')
  BY <1>1, <1>4 DEF Settling
<1>5. /\ i = 1 /\ PriceFollows
      /\ ~cancelled => /\ OneQuote /\ QuantityFollows
                       /\ \A j, k \in Kind("search") : j = k
  BY <1>1 DEF Settling, OneWait
<1>6. \A what : server[1].what = what <=> 1 \in Kind(what)
  BY <1>5 DEF Kind
<1> DEFINE nothing == [what |-> "none"]
<1>7. Answered(i) /\ made' = made => Taken(i, nothing)
  BY <1>2, AnsweredTakes
<1>8. nothing.what = "none"
  OBVIOUS
<1> HIDE DEF nothing
<1>9. CASE OnSearch(i)
  <2> DEFINE quote == [what |-> "quote", stock |-> server[i].stock]
             n == Len(server)
  <2>1. /\ server[1].what = "search" /\ data' = server[1].stock /\ refused' = FALSE
        /\ firstHq' = TRUE /\ AnsweredThenSent(i, quote)
    BY <1>5, <1>9 DEF OnSearch, setData
  <2>2. quote \in Requests
    BY <1>2, <1>5, <2>1, RequestKinds DEF Requests
  <2>3. quote.what = "quote" /\ quote.stock = data'
    BY <1>5, <2>1
  <2> HIDE DEF quote
  <2>4. Taken(i, quote) /\ Len(server') = n /\ server'[n] = quote /\ n \in 1..n
    BY <1>2, <1>5, <2>1, <2>2, AnsweredThenSentTakes
  <2> HIDE DEF n
  <2>5. n \in Kind("quote")' /\ \A j \in Kind("quote")' : j <= n
    BY <2>3, <2>4 DEF Kind
  <2>6. PriceFollows'
    BY <2>3, <2>4, <2>5 DEF PriceFollows, LastOf
  <2>7. ~cancelled => \A j \in Kind("quote")' : j = n
    <3> SUFFICES ASSUME ~cancelled, NEW j \in Kind("quote")', j # n PROVE FALSE
      OBVIOUS
    <3>1. j \in 1..n /\ server'[j].what = "quote"
      BY <2>4 DEF Kind
    <3>2. j \in 1..(n - 1)
      BY <1>2, <3>1 DEF n
    <3>3. server'[j] = server[Old(i, j)] /\ Old(i, j) \in 1..n
      BY <1>2, <2>4, <3>2, OldProperties DEF Taken, n
    <3>4. Old(i, j) \in Kind("quote") /\ 1 \in Kind("search")
      BY <1>6, <2>1, <3>1, <3>3 DEF Kind, n
    <3>5. Old(i, j) < 1
      BY <1>5, <3>4 DEF OneQuote
    <3> QED
      BY <3>3, <3>5
  <2>8. ~cancelled => Kind("search")' = {}
    BY <1>5, <1>6, <2>1, <2>3, <2>4, TakenKinds
  <2>9. ~cancelled => OneQuote' /\ QuantityFollows'
    BY <2>1, <2>5, <2>7, <2>8 DEF OneQuote, QuantityFollows
  <2> QED
    BY <2>6, <2>9
<1>10. ~OnSearch(i) /\ OneQuote => OneQuote'
  BY <1>3, OneQuoteTaken
<1>11. CASE OnSearchFailure(i) \/ \E success \in BOOLEAN : OnOrder(i, success)
  <2>1. /\ server[i].what \in {"search", "order"} /\ Taken(i, nothing)
        /\ UNCHANGED <<data, refused, price, firstHq, available>>
    BY <1>7, <1>11 DEF OnSearchFailure, OnOrder, viewVars
  <2>2. /\ Kind("quote")' = {} <=> Kind("quote") = {}
        /\ \A k : LastOf("quote", k) =>
             \E j \in Kind("quote")' :
               (\A h \in Kind("quote")' : h <= j) /\ server'[j] = server[k]
    BY <1>8, <2>1, KindTaken
  <2>3. /\ Kind("available")' = {} <=> Kind("available") = {}
        /\ \A k : LastOf("available", k) =>
             \E j \in Kind("available")' :
               (\A h \in Kind("available")' : h <= j) /\ server'[j] = server[k]
    BY <1>8, <2>1, KindTaken
  <2>4. PriceFollows'
    BY <1>5, <2>1, <2>2 DEF PriceFollows, LastOf
  <2>5. QuantityFollows => QuantityFollows'
    BY <2>1, <2>2, <2>3 DEF QuantityFollows, LastOf
  <2>6. OneQuote => OneQuote'
    BY <1>8, <2>1, OneQuoteTaken
  <2> QED
    BY <1>5, <2>4, <2>5, <2>6
<1>12. CASE OnQuote(i) /\ ~OnSearch(i)
  <2>1. /\ 1 \in Kind("quote") /\ price' = server[1].stock
        /\ UNCHANGED <<data, refused, available>> /\ request.what = "available"
    BY <1>3, <1>5, <1>6, <1>12 DEF OnQuote
  <2>2. (\A k \in Kind("quote") : k = 1) => Kind("quote")' = {}
    BY <1>3, <1>5, <2>1, NoneTaken
  <2>3. PriceFollows'
    <3> SUFFICES ASSUME data # None, ~refused
                 PROVE  \/ \E k \in Kind("quote")' : /\ \A h \in Kind("quote")' : h <= k
                                                     /\ server'[k].stock = data
                        \/ Kind("quote")' = {} /\ price' = data
      BY <2>1 DEF PriceFollows, LastOf
    <3>1. PICK k \in Kind("quote") : LastOf("quote", k) /\ server[k].stock = data
      BY <1>5, <2>1 DEF PriceFollows
    <3>2. CASE k = 1
      <4>1. \A j \in Kind("quote") : j = 1
        BY <3>1, <3>2 DEF LastOf, Kind
      <4> QED
        BY <2>1, <2>2, <3>1, <3>2, <4>1
    <3>3. CASE k # 1
      <4>1. \A h : LastOf("quote", h) /\ h # i => \E j \in Kind("quote")' :
              (\A g \in Kind("quote")' : g <= j) /\ server'[j] = server[h]
        BY <1>3, <2>1, LastTaken
      <4> QED
        BY <1>5, <3>1, <3>3, <4>1
    <3> QED
      BY <3>2, <3>3
  <2>4. ~cancelled => QuantityFollows'
    <3> SUFFICES ASSUME ~cancelled, data \in Held, ~refused
                 PROVE  /\ Kind("quote")' = {}
                        /\ \E k \in Kind("available")' : /\ \A h \in Kind("available")' : h <= k
                                                         /\ server'[k].stock = data
                                                         /\ server'[k].price = data
      BY <2>1 DEF QuantityFollows, LastOf
    <3>1. \A k \in Kind("quote") : k = 1
      BY <1>5, <2>1 DEF OneQuote
    <3>2. firstHq /\ server[1].stock = data
      <4>1. data # None
        BY <1>2
      <4> QED
        BY <1>5, <2>1, <3>1, <4>1 DEF QuantityFollows, PriceFollows
    <3> DEFINE r == [what |-> "available", stock |-> data, price |-> data]
               n == Len(server)
    <3>3. AnsweredThenSent(i, r)
      BY <1>5, <1>12, <3>2 DEF OnQuote
    <3>4. r \in Requests
      BY PageAssumption DEF Requests
    <3>5. r.what = "available" /\ r.stock = data /\ r.price = data
      OBVIOUS
    <3> HIDE DEF r
    <3>6. Len(server') = n /\ server'[n] = r /\ n \in 1..n
      BY <1>2, <1>5, <3>3, <3>4, AnsweredThenSentTakes
    <3> HIDE DEF n
    <3>7. n \in Kind("available")' /\ \A j \in Kind("available")' : j <= n
      BY <3>5, <3>6 DEF Kind
    <3> QED
      BY <2>2, <3>1, <3>5, <3>6, <3>7
  <2> QED
    BY <1>5, <1>10, <1>12, <2>3, <2>4
<1>13. CASE OnAvailable(i)
  <2>1. /\ 1 \in Kind("available") /\ server[i].what = "available" /\ Taken(i, nothing)
        /\ UNCHANGED <<data, refused, price, firstHq>>
        /\ available' = [stock |-> server[1].stock, price |-> server[1].price]
    BY <1>5, <1>6, <1>7, <1>13 DEF OnAvailable, setAvailable
  <2>2. /\ Kind("quote")' = {} <=> Kind("quote") = {}
        /\ \A k : LastOf("quote", k) =>
             \E j \in Kind("quote")' :
               (\A h \in Kind("quote")' : h <= j) /\ server'[j] = server[k]
    BY <1>8, <2>1, KindTaken
  <2>3. PriceFollows'
    BY <1>5, <2>1, <2>2 DEF PriceFollows, LastOf
  <2>4. QuantityFollows => QuantityFollows'
    <3> SUFFICES ASSUME QuantityFollows, data \in Held, ~refused, Kind("quote") = {}
                 PROVE  \/ \E k \in Kind("available")' : /\ \A h \in Kind("available")' : h <= k
                                                         /\ server'[k].stock = data
                                                         /\ server'[k].price = data
                        \/ /\ Kind("available")' = {}
                           /\ available' = [stock |-> data, price |-> data]
      BY <2>1, <2>2 DEF QuantityFollows, LastOf
    <3>1. PICK k \in Kind("available") :
            LastOf("available", k) /\ server[k].stock = data /\ server[k].price = data
      BY <2>1 DEF QuantityFollows
    <3>2. CASE k = 1
      <4>1. \A j \in Kind("available") : j = 1
        BY <3>1, <3>2 DEF LastOf, Kind
      <4>2. Kind("available")' = {}
        BY <1>5, <1>8, <2>1, <4>1, NoneTaken
      <4> QED
        BY <2>1, <3>1, <3>2, <4>2
    <3>3. CASE k # 1
      <4>1. \A h : LastOf("available", h) /\ h # i => \E j \in Kind("available")' :
              (\A g \in Kind("available")' : g <= j) /\ server'[j] = server[h]
        BY <1>8, <2>1, LastTaken
      <4> QED
        BY <1>5, <3>1, <3>3, <4>1
    <3> QED
      BY <3>2, <3>3
  <2>5. OneQuote => OneQuote'
    BY <1>8, <2>1, OneQuoteTaken
  <2> QED
    BY <1>5, <2>3, <2>4, <2>5
<1>14. CASE OnRefused(i)
  <2>1. refused' /\ Taken(i, nothing)
    BY <1>7, <1>14 DEF OnRefused
  <2>2. OneQuote => OneQuote'
    BY <1>8, <2>1, OneQuoteTaken
  <2> QED
    BY <1>5, <2>1, <2>2 DEF PriceFollows, QuantityFollows
<1> QED
  BY <1>9, <1>11, <1>12, <1>13, <1>14

LEMMA GestureSettles ==
  ASSUME TypeInv, Settling, Gestures
  PROVE  Settling'
<1>1. /\ ServerOK /\ server \in Seq(Requests) /\ Len(server) \in Nat
      /\ data \in Stocks \cup {None} /\ batch.no \in Nat
  BY DEF TypeInv, ServerOK, ViewOK
<1>2. ASSUME NEW s \in Stocks, Search(s) PROVE Settling'
  <2> DEFINE request == [what |-> "search", stock |-> s]
  <2>1. /\ send(<<request>>) /\ page # "ipo"
        /\ UNCHANGED <<page, inOrder, data, refused, price, firstHq, available, lost, cancelled>>
    BY <1>2 DEF Search, send, viewVars
  <2>2. request \in Requests /\ request.what = "search"
    BY DEF Requests
  <2> HIDE DEF request
  <2>3. <<request>> \in Seq(Requests) /\ Len(<<request>>) = 1 /\ <<request>>[1] = request
    BY <2>2
  <2>4. /\ ServerOK'
        /\ \A j \in 1..Len(server) : j \in 1..Len(server') /\ server'[j] = server[j]
        /\ \A j \in 1..Len(server') : j > Len(server) =>
             j - Len(server) \in 1..1 /\ server'[j] = <<request>>[j - Len(server)]
    BY <1>1, <2>1, <2>3, SendProperties
  <2>5. Len(server') \in Nat
    BY <2>4 DEF ServerOK
  <2>6. \A j \in 1..Len(server') : j > Len(server) => server'[j].what = "search"
    <3> SUFFICES ASSUME NEW j \in 1..Len(server'), j > Len(server)
                 PROVE  server'[j].what = "search"
      OBVIOUS
    <3>1. j - Len(server) = 1
      BY <1>1, <2>4, <2>5
    <3> QED
      BY <2>2, <2>3, <2>4, <3>1
  <2>7. Behind("quote") /\ Behind("available")
    BY <1>1, <2>4, <2>5, <2>6 DEF Behind
  <2>8. \A k \in Kind("search")' : k \in Kind("search") \/ k > Len(server)
    <3>1. \A k \in 1..Len(server') : k \in 1..Len(server) \/ k > Len(server)
      BY <1>1, <2>5
    <3> QED
      BY <2>4, <3>1 DEF Kind
  <2> QED
    BY <2>1, <2>7, <2>8, BehindSettles
<1>3. ASSUME NEW lines \in Seq(OrderLines), NEW asked, place(lines, asked),
             UNCHANGED <<page, inOrder, data, refused, price, firstHq, available, lost, cancelled>>
      PROVE  Settling'
  <2>1. /\ ServerOK'
        /\ \A j \in 1..Len(server) : j \in 1..Len(server') /\ server'[j] = server[j]
        /\ \A j \in 1..Len(server') : j > Len(server) =>
              server'[j] = [what |-> "order", stock |-> data, line |-> lines[j - Len(server)]]
    BY <1>1, <1>3, PlaceProperties
  <2>2. \A j \in 1..Len(server') : j > Len(server) => server'[j].what = "order"
    <3> SUFFICES ASSUME NEW j \in 1..Len(server'), j > Len(server) PROVE server'[j].what = "order"
      OBVIOUS
    <3> DEFINE line == lines[j - Len(server)]
    <3>1. server'[j] = [what |-> "order", stock |-> data, line |-> line]
      BY <2>1
    <3> HIDE DEF line
    <3> QED
      BY <3>1
  <2>3. Len(server') \in Nat
    BY <2>1 DEF ServerOK
  <2>4. \A what : what # "order" => Behind(what)
    BY <1>1, <2>1, <2>2, <2>3 DEF Behind
  <2>5. Kind("search")' = Kind("search")
    BY <2>4, BehindKinds
  <2> QED
    BY <1>3, <2>4, <2>5, BehindSettles
<1>4. CASE Confirm
  <2>1. PICK lines \in Seq(OrderLines) : place(lines, dialog.num)
    BY <1>4, ConfirmEffect
  <2>2. UNCHANGED <<page, inOrder, data, refused, price, firstHq, available, lost, cancelled>>
    BY <1>4, <2>1 DEF Confirm, viewVars, place, send
  <2> QED
    BY <1>3, <2>1, <2>2
<1>5. ASSUME NEW count \in Quantities, IpoSubmit(count) PROVE Settling'
  <2> DEFINE lines == Lines(count, 1)
  <2>1. place(lines, count)
    BY <1>5 DEF IpoSubmit
  <2>2. UNCHANGED <<page, inOrder, data, refused, price, firstHq, available, lost, cancelled>>
    BY <1>5, <2>1 DEF IpoSubmit, viewVars, place, send
  <2>3. lines \in Seq(OrderLines)
    <3>1. Line(1, 1) \in OrderLines /\ count \in Nat
      BY <1>1, PageAssumption DEF Line, OrderLines
    <3> QED
      BY <1>1, <3>1, LinesProperties
  <2> HIDE DEF lines
  <2> QED
    BY <1>3, <2>1, <2>2, <2>3
<1>6. CASE \/ \E n, single \in Quantities : submit(n, single)
           \/ Decline \/ PutAway
  <2>1. /\ UNCHANGED <<page, inOrder, server, data, refused, price, firstHq, available, lost>>
        /\ cancelled => cancelled'
    BY <1>6 DEF submit, Decline, PutAway, clientVars, viewVars
  <2> QED
    BY <1>1, <2>1, StutterSettles
<1> QED
  BY <1>2, <1>4, <1>5, <1>6 DEF Gestures

LEMMA NextSettles == TypeInv /\ OneWait /\ Settling /\ [Next]_vars => Settling'
<1> SUFFICES ASSUME TypeInv, OneWait, Settling, [Next]_vars PROVE Settling'
  OBVIOUS
<1>1. server \in Seq(Requests)
  BY DEF TypeInv, ServerOK
<1>2. CASE Break
  <2>1. /\ server' = <<>> /\ (lost' <=> lost \/ server # <<>>)
        /\ UNCHANGED <<page, inOrder, data, refused, price, firstHq, available, cancelled>>
    BY <1>2 DEF Break, viewVars
  <2>2. CASE server # <<>>
    <3>1. Kind("search")' = {}
      BY <2>1 DEF Kind
    <3> QED
      BY <2>1, <2>2, <3>1 DEF Settling
  <2>3. CASE server = <<>>
    <3>1. server' = server /\ (lost' <=> lost)
      BY <2>1, <2>3
    <3> QED
      BY <1>1, <2>1, <3>1, StutterSettles
  <2> QED
    BY <2>2, <2>3
<1>3. CASE Resume \/ UNCHANGED vars
  <2>1. UNCHANGED <<page, inOrder, server, data, refused, price, firstHq, available, lost,
                    cancelled>>
    BY <1>3 DEF Resume, vars, clientVars, viewVars
  <2> QED
    BY <1>1, <2>1, StutterSettles
<1>4. CASE Callbacks
  BY <1>4, CallbackSettles DEF Callbacks
<1> QED
  BY <1>2, <1>3, <1>4, GestureSettles DEF Next

LEMMA InitSettles == Init => Settling
<1> SUFFICES ASSUME Init PROVE Settling
  OBVIOUS
<1>1. Len(server) = 0 /\ data = None
  BY DEF Init
<1>2. \A what : Kind(what) = {}
  BY <1>1 DEF Kind
<1>3. None \notin Held
  BY PageAssumption
<1> QED
  BY <1>1, <1>2, <1>3 DEF Settling, PriceFollows, OneQuote, QuantityFollows

\* When all is answered, in the order it was asked, the page shows the price and the quantity of
\* the stock it names, however often the user has looked for another one meanwhile.
THEOREM PageSettled == Spec => []PageSettles
<1>1. Settling => PageSettles
  <2> SUFFICES ASSUME Settling, inOrder, server = <<>>, data # None, ~refused, ~lost
               PROVE  /\ price = data
                      /\ (~cancelled /\ data \in Held) => available = [stock |-> data, price |-> data]
    BY DEF PageSettles
  <2>1. \A what : Kind(what) = {}
    BY DEF Kind
  <2>2. page # "ipo"
    BY DEF Settling
  <2> QED
    BY <2>1, <2>2 DEF Settling, PriceFollows, QuantityFollows
<1> QED
  BY <1>1, InitTypes, NextTypes, InitWait, NextWait, InitSettles, NextSettles, PTL DEF Spec
-----------------------------------------------------------------------------
(* The report of a batch is whole.                                         *)

Quantity(lines) == FoldLeft(LAMBDA sum, line : sum + line.qty, 0, lines)

\* FoldLeft goes through a sum for each prefix.
LEMMA QuantityRuns ==
  ASSUME NEW s, Len(s) \in Nat, DOMAIN s = 1..Len(s)
  PROVE  \E g : /\ g[0] = 0 /\ \A k \in 1..Len(s) : g[k] = g[k - 1] + s[k].qty
                /\ Quantity(s) = g[Len(s)]
<1> DEFINE Iter(f, m) == f = [t \in SUBSET (1..m) |->
                               IF t = {} THEN 0 ELSE f[t \ {Max(t)}] + s[Max(t)].qty]
           A == {m \in Nat : \E f : Iter(f, m)}
           f1 == CHOOSE f : Iter(f, Len(s))
<1>1. 0 \in A
  <2> DEFINE f == [t \in SUBSET (1..0) |-> 0]
  <2>1. \A t \in SUBSET (1..0) : t = {}
    OBVIOUS
  <2>2. Iter(f, 0)
    BY <2>1
  <2> QED
    BY <2>2
<1>2. \A m \in Nat : m \in A => m + 1 \in A
  <2> SUFFICES ASSUME NEW m \in Nat, m \in A PROVE m + 1 \in A
    OBVIOUS
  <2> PICK f : Iter(f, m)
    OBVIOUS
  <2> DEFINE h == [t \in SUBSET (1..(m + 1)) |->
                     IF m + 1 \in t THEN f[t \ {m + 1}] + s[m + 1].qty ELSE f[t]]
  <2>1. ASSUME NEW t \in SUBSET (1..(m + 1))
        PROVE  h[t] = IF t = {} THEN 0 ELSE h[t \ {Max(t)}] + s[Max(t)].qty
    <3>1. CASE m + 1 \in t
      <4>1. Max(t) = m + 1
        <5>1. \A x \in t : x <= m + 1 /\ x \in Int
          OBVIOUS
        <5>2. \A x \in t : (\A y \in t : x >= y) => x = m + 1
          BY <3>1, <5>1
        <5> QED
          BY <3>1, <5>1, <5>2 DEF Max
      <4>2. t \ {m + 1} \in SUBSET (1..m) /\ t \ {m + 1} \in SUBSET (1..(m + 1))
        OBVIOUS
      <4>3. h[t \ {m + 1}] = f[t \ {m + 1}]
        BY <4>2
      <4>4. h[t] = f[t \ {m + 1}] + s[m + 1].qty
        BY <3>1
      <4> HIDE DEF h, Iter
      <4> QED
        BY <3>1, <4>1, <4>3, <4>4
    <3>2. CASE m + 1 \notin t
      <4>1. t \in SUBSET (1..m) /\ h[t] = f[t]
        BY <3>2
      <4>2. f[t] = IF t = {} THEN 0 ELSE f[t \ {Max(t)}] + s[Max(t)].qty
        BY <4>1
      <4>3. h[t \ {Max(t)}] = f[t \ {Max(t)}]
        BY <3>2
      <4> HIDE DEF h, Iter
      <4> QED
        BY <4>1, <4>2, <4>3
    <3> QED
      BY <3>1, <3>2
  <2> HIDE DEF A
  <2>2. h = [t \in SUBSET (1..(m + 1)) |-> IF t = {} THEN 0 ELSE h[t \ {Max(t)}] + s[Max(t)].qty]
    BY <2>1
  <2>3. Iter(h, m + 1)
    BY <2>2
  <2> HIDE DEF h, Iter
  <2>4. m + 1 \in Nat /\ \E f2 : Iter(f2, m + 1)
    BY <2>3
  <2> QED
    BY <2>4 DEF A
<1>3. \A m \in Nat : m \in A
  <2> HIDE DEF A
  <2> QED
    BY <1>1, <1>2, Induction
<1>4. Iter(f1, Len(s))
  BY <1>3
<1>5. Quantity(s) = f1[1..Len(s)]
  BY DEF Quantity, FoldLeft, MapThenFoldSet
<1> DEFINE g == [k \in 0..Len(s) |-> f1[1..k]]
<1>6. g[0] = 0
  <2>1. 1..0 = {} /\ {} \in SUBSET (1..Len(s))
    OBVIOUS
  <2>2. f1[{}] = 0
    BY <1>4, <2>1
  <2> QED
    BY <2>1, <2>2
<1>7. ASSUME NEW k \in 1..Len(s) PROVE g[k] = g[k - 1] + s[k].qty
  <2> HIDE DEF f1, A
  <2>1. 1..k \in SUBSET (1..Len(s)) /\ 1..k # {} /\ k - 1 \in 0..Len(s) /\ k \in 0..Len(s)
    <3>1. k \in Nat /\ 1 <= k /\ k <= Len(s)
      OBVIOUS
    <3>2. k \in 1..k
      BY <3>1
    <3>3. 1..k \subseteq 1..Len(s)
      BY <3>1
    <3>4. 1..k # {}
      BY <3>2
    <3>5. k - 1 \in 0..Len(s) /\ k \in 0..Len(s)
      BY <3>1
    <3> QED
      BY <3>3, <3>4, <3>5
  <2>2. Max(1..k) = k
    <3>1. \A x \in 1..k : (\A y \in 1..k : x >= y) => x = k
      OBVIOUS
    <3> QED
      BY <3>1 DEF Max
  <2>3. (1..k) \ {k} = 1..(k - 1)
    OBVIOUS
  <2>4. f1[1..k] = f1[(1..k) \ {k}] + s[k].qty
    BY <1>4, <2>1, <2>2
  <2> QED
    BY <2>1, <2>3, <2>4
<1>8. Quantity(s) = g[Len(s)]
  BY <1>5
<1> HIDE DEF g
<1> QED
  BY <1>6, <1>7, <1>8

\* Orders of one quantity, and perhaps one more for the remainder, come to what was asked.
Amounts(lines, asked) ==
  \E qty, items, remainder \in Nat :
    /\ \A m \in 1..items : lines[m].qty = qty
    /\ \/ Len(lines) = items /\ asked = items * qty
       \/ /\ Len(lines) = items + 1 /\ lines[items + 1].qty = remainder
          /\ asked = items * qty + remainder

Numbered(lines) == \A m \in 1..Len(lines) : lines[m].item = m

\* Each of the lines once, in any order.
Reorders(s, lines) ==
  /\ Len(s) = Len(lines)
  /\ \A k \in 1..Len(s) : \E m \in 1..Len(lines) : s[k] = lines[m]
  /\ \A j, k \in 1..Len(s) : s[j] = s[k] => j = k
  /\ \A m \in 1..Len(lines) : \E k \in 1..Len(s) : s[k] = lines[m]

\* So do the same orders in another order: the sum of a prefix is so many times the one quantity,
\* with the remainder in place of one of them once it has come.
LEMMA QuantityOfReport ==
  ASSUME NEW lines \in Seq(OrderLines), NEW asked, Amounts(lines, asked),
         Numbered(lines), NEW s \in Seq(OrderLines), Reorders(s, lines)
  PROVE  Quantity(s) = asked
<1>1. Len(s) \in Nat /\ DOMAIN s = 1..Len(s) /\ Len(s) = Len(lines)
  BY LenProperties DEF Reorders
<1>12. \A m \in 1..Len(lines) : lines[m].item = m
  BY DEF Numbered
<1>2. PICK g : /\ g[0] = 0 /\ \A k \in 1..Len(s) : g[k] = g[k - 1] + s[k].qty
               /\ Quantity(s) = g[Len(s)]
  BY <1>1, QuantityRuns
<1>3. PICK qty \in Nat, items \in Nat, remainder \in Nat :
        /\ \A m \in 1..items : lines[m].qty = qty
        /\ \/ Len(lines) = items /\ asked = items * qty
           \/ /\ Len(lines) = items + 1 /\ lines[items + 1].qty = remainder
              /\ asked = items * qty + remainder
  BY DEF Amounts
<1>4. \A k \in 1..Len(s) : \/ s[k].item \in 1..items /\ s[k].qty = qty
                           \/ s[k].item = items + 1 /\ s[k].qty = remainder
  <2> SUFFICES ASSUME NEW k \in 1..Len(s)
               PROVE  \/ s[k].item \in 1..items /\ s[k].qty = qty
                      \/ s[k].item = items + 1 /\ s[k].qty = remainder
    OBVIOUS
  <2>1. PICK m \in 1..Len(lines) : s[k] = lines[m]
    BY DEF Reorders
  <2>2. s[k].item = m
    BY <1>12, <2>1
  <2>3. CASE m \in 1..items
    BY <1>3, <2>1, <2>2, <2>3
  <2>4. CASE m \notin 1..items
    <3>1. /\ Len(lines) \in Nat /\ m \in 1..Len(lines)
          /\ \/ Len(lines) = items
             \/ Len(lines) = items + 1 /\ lines[items + 1].qty = remainder
      BY <1>1, <1>3
    <3>2. m = items + 1 /\ lines[items + 1].qty = remainder
      BY <2>4, <3>1
    <3> QED
      BY <2>1, <2>2, <3>2
  <2> QED
    BY <2>3, <2>4
<1>5. \A j, k \in 1..Len(s) : s[j].item = items + 1 /\ s[k].item = items + 1 => j = k
  <2> SUFFICES ASSUME NEW j \in 1..Len(s), NEW k \in 1..Len(s),
                      s[j].item = items + 1, s[k].item = items + 1
               PROVE  s[j] = s[k]
    BY DEF Reorders
  <2>1. PICK m \in 1..Len(lines) : s[j] = lines[m]
    BY DEF Reorders
  <2>2. PICK l \in 1..Len(lines) : s[k] = lines[l]
    BY DEF Reorders
  <2> QED
    BY <1>12, <2>1, <2>2
<1> DEFINE Come(k) == \E j \in 1..k : s[j].item = items + 1
           Prefix(k) == g[k] = IF Come(k) THEN (k - 1) * qty + remainder ELSE k * qty
           A == {k \in Nat : k <= Len(s) => Prefix(k)}
<1>6. 0 \in A
  <2>1. ~Come(0) /\ 0 * qty = 0
    OBVIOUS
  <2> QED
    BY <1>2, <2>1
<1>7. ASSUME NEW n \in Nat, n \in A PROVE n + 1 \in A
  <2> SUFFICES ASSUME n + 1 <= Len(s) PROVE Prefix(n + 1)
    OBVIOUS
  <2>1. Prefix(n) /\ n + 1 \in 1..Len(s) /\ (n + 1) - 1 = n
    BY <1>1, <1>7
  <2>2. g[n + 1] = g[n] + s[n + 1].qty
    BY <1>2, <2>1
  <2>3. (n + 1) * qty = n * qty + qty /\ n * qty \in Nat /\ (n - 1) * qty + qty = n * qty
        /\ (n - 1) * qty \in Int
    OBVIOUS
  <2>4. CASE s[n + 1].item = items + 1
    <3>1. ~Come(n) /\ Come(n + 1)
      BY <1>1, <1>5, <2>1, <2>4
    <3>2. s[n + 1].qty = remainder
      BY <1>4, <2>1, <2>4
    <3> HIDE DEF Come
    <3> QED
      BY <2>1, <2>2, <2>3, <3>1, <3>2
  <2>5. CASE s[n + 1].item # items + 1
    <3>1. Come(n) <=> Come(n + 1)
      <4>1. \A j \in 1..(n + 1) : j \in 1..n \/ j = n + 1
        OBVIOUS
      <4>2. 1..n \subseteq 1..(n + 1)
        OBVIOUS
      <4> QED
        BY <2>5, <4>1, <4>2
    <3>2. s[n + 1].qty = qty
      BY <1>4, <2>1, <2>5
    <3> HIDE DEF Come
    <3> QED
      BY <2>1, <2>2, <2>3, <3>1, <3>2
  <2> QED
    BY <2>4, <2>5
<1>8. \A n \in Nat : n \in A
  <2> HIDE DEF A
  <2> QED
    BY <1>6, <1>7, Induction
<1>9. Prefix(Len(s))
  BY <1>1, <1>8
<1>10. CASE Len(lines) = items /\ asked = items * qty
  <2>1. ~Come(Len(s))
    <3> SUFFICES ASSUME NEW j \in 1..Len(s), s[j].item = items + 1 PROVE FALSE
      OBVIOUS
    <3>1. PICK m \in 1..Len(lines) : s[j] = lines[m]
      BY DEF Reorders
    <3> QED
      BY <1>1, <1>10, <1>12, <3>1
  <2> HIDE DEF Come
  <2> QED
    BY <1>1, <1>2, <1>9, <1>10, <2>1
<1>11. CASE /\ Len(lines) = items + 1 /\ lines[items + 1].qty = remainder
            /\ asked = items * qty + remainder
  <2>1. items + 1 \in 1..Len(lines)
    BY <1>11
  <2>2. PICK k \in 1..Len(s) : s[k] = lines[items + 1]
    BY <2>1 DEF Reorders
  <2>3. Come(Len(s))
    BY <1>11, <1>12, <2>1, <2>2
  <2>4. Len(s) - 1 = items
    BY <1>1, <1>11
  <2> HIDE DEF Come
  <2> QED
    BY <1>1, <1>2, <1>9, <1>11, <2>3, <2>4
<1> QED
  BY <1>3, <1>10, <1>11

\* A batch that nothing has disturbed: its orders are numbered and come to what was asked ...
Undisturbed == page # "single" /\ batch.no > 0 /\ ~batch.over /\ ~batch.lost

Batched ==
  /\ Len(batch.lines) # 0 /\ Numbered(batch.lines) /\ Amounts(batch.lines, batch.asked)
  /\ \A m \in 1..Len(batch.lines) : batch.lines[m].no = batch.no

\* ... and each of them waits for its answer or has been collected, once.
Spread ==
  LET n == Len(batch.lines) IN
  /\ \A i \in Kind("order") : \E m \in 1..n : server[i].line = batch.lines[m]
  /\ \A i, j \in Kind("order") : server[i].line = server[j].line => i = j
  /\ \A k \in 1..vm.temp : \E m \in 1..n : vm.collection[k] = batch.lines[m]
  /\ \A j, k \in 1..vm.temp : vm.collection[j] = vm.collection[k] => j = k
  /\ \A i \in Kind("order"), k \in 1..vm.temp : server[i].line # vm.collection[k]
  /\ \A m \in 1..n : \/ \E i \in Kind("order") : server[i].line = batch.lines[m]
                     \/ \E k \in 1..vm.temp : vm.collection[k] = batch.lines[m]

Counts ==
  /\ vm.total = Len(batch.lines)
  /\ vm.temp = vm.total => vm.result = vm.collection

Reporting == Undisturbed => Batched /\ Spread /\ Counts

\* The lines are among the first n of s; these are among the lines, and all different.
Found(lines, s, n) == \A m \in 1..Len(lines) : \E k \in 1..n : s[k] = lines[m]
Drawn(lines, s, n) ==
  /\ \A k \in 1..n : \E m \in 1..Len(lines) : s[k] = lines[m]
  /\ \A j, k \in 1..n : s[j] = s[k] => j = k

LEMMA PlacesCount == \A n \in Nat : IsFiniteSet(1..n) /\ Cardinality(1..n) = n
<1> SUFFICES ASSUME NEW n \in Nat PROVE IsFiniteSet(1..n) /\ Cardinality(1..n) = n
  OBVIOUS
<1> QED
  BY FS_Interval

\* As many lines as numbers have to fit into the places they are found at.
LEMMA PlacesForLines ==
  ASSUME NEW lines, Len(lines) \in Nat, Numbered(lines), NEW s, NEW n \in Nat,
         Found(lines, s, n)
  PROVE  Len(lines) <= n
<1> SUFFICES ASSUME n < Len(lines) PROVE FALSE
  OBVIOUS
<1> DEFINE f == [m \in 1..Len(lines) |-> CHOOSE k \in 1..n : s[k] = lines[m]]
<1>1. \A m \in 1..Len(lines) : f[m] \in 1..n /\ s[f[m]] = lines[m]
  BY DEF Found
<1> HIDE DEF f
<1>2. \A m \in 1..Len(lines) : lines[m].item = m
  BY DEF Numbered
<1>3. f \in [1..Len(lines) -> 1..n]
  BY <1>1 DEF f
<1>4. /\ IsFiniteSet(1..Len(lines)) /\ IsFiniteSet(1..n)
      /\ Cardinality(1..n) < Cardinality(1..Len(lines))
  BY PlacesCount
<1>5. PICK l \in 1..Len(lines), m \in 1..Len(lines) : l # m /\ f[l] = f[m]
  BY <1>3, <1>4, FS_PigeonHole
<1> QED
  BY <1>1, <1>2, <1>5

\* Lines that are all different leave one out while they are fewer.
LEMMA LinesForPlaces ==
  ASSUME NEW lines, Len(lines) \in Nat, Numbered(lines), NEW s, NEW n \in Nat,
         Drawn(lines, s, n),
         NEW l \in 1..Len(lines), \A k \in 1..n : s[k] # lines[l]
  PROVE  n < Len(lines)
<1> SUFFICES ASSUME Len(lines) <= n PROVE FALSE
  OBVIOUS
<1> DEFINE T == (1..Len(lines)) \ {l}
           f == [k \in 1..n |-> CHOOSE m \in 1..Len(lines) : s[k] = lines[m]]
<1>1. \A k \in 1..n : f[k] \in 1..Len(lines) /\ s[k] = lines[f[k]]
  BY DEF Drawn
<1>2. \A k \in 1..n : f[k] # l
  BY <1>1
<1>3. f \in [1..n -> T]
  BY <1>1, <1>2
<1>4. IsFiniteSet(1..n) /\ Cardinality(1..n) = n
  BY FS_Interval
<1>5. IsFiniteSet(1..Len(lines)) /\ Cardinality(1..Len(lines)) = Len(lines)
  BY PlacesCount
<1>6. IsFiniteSet(T) /\ Cardinality(T) = Len(lines) - 1
  BY <1>5, FS_RemoveElement
<1> HIDE DEF f, T
<1>7. Cardinality(T) < Cardinality(1..n)
  BY <1>4, <1>6
<1>8. PICK j \in 1..n, k \in 1..n : j # k /\ f[j] = f[k]
  BY <1>3, <1>4, <1>6, <1>7, FS_PigeonHole
<1>9. s[j] = s[k]
  BY <1>1, <1>8
<1> QED
  BY <1>8, <1>9 DEF Drawn

\* When no order of the batch is outstanding, the report has each of its lines once.
LEMMA ReportReorders ==
  ASSUME TypeInv, Reporting, Undisturbed, ~Outstanding(batch.no)
  PROVE  Reorders(vm.result, batch.lines) /\ vm.result \in Seq(OrderLines)
<1>1. Batched /\ Spread /\ Counts
  BY DEF Reporting
<1>2. /\ Len(batch.lines) \in Nat /\ vm.temp \in Nat /\ vm.total \in Nat /\ vm.temp <= vm.total
      /\ Len(vm.collection) = vm.temp /\ vm.collection \in Seq(OrderLines)
  BY DEF TypeInv, VmOK, ViewOK
<1>3. Kind("order") = {}
  <2> SUFFICES ASSUME NEW i \in Kind("order") PROVE FALSE
    OBVIOUS
  <2>1. PICK m \in 1..Len(batch.lines) : server[i].line = batch.lines[m]
    BY <1>1 DEF Spread
  <2>2. server[i].line.no = batch.no
    BY <1>1, <2>1 DEF Batched
  <2> QED
    BY <2>2 DEF Kind, Outstanding
<1>4. \A m \in 1..Len(batch.lines) : \E k \in 1..vm.temp : vm.collection[k] = batch.lines[m]
  BY <1>1, <1>3 DEF Spread
<1>5. Len(batch.lines) <= vm.temp
  <2>1. Numbered(batch.lines)
    BY <1>1 DEF Batched
  <2> QED
    <3> DEFINE lines == batch.lines
    <3>1. Len(lines) \in Nat /\ Numbered(lines) /\ Found(lines, vm.collection, vm.temp)
      BY <1>2, <1>4, <2>1 DEF Found
    <3> HIDE DEF lines
    <3>2. Len(lines) <= vm.temp
      BY <1>2, <3>1, PlacesForLines
    <3> QED
      BY <3>2 DEF lines
<1>6. vm.temp = Len(batch.lines) /\ vm.result = vm.collection
  BY <1>1, <1>2, <1>5 DEF Counts
<1> QED
  BY <1>1, <1>2, <1>4, <1>6 DEF Spread, Reorders

\* What collect() does with a line it still waits for.
LEMMA CollectLine ==
  ASSUME NEW v, VmOK(v), NEW line \in OrderLines, v.temp < v.total, NEW w, w = collect(v, line)
  PROVE  /\ VmOK(w) /\ w.total = v.total /\ w.temp = v.temp + 1
         /\ \A k \in 1..v.temp : w.collection[k] = v.collection[k]
         /\ w.collection[v.temp + 1] = line
         /\ w.temp = w.total => w.result = w.collection
<1> DEFINE more == [v EXCEPT !.collection = Append(@, line), !.temp = @ + 1]
           done == [more EXCEPT !.result = more.collection, !.busy = FALSE]
<1>1. /\ v \in [total : Nat, temp : Nat, collection : Seq(OrderLines), result : Seq(OrderLines),
               busy : BOOLEAN]
      /\ Len(v.collection) = v.temp /\ v.temp \in Nat /\ v.total \in Nat
      /\ v.collection \in Seq(OrderLines)
  BY DEF VmOK
<1>2. VmOK(w) /\ w.total = v.total /\ w.temp = v.temp + 1
  BY CollectProperties
<1>3. /\ more.collection = Append(v.collection, line)
      /\ more.temp = v.temp + 1 /\ more.total = v.total
      /\ done.collection = Append(v.collection, line) /\ done.result = Append(v.collection, line)
  BY <1>1
<1>4. w = IF v.temp >= v.total THEN v ELSE IF more.temp < more.total THEN more ELSE done
  BY DEF collect
<1> HIDE DEF more, done
<1>5. /\ w.collection = Append(v.collection, line)
      /\ w.temp = w.total => w.result = Append(v.collection, line)
  BY <1>1, <1>2, <1>3, <1>4
<1>6. /\ \A k \in 1..v.temp : Append(v.collection, line)[k] = v.collection[k]
      /\ Append(v.collection, line)[v.temp + 1] = line
  BY <1>1, AppendProperties
<1> QED
  BY <1>2, <1>5, <1>6

\* The orders on their way stay the same, wherever in the queue they are.
LEMMA SameReports ==
  ASSUME Reporting, UNCHANGED <<page, batch>>,
         UNCHANGED <<vm.total, vm.temp, vm.collection, vm.result>>,
         NEW f, \A j \in Kind("order")' : /\ f[j] \in Kind("order")
                                          /\ server'[j].line = server[f[j]].line,
         \A j, k \in Kind("order")' : f[j] = f[k] => j = k,
         \A i \in Kind("order") : \E j \in Kind("order")' : f[j] = i
  PROVE  Reporting'
<1> SUFFICES ASSUME Undisturbed' PROVE (Batched /\ Spread /\ Counts)'
  BY DEF Reporting
<1>1. Batched /\ Spread /\ Counts
  BY DEF Undisturbed, Reporting
<1>2. Batched' /\ Counts'
  BY <1>1 DEF Batched, Counts
<1> DEFINE n == Len(batch.lines)
           K == Kind("order")
           L == Kind("order")'
<1> HIDE DEF K, L
<1>3. /\ \A j \in L : f[j] \in K /\ server'[j].line = server[f[j]].line
      /\ \A j, k \in L : f[j] = f[k] => j = k
      /\ \A i \in K : \E j \in L : f[j] = i
  BY DEF K, L
<1>4. /\ \A i \in K : \E m \in 1..n : server[i].line = batch.lines[m]
      /\ \A i, j \in K : server[i].line = server[j].line => i = j
      /\ \A k \in 1..vm.temp : \E m \in 1..n : vm.collection[k] = batch.lines[m]
      /\ \A j, k \in 1..vm.temp : vm.collection[j] = vm.collection[k] => j = k
      /\ \A i \in K, k \in 1..vm.temp : server[i].line # vm.collection[k]
      /\ \A m \in 1..n : \/ \E i \in K : server[i].line = batch.lines[m]
                         \/ \E k \in 1..vm.temp : vm.collection[k] = batch.lines[m]
  BY <1>1 DEF Spread, K
<1>5. \A j \in L : \E m \in 1..n : server'[j].line = batch.lines[m]
  BY <1>3, <1>4
<1>6. \A j, k \in L : server'[j].line = server'[k].line => j = k
  BY <1>3, <1>4
<1>7. \A j \in L, k \in 1..vm.temp : server'[j].line # vm.collection[k]
  BY <1>3, <1>4
<1>8. \A m \in 1..n : \/ \E j \in L : server'[j].line = batch.lines[m]
                      \/ \E k \in 1..vm.temp : vm.collection[k] = batch.lines[m]
  <2> SUFFICES ASSUME NEW m \in 1..n, NEW i \in K, server[i].line = batch.lines[m]
               PROVE  \E j \in L : server'[j].line = batch.lines[m]
    BY <1>4
  <2>1. PICK j \in L : f[j] = i
    BY <1>3
  <2> QED
    BY <1>3, <2>1
<1>9. Spread'
  BY <1>4, <1>5, <1>6, <1>7, <1>8 DEF Spread, L
<1> QED
  BY <1>2, <1>9

\* An answer to an order moves its line from what waits to what is collected.
LEMMA OrderReports ==
  ASSUME TypeInv, Reporting, NEW i \in 1..Len(server), NEW request, Taken(i, request),
         request.what # "order", server[i].what = "order", vm' = collect(vm, server[i].line),
         UNCHANGED <<page, batch>>
  PROVE  Reporting'
<1> SUFFICES ASSUME Undisturbed' PROVE (Batched /\ Spread /\ Counts)'
  BY DEF Reporting
<1> DEFINE lines == batch.lines
           n == Len(lines)
           K == Kind("order")
           L == Kind("order")'
           c == vm.collection
           d == vm'.collection
           t == vm.temp
<1>1. Batched /\ Spread /\ Counts
  BY DEF Undisturbed, Reporting
<1>2. /\ VmOK(vm) /\ n \in Nat /\ t \in Nat /\ vm.total = n /\ server[i].line \in OrderLines
      /\ Len(server) \in Nat /\ i \in K /\ Numbered(lines)
  <2>1. server[i] \in Requests
    BY ElementOfSeq DEF TypeInv, ServerOK
  <2>2. VmOK(vm) /\ n \in Nat /\ t \in Nat /\ Len(server) \in Nat
    BY DEF TypeInv, ViewOK, VmOK, ServerOK
  <2>3. server[i].line \in OrderLines
    BY <2>1, RequestKinds
  <2> QED
    BY <1>1, <2>2, <2>3 DEF Counts, Batched, Kind
<1>3. /\ \A j \in K : \E m \in 1..n : server[j].line = lines[m]
      /\ \A j, k \in K : server[j].line = server[k].line => j = k
      /\ \A j \in K, k \in 1..t : server[j].line # c[k]
      /\ \A m \in 1..n : \/ \E j \in K : server[j].line = lines[m]
                         \/ \E k \in 1..t : c[k] = lines[m]
  BY <1>1 DEF Spread
<1>4. Drawn(lines, c, t)
  BY <1>1 DEF Spread, Drawn
<1>5. /\ \A j \in L : Old(i, j) \in K /\ Old(i, j) # i
      /\ \A j, k \in L : Old(i, j) = Old(i, k) => j = k
  BY TakenKinds
<1>6. /\ \A j \in L : server'[j] = server[Old(i, j)]
      /\ \A k \in K : k # i => \E j \in L : server'[j] = server[k]
  <2>1. \A j \in L : j \in 1..Len(server') /\ server'[j].what = "order"
    BY DEF Kind
  <2>2. \A j \in L : server'[j] = server[Old(i, j)]
    BY <2>1 DEF Taken
  <2>3. ASSUME NEW k \in K, k # i PROVE \E j \in L : server'[j] = server[k]
    <3>1. k \in 1..Len(server) /\ server[k].what = "order"
      BY DEF Kind
    <3>2. PICK j \in 1..(Len(server) - 1) : Old(i, j) = k
      BY <1>2, <2>3, <3>1, OldProperties
    <3>3. j \in 1..Len(server') /\ server'[j] = server[k]
      BY <3>2 DEF Taken
    <3>4. j \in L
      BY <3>1, <3>3 DEF Kind
    <3> QED
      BY <3>3, <3>4
  <2> QED
    BY <2>2, <2>3
<1> HIDE DEF lines, n, K, L, c, d, t
<1>7. t < n
  <2>1. PICK l \in 1..n : server[i].line = lines[l]
    BY <1>2, <1>3
  <2>2. \A k \in 1..t : c[k] # lines[l]
    BY <1>2, <1>3, <2>1
  <2>3. n = Len(lines)
    BY DEF n
  <2> QED
    BY <1>2, <1>4, <2>2, <2>3, LinesForPlaces
<1>8. /\ vm'.total = n /\ vm'.temp = t + 1
      /\ \A k \in 1..t : d[k] = c[k]
      /\ d[t + 1] = server[i].line
      /\ vm'.temp = vm'.total => vm'.result = vm'.collection
  BY <1>2, <1>7, CollectLine DEF c, d, t
<1>9. \A k \in 1..(t + 1) : k \in 1..t \/ k = t + 1
  BY <1>2
<1>10. Batched' /\ Counts'
  BY <1>1, <1>8 DEF Batched, Counts, n, lines
<1>11. \A j \in L : \E m \in 1..n : server'[j].line = lines[m]
  BY <1>3, <1>5, <1>6
<1>12. \A j, k \in L : server'[j].line = server'[k].line => j = k
  BY <1>3, <1>5, <1>6
<1>13. \A k \in 1..(t + 1) : \E m \in 1..n : d[k] = lines[m]
  <2> SUFFICES ASSUME NEW k \in 1..(t + 1) PROVE \E m \in 1..n : d[k] = lines[m]
    OBVIOUS
  <2>1. CASE k = t + 1
    BY <1>2, <1>3, <1>8, <2>1
  <2>2. CASE k \in 1..t
    BY <1>4, <1>8, <2>2 DEF Drawn, n
  <2> QED
    BY <1>9, <2>1, <2>2
<1>14. \A j, k \in 1..(t + 1) : d[j] = d[k] => j = k
  <2>1. \A j, k \in 1..t : c[j] = c[k] => j = k
    BY <1>4 DEF Drawn
  <2>2. \A k \in 1..t : server[i].line # c[k]
    BY <1>2, <1>3
  <2> QED
    BY <1>8, <1>9, <2>1, <2>2
<1>15. \A j \in L, k \in 1..(t + 1) : server'[j].line # d[k]
  <2> SUFFICES ASSUME NEW j \in L, NEW k \in 1..(t + 1) PROVE server'[j].line # d[k]
    OBVIOUS
  <2>1. server'[j].line = server[Old(i, j)].line /\ Old(i, j) \in K /\ Old(i, j) # i
    BY <1>5, <1>6
  <2>2. CASE k = t + 1
    <3>1. server[Old(i, j)].line # server[i].line
      BY <1>2, <1>3, <2>1
    <3> QED
      BY <1>8, <2>1, <2>2, <3>1
  <2>3. CASE k \in 1..t
    BY <1>3, <1>8, <2>1, <2>3
  <2> QED
    BY <1>9, <2>2, <2>3
<1>16. \A m \in 1..n : \/ \E j \in L : server'[j].line = lines[m]
                       \/ \E k \in 1..(t + 1) : d[k] = lines[m]
  <2> SUFFICES ASSUME NEW m \in 1..n
               PROVE  \/ \E j \in L : server'[j].line = lines[m]
                      \/ \E k \in 1..(t + 1) : d[k] = lines[m]
    OBVIOUS
  <2>1. 1..t \subseteq 1..(t + 1) /\ t + 1 \in 1..(t + 1)
    BY <1>2
  <2>2. ASSUME NEW k \in K, server[k].line = lines[m]
        PROVE  \/ \E j \in L : server'[j].line = lines[m]
               \/ \E h \in 1..(t + 1) : d[h] = lines[m]
    <3>1. CASE k = i
      BY <1>8, <2>1, <2>2, <3>1
    <3>2. CASE k # i
      BY <1>6, <2>2, <3>2
    <3> QED
      BY <3>1, <3>2
  <2>3. ASSUME NEW k \in 1..t, c[k] = lines[m] PROVE \E h \in 1..(t + 1) : d[h] = lines[m]
    BY <1>8, <2>1, <2>3
  <2> QED
    BY <1>3, <2>2, <2>3
<1>17. Spread'
  <2>1. lines' = lines /\ n' = n
    BY DEF lines, n
  <2> QED
    BY <1>8, <1>11, <1>12, <1>13, <1>14, <1>15, <1>16, <2>1 DEF Spread, L, d, lines, n
<1> QED
  BY <1>10, <1>17

LEMMA CallbackReports ==
  ASSUME TypeInv, Reporting, NEW i \in 1..Len(server),
         \/ OnSearch(i) \/ OnSearchFailure(i) \/ OnQuote(i) \/ OnAvailable(i) \/ OnRefused(i)
         \/ \E success \in BOOLEAN : OnOrder(i, success)
  PROVE  Reporting'
<1>1. UNCHANGED <<page, batch>>
  BY DEF OnSearch, OnSearchFailure, OnQuote, OnAvailable, OnRefused, OnOrder, Answered,
         AnsweredThenSent
<1>2. PICK request : /\ Taken(i, request)
                     /\ IF OnSearch(i) THEN request = [what |-> "quote", stock |-> server[i].stock]
                        ELSE request.what = "available"
  BY CallbackTakes
<1>3. request.what # "order" /\ Len(server) \in Nat
  BY <1>2 DEF Taken
<1>4. CASE OnSearch(i) \/ OnSearchFailure(i) \/ OnQuote(i) \/ OnAvailable(i) \/ OnRefused(i)
  <2>1. server[i].what # "order"
    BY <1>4 DEF OnSearch, OnSearchFailure, OnQuote, OnAvailable, OnRefused
  <2>2. UNCHANGED <<vm.total, vm.temp, vm.collection, vm.result>>
    <3>1. vm' = vm \/ vm' = [vm EXCEPT !.busy = FALSE]
      BY <1>4 DEF OnSearch, OnSearchFailure, OnQuote, OnAvailable, OnRefused
    <3> QED
      BY <3>1 DEF TypeInv, VmOK
  <2> DEFINE f == [j \in Kind("order")' |-> Old(i, j)]
  <2>3. /\ \A j \in Kind("order")' : Old(i, j) \in Kind("order") /\ Old(i, j) # i
        /\ \A j, k \in Kind("order")' : Old(i, j) = Old(i, k) => j = k
    BY <1>2, <1>3, TakenKinds
  <2>4. \A j \in Kind("order")' : server'[j].line = server[f[j]].line
    BY <1>2, <1>3 DEF Taken, Kind
  <2>5. ASSUME NEW k \in Kind("order") PROVE \E j \in Kind("order")' : f[j] = k
    <3>1. k \in 1..Len(server) /\ server[k].what = "order" /\ k # i
      BY <2>1 DEF Kind
    <3>2. PICK j \in 1..(Len(server) - 1) : Old(i, j) = k
      BY <1>3, <3>1, OldProperties
    <3>3. j \in Kind("order")'
      BY <1>2, <3>1, <3>2 DEF Taken, Kind
    <3> QED
      BY <3>2, <3>3
  <2>6. /\ \A j \in Kind("order")' : f[j] \in Kind("order")
        /\ \A j, k \in Kind("order")' : f[j] = f[k] => j = k
    BY <2>3
  <2> HIDE DEF f
  <2> QED
    BY <1>1, <2>2, <2>4, <2>5, <2>6, SameReports
<1>5. ASSUME NEW success \in BOOLEAN, OnOrder(i, success) PROVE Reporting'
  <2>1. server[i].what = "order"
    BY <1>5 DEF OnOrder
  <2>2. CASE page = "single"
    BY <1>1, <2>2 DEF Reporting, Undisturbed
  <2>3. CASE page # "single"
    <3>1. vm' = collect(vm, server[i].line)
      BY <1>5, <2>3 DEF OnOrder
    <3> QED
      BY <1>1, <1>2, <1>3, <2>1, <3>1, OrderReports
  <2> QED
    BY <2>2, <2>3
<1> QED
  BY <1>4, <1>5

\* The requests of the rest of the page do not count.
LEMMA BehindReports ==
  ASSUME Reporting, UNCHANGED <<page, batch>>, Behind("order"),
         UNCHANGED <<vm.total, vm.temp, vm.collection, vm.result>>
  PROVE  Reporting'
<1> DEFINE f == [j \in Kind("order")' |-> j]
<1>1. Kind("order")' = Kind("order") /\ \A k \in Kind("order") : server'[k] = server[k]
  BY BehindKinds
<1>2. /\ \A j \in Kind("order")' : /\ f[j] \in Kind("order")
                                   /\ server'[j].line = server[f[j]].line
      /\ \A j, k \in Kind("order")' : f[j] = f[k] => j = k
      /\ \A i \in Kind("order") : \E j \in Kind("order")' : f[j] = i
  BY <1>1
<1> HIDE DEF f
<1> QED
  BY <1>2, SameReports

\* What collectAll() makes of lines it still waits for, all of them: they come behind those it has,
\* and the last one it waits for makes the report.
Collected(w, v, lines) ==
  /\ VmOK(w) /\ w.total = v.total /\ w.temp = v.temp + Len(lines)
  /\ \A k \in 1..v.temp : w.collection[k] = v.collection[k]
  /\ \A k \in 1..Len(lines) : w.collection[v.temp + k] = lines[k]
  /\ Len(lines) # 0 /\ w.temp = w.total => w.result = w.collection
  /\ Len(lines) = 0 => w = v

LEMMA CollectAllLines ==
  ASSUME NEW v, VmOK(v), NEW lines \in Seq(OrderLines), v.temp + Len(lines) <= v.total
  PROVE  Collected(collectAll(v, lines), v, lines)
<1> DEFINE w == collectAll(v, lines)
<1>1. Len(lines) \in Nat /\ \A i \in 1..Len(lines) : lines[i] \in OrderLines
  BY ElementOfSeq
<1>2. PICK g : /\ g = [i \in 0..Len(lines) |-> IF i = 0 THEN v ELSE collect(g[i - 1], lines[i])]
               /\ collectAll(v, lines) = g[Len(lines)]
  BY <1>1, CollectAllRuns
<1>3. g[0] = v /\ \A i \in 1..Len(lines) : g[i] = collect(g[i - 1], lines[i])
  <2> DEFINE h == [i \in 0..Len(lines) |-> IF i = 0 THEN v ELSE collect(g[i - 1], lines[i])]
  <2>1. h[0] = v /\ \A i \in 1..Len(lines) : h[i] = collect(g[i - 1], lines[i])
    BY <1>1
  <2>2. g = h
    BY <1>2
  <2> HIDE DEF h
  <2> QED
    BY <2>1, <2>2
<1>4. v.temp \in Nat /\ v.total \in Nat
  BY DEF VmOK
<1> DEFINE Good(i) ==
      /\ VmOK(g[i]) /\ g[i].total = v.total /\ g[i].temp = v.temp + i
      /\ \A k \in 1..v.temp : g[i].collection[k] = v.collection[k]
      /\ \A k \in 1..i : g[i].collection[v.temp + k] = lines[k]
      /\ i # 0 /\ g[i].temp = g[i].total => g[i].result = g[i].collection
    A == {i \in Nat : i <= Len(lines) => Good(i)}
<1>5. 0 \in A
  BY <1>3, <1>4
<1>6. ASSUME NEW n \in Nat, n \in A PROVE n + 1 \in A
  <2> SUFFICES ASSUME n + 1 <= Len(lines) PROVE Good(n + 1)
    OBVIOUS
  <2>1. n <= Len(lines) /\ n + 1 \in 1..Len(lines) /\ (n + 1) - 1 = n
    BY <1>1
  <2>2. Good(n)
    BY <1>6, <2>1
  <2>3. g[n + 1] = collect(g[n], lines[n + 1]) /\ lines[n + 1] \in OrderLines
    BY <1>1, <1>3, <2>1
  <2> HIDE DEF A
  <2>4. VmOK(g[n]) /\ g[n].temp < g[n].total
    BY <1>1, <1>4, <2>1, <2>2
  <2>5. /\ VmOK(g[n + 1]) /\ g[n + 1].total = g[n].total /\ g[n + 1].temp = g[n].temp + 1
        /\ \A k \in 1..g[n].temp : g[n + 1].collection[k] = g[n].collection[k]
        /\ g[n + 1].collection[g[n].temp + 1] = lines[n + 1]
        /\ g[n + 1].temp = g[n + 1].total => g[n + 1].result = g[n + 1].collection
    BY <2>3, <2>4, CollectLine
  <2>6. g[n].total = v.total /\ g[n].temp = v.temp + n /\ v.temp + (n + 1) = (v.temp + n) + 1
    <3>1. v.temp + (n + 1) = (v.temp + n) + 1
      BY <1>4
    <3> QED
      BY <2>2, <3>1
  <2>7. \A k \in 1..v.temp : g[n + 1].collection[k] = v.collection[k]
    <3>1. \A k \in 1..v.temp : k \in 1..(v.temp + n)
      BY <1>4
    <3> QED
      BY <2>2, <2>5, <2>6, <3>1
  <2>8. \A k \in 1..(n + 1) : g[n + 1].collection[v.temp + k] = lines[k]
    <3> SUFFICES ASSUME NEW k \in 1..(n + 1)
                 PROVE  g[n + 1].collection[v.temp + k] = lines[k]
      OBVIOUS
    <3>1. CASE k = n + 1
      BY <2>5, <2>6, <3>1
    <3>2. CASE k \in 1..n
      <4>1. v.temp + k \in 1..(v.temp + n)
        BY <1>4, <3>2
      <4> QED
        BY <2>2, <2>5, <2>6, <3>2, <4>1
    <3> QED
      BY <3>1, <3>2
  <2> QED
    BY <2>5, <2>6, <2>7, <2>8
<1>7. \A n \in Nat : n \in A
  <2> HIDE DEF A
  <2> QED
    BY <1>5, <1>6, Induction
<1>8. Good(Len(lines))
  BY <1>1, <1>7
<1> HIDE DEF A
<1>9. w = g[Len(lines)]
  BY <1>2
<1> HIDE DEF w
<1>10. Collected(w, v, lines)
  BY <1>1, <1>3, <1>8, <1>9 DEF Collected
<1> QED
  BY <1>10 DEF w

\* The lines of a new batch, and the view model that has just placed them: it waits for all of
\* them, or, without a login, has all of them already.
Whole(lines, asked) ==
  /\ Len(lines) # 0 /\ Numbered(lines) /\ Amounts(lines, asked)
  /\ \A m \in 1..Len(lines) : lines[m].no = batch.no + 1

Begun(lines) ==
  /\ vm'.total = Len(lines)
  /\ state = "LOGIN" => vm'.temp = 0
  /\ state # "LOGIN" => /\ vm'.temp = Len(lines) /\ vm'.result = vm'.collection
                        /\ \A k \in 1..Len(lines) : vm'.collection[k] = lines[k]

LEMMA PlacedReports ==
  ASSUME TypeInv, NEW lines \in Seq(OrderLines), NEW asked, place(lines, asked), page' = page,
         Whole(lines, asked), Begun(lines)
  PROVE  Reporting'
<1> SUFFICES ASSUME Undisturbed' PROVE (Batched /\ Spread /\ Counts)'
  BY DEF Reporting
<1> DEFINE n == Len(lines)
           c == vm'.collection
<1>1. /\ ServerOK /\ data \in Stocks \cup {None} /\ batch.no \in Nat /\ Len(server) \in Nat
      /\ state \in {"LOGIN", "DISCONNECT"} /\ n \in Nat /\ n # 0
  BY DEF TypeInv, ViewOK, ServerOK, Whole
<1>2. batch'.no = batch.no + 1 /\ batch'.asked = asked /\ batch'.lines = lines
      /\ (batch'.over <=> Asked({"order"}))
  <2> DEFINE over == Asked({"order"})
  <2>1. batch' = [no |-> batch.no + 1, asked |-> asked, lines |-> lines, over |-> over,
                  lost |-> FALSE]
    BY DEF place
  <2> HIDE DEF over
  <2> QED
    BY <2>1 DEF over
<1>3. Kind("order") = {}
  BY <1>2 DEF Undisturbed, Kind, Asked
<1>4. Batched'
  BY <1>2 DEF Batched, Whole
<1>5. Counts'
  BY <1>1, <1>2 DEF Counts, Begun
<1>6. \A m \in 1..n : lines[m].item = m
  BY DEF Whole, Numbered
<1>7. CASE state = "LOGIN"
  <2>1. vm'.temp = 0
    BY <1>7 DEF Begun
  <2>2. /\ Len(server') = Len(server) + n
        /\ \A i \in 1..Len(server) : server'[i] = server[i]
        /\ \A i \in 1..Len(server') : i > Len(server) =>
             /\ i - Len(server) \in 1..n
             /\ server'[i] = [what |-> "order", stock |-> data, line |-> lines[i - Len(server)]]
    BY <1>1, <1>7, PlaceProperties
  <2>3. \A i \in Kind("order")' : /\ i \in Int /\ i - Len(server) \in 1..n
                                  /\ server'[i].line = lines[i - Len(server)]
    <3> SUFFICES ASSUME NEW i \in 1..Len(server'), server'[i].what = "order"
                 PROVE  i - Len(server) \in 1..n /\ server'[i].line = lines[i - Len(server)]
      BY DEF Kind
    <3>1. i > Len(server)
      <4> SUFFICES ASSUME i \in 1..Len(server) PROVE FALSE
        BY <1>1
      <4> QED
        BY <1>3, <2>2 DEF Kind
    <3> QED
      BY <2>2, <3>1
  <2>4. \A m \in 1..n : \E i \in Kind("order")' : server'[i].line = lines[m]
    <3> SUFFICES ASSUME NEW m \in 1..n PROVE \E i \in Kind("order")' : server'[i].line = lines[m]
      OBVIOUS
    <3>1. /\ Len(server) + m \in 1..Len(server') /\ Len(server) + m > Len(server)
          /\ (Len(server) + m) - Len(server) = m
      BY <1>1, <2>2
    <3>2. server'[Len(server) + m] = [what |-> "order", stock |-> data, line |-> lines[m]]
      BY <2>2, <3>1
    <3>3. Len(server) + m \in Kind("order")'
      BY <3>1, <3>2 DEF Kind
    <3> QED
      BY <3>2, <3>3
  <2> DEFINE L == Kind("order")'
  <2> HIDE DEF L
  <2>5. \A i, j \in L : server'[i].line = server'[j].line => i = j
    <3> SUFFICES ASSUME NEW i \in L, NEW j \in L, server'[i].line = server'[j].line
                 PROVE  i = j
      OBVIOUS
    <3>1. i - Len(server) = j - Len(server) /\ i \in Int /\ j \in Int
      BY <1>6, <2>3 DEF L
    <3> QED
      BY <1>1, <3>1
  <2>6. \A i \in L : \E m \in 1..n : server'[i].line = lines[m]
    BY <2>3 DEF L
  <2>7. \A m \in 1..n : \E i \in L : server'[i].line = lines[m]
    BY <2>4 DEF L
  <2>8. \A k \in 1..vm'.temp : FALSE
    BY <2>1
  <2>9. Spread'
    BY <1>2, <2>5, <2>6, <2>7, <2>8 DEF Spread, L
  <2> QED
    BY <1>4, <1>5, <2>9
<1>8. CASE state # "LOGIN"
  <2>1. vm'.temp = n /\ \A k \in 1..n : c[k] = lines[k]
    BY <1>8 DEF Begun
  <2>2. server' = server
    BY <1>1, <1>8, PlaceProperties
  <2>3. Kind("order")' = {}
    BY <1>3, <2>2 DEF Kind
  <2> HIDE DEF c
  <2>4. \A j, k \in 1..n : c[j] = c[k] => j = k
    BY <1>6, <2>1
  <2>5. Spread'
    BY <1>2, <2>1, <2>3, <2>4 DEF Spread, c
  <2> QED
    BY <1>4, <1>5, <2>5
<1> QED
  BY <1>7, <1>8

\* A split quantity is whole: the orders of the quantity of one and that of the remainder.
LEMMA SplitWhole ==
  ASSUME VmOK(vm), batch.no \in Nat, state \in {"LOGIN", "DISCONNECT"},
         NEW qty \in Nat, NEW items \in Nat, NEW remainder \in Nat, items # 0,
         transactionSeveral(qty, items, remainder)
  PROVE  \E lines \in Seq(OrderLines) :
           place(lines, dialog.num) /\ Whole(lines, items * qty + remainder) /\ Begun(lines)
<1> DEFINE last == Line(items + 1, remainder)
           rest == IF remainder # 0 THEN <<last>> ELSE <<>>
           first == Lines(items, qty)
           lines == first \o rest
           raised == items + Len(rest)
           begun == [vm EXCEPT !.busy = TRUE, !.temp = 0, !.total = Len(first), !.collection = <<>>]
<1>1. /\ place(lines, dialog.num)
      /\ vm' = IF state = "LOGIN" THEN [begun EXCEPT !.total = raised]
               ELSE collectAll([collectAll(begun, first) EXCEPT !.total = raised], rest)
  BY DEF transactionSeveral, Split
<1>2. /\ last \in OrderLines
      /\ last.no = batch.no + 1 /\ last.item = items + 1 /\ last.qty = remainder
  BY DEF Line, OrderLines
<1>3. /\ first \in Seq(OrderLines) /\ Len(first) = items
      /\ \A m \in 1..items : /\ first[m].no = batch.no + 1 /\ first[m].item = m
                             /\ first[m].qty = qty
  <2>1. first \in Seq(OrderLines) /\ Len(first) = items
    BY <1>2, LinesProperties
  <2>2. \A m \in 1..items : first[m] = Line(m, qty)
    BY DEF Lines
  <2> QED
    BY <2>1, <2>2 DEF Line
<1>4. \/ /\ remainder # 0 /\ rest = <<last>> /\ rest \in Seq(OrderLines) /\ Len(rest) = 1
         /\ rest[1] = last
      \/ remainder = 0 /\ rest = <<>> /\ rest \in Seq(OrderLines) /\ Len(rest) = 0
  <2> HIDE DEF last
  <2>1. CASE remainder # 0
    <3>1. /\ rest = <<last>> /\ Len(<<last>>) = 1 /\ <<last>> \in Seq(OrderLines)
          /\ <<last>>[1] = last
      BY <1>2, <2>1
    <3> HIDE DEF rest
    <3> QED
      BY <2>1, <3>1
  <2>2. CASE remainder = 0
    <3>1. rest = <<>> /\ Len(<<>>) = 0 /\ <<>> \in Seq(OrderLines)
      BY <2>2
    <3> HIDE DEF rest
    <3> QED
      BY <2>2, <3>1
  <2> QED
    BY <2>1, <2>2
<1> HIDE DEF last, rest, first
<1>5. /\ lines \in Seq(OrderLines) /\ Len(lines) = raised /\ raised \in Nat
      /\ \A m \in 1..items : lines[m] = first[m]
      /\ \A m \in 1..Len(rest) : lines[items + m] = rest[m]
  <2>1. /\ lines \in Seq(OrderLines) /\ Len(lines) = Len(first) + Len(rest)
        /\ \A m \in 1..(Len(first) + Len(rest)) :
             lines[m] = IF m <= Len(first) THEN first[m] ELSE rest[m - Len(first)]
    BY <1>3, <1>4, ConcatProperties
  <2> HIDE DEF lines
  <2>2. Len(rest) \in Nat
    BY <1>4
  <2>3. \A m \in 1..items : lines[m] = first[m]
    BY <1>3, <2>1, <2>2
  <2>4. ASSUME NEW m \in 1..Len(rest) PROVE lines[items + m] = rest[m]
    <3>1. /\ items + m \in 1..(items + Len(rest)) /\ ~(items + m <= items)
          /\ (items + m) - items = m
      BY <2>2
    <3> QED
      BY <1>3, <2>1, <3>1
  <2> QED
    BY <1>3, <2>1, <2>2, <2>3, <2>4
<1> HIDE DEF lines
\* The lines.
<1>6. \A m \in 1..Len(lines) : \/ m \in 1..items /\ lines[m] = first[m]
                               \/ m = items + 1 /\ remainder # 0 /\ lines[m] = last
  <2> SUFFICES ASSUME NEW m \in 1..Len(lines), m \notin 1..items
               PROVE  m = items + 1 /\ remainder # 0 /\ lines[m] = last
    BY <1>5
  <2>1. m = items + 1 /\ remainder # 0
    BY <1>4, <1>5
  <2> QED
    BY <1>4, <1>5, <2>1
<1>7. Whole(lines, items * qty + remainder)
  <2>1. Numbered(lines) /\ \A m \in 1..Len(lines) : lines[m].no = batch.no + 1
    BY <1>2, <1>3, <1>6 DEF Numbered
  <2>2. Amounts(lines, items * qty + remainder)
    <3>1. \A m \in 1..items : lines[m].qty = qty
      BY <1>3, <1>5
    <3>2. \/ Len(lines) = items /\ items * qty + remainder = items * qty
          \/ /\ Len(lines) = items + 1 /\ lines[items + 1].qty = remainder
             /\ items * qty + remainder = items * qty + remainder
      <4>1. CASE remainder # 0
        <5>1. lines[items + 1] = last
          BY <1>4, <1>5, <4>1
        <5> QED
          BY <1>2, <1>4, <1>5, <4>1, <5>1
      <4>2. CASE remainder = 0
        <5>1. items * qty \in Nat
          OBVIOUS
        <5> QED
          BY <1>4, <1>5, <4>2, <5>1
      <4> QED
        BY <4>1, <4>2
    <3> QED
      BY <3>1, <3>2 DEF Amounts
  <2>3. Len(lines) # 0
    BY <1>4, <1>5
  <2> QED
    BY <2>1, <2>2, <2>3 DEF Whole
\* The view model.
<1>8. VmOK(begun) /\ begun.temp = 0 /\ begun.total = items
  BY <1>3, BegunBatch
<1> HIDE DEF begun
<1>9. CASE state = "LOGIN"
  <2>1. vm' = [begun EXCEPT !.total = raised] /\ items <= raised
    BY <1>1, <1>4, <1>9
  <2>2. vm'.temp = 0 /\ vm'.total = raised
    BY <1>5, <1>8, <2>1, RaisedTotal
  <2>3. Begun(lines)
    BY <1>5, <1>9, <2>2 DEF Begun
  <2> QED
    BY <1>1, <1>5, <1>7, <2>3
<1>10. CASE state # "LOGIN"
  <2> DEFINE w1 == collectAll(begun, first)
             w2 == [w1 EXCEPT !.total = raised]
  <2>1. vm' = collectAll(w2, rest)
    BY <1>1, <1>10
  <2>2. begun.temp + Len(first) <= begun.total /\ 0 + items = items
    BY <1>3, <1>8
  <2>3. /\ VmOK(w1) /\ w1.total = items /\ w1.temp = items
        /\ \A k \in 1..items : w1.collection[k] = first[k]
        /\ w1.result = w1.collection
    <3>1. /\ VmOK(w1) /\ w1.total = begun.total /\ w1.temp = begun.temp + Len(first)
          /\ \A k \in 1..Len(first) : w1.collection[begun.temp + k] = first[k]
          /\ Len(first) # 0 /\ w1.temp = w1.total => w1.result = w1.collection
      <4>1. Collected(w1, begun, first)
        BY <1>3, <1>8, <2>2, CollectAllLines
      <4> HIDE DEF w1
      <4> QED
        BY <4>1 DEF Collected
    <3> HIDE DEF w1
    <3>2. \A k \in 1..items : 0 + k = k
      OBVIOUS
    <3> QED
      BY <1>3, <1>8, <2>2, <3>1, <3>2
  <2> HIDE DEF w1
  <2>4. /\ VmOK(w2) /\ w2.temp = items /\ w2.total = raised
        /\ w2.collection = w1.collection /\ w2.result = w1.result
    <3>1. VmOK(w2) /\ w2.temp = items /\ w2.total = raised
      BY <1>4, <1>5, <2>3, RaisedTotal
    <3>2. w2.collection = w1.collection /\ w2.result = w1.result
      BY <2>3 DEF VmOK
    <3> QED
      BY <3>1, <3>2
  <2> HIDE DEF w2
  <2>5. /\ vm'.total = w2.total /\ vm'.temp = items + Len(rest)
        /\ \A k \in 1..items : vm'.collection[k] = w2.collection[k]
        /\ \A k \in 1..Len(rest) : vm'.collection[items + k] = rest[k]
        /\ Len(rest) # 0 /\ vm'.temp = vm'.total => vm'.result = vm'.collection
        /\ Len(rest) = 0 => vm' = w2
    <3>1. w2.temp + Len(rest) <= w2.total /\ rest \in Seq(OrderLines)
      BY <1>4, <2>4
    <3>2. /\ vm'.total = w2.total /\ vm'.temp = w2.temp + Len(rest)
          /\ \A k \in 1..w2.temp : vm'.collection[k] = w2.collection[k]
          /\ \A k \in 1..Len(rest) : vm'.collection[w2.temp + k] = rest[k]
          /\ Len(rest) # 0 /\ vm'.temp = vm'.total => vm'.result = vm'.collection
          /\ Len(rest) = 0 => vm' = w2
      <4>1. Collected(vm', w2, rest)
        BY <2>1, <2>4, <3>1, CollectAllLines
      <4> QED
        BY <4>1 DEF Collected
    <3> QED
      BY <2>4, <3>2
  <2>6. vm'.total = Len(lines) /\ vm'.temp = Len(lines)
    BY <1>5, <2>4, <2>5
  <2>7. vm'.result = vm'.collection
    BY <2>3, <2>4, <2>5, <2>6
  <2>8. \A k \in 1..Len(lines) : vm'.collection[k] = lines[k]
    <3> SUFFICES ASSUME NEW k \in 1..Len(lines) PROVE vm'.collection[k] = lines[k]
      OBVIOUS
    <3>1. CASE k \in 1..items /\ lines[k] = first[k]
      BY <2>3, <2>4, <2>5, <3>1
    <3>2. CASE k = items + 1 /\ remainder # 0 /\ lines[k] = last
      BY <1>4, <2>5, <3>2
    <3> QED
      BY <1>6, <3>1, <3>2
  <2>9. Begun(lines)
    BY <1>10, <2>6, <2>7, <2>8 DEF Begun
  <2> QED
    BY <1>1, <1>5, <1>7, <2>9
<1> QED
  BY <1>9, <1>10

\* So are the orders for the new stocks.
LEMMA IpoWhole ==
  ASSUME TypeInv, NEW count \in Quantities, IpoSubmit(count)
  PROVE  \E lines \in Seq(OrderLines) :
           place(lines, count) /\ Whole(lines, count) /\ Begun(lines)
<1> DEFINE lines == Lines(count, 1)
           begun == [vm EXCEPT !.temp = 0, !.total = count, !.collection = <<>>]
<1>1. /\ place(lines, count) /\ count # 0
      /\ vm' = IF state = "LOGIN" THEN begun ELSE collectAll(begun, lines)
  BY DEF IpoSubmit
<1>2. count \in Nat /\ VmOK(vm) /\ batch.no \in Nat /\ Line(1, 1) \in OrderLines
  BY PageAssumption DEF TypeInv, ViewOK, Line, OrderLines
<1>3. /\ lines \in Seq(OrderLines) /\ Len(lines) = count
      /\ \A m \in 1..count : lines[m].no = batch.no + 1 /\ lines[m].item = m /\ lines[m].qty = 1
  <2>1. lines \in Seq(OrderLines) /\ Len(lines) = count
    BY <1>2, LinesProperties
  <2>2. \A m \in 1..count : lines[m] = Line(m, 1)
    BY DEF Lines
  <2> HIDE DEF lines
  <2> QED
    BY <2>1, <2>2 DEF Line
<1> HIDE DEF lines
<1>4. Whole(lines, count)
  <2>1. Amounts(lines, count)
    <3>1. \A m \in 1..count : lines[m].qty = 1
      BY <1>3
    <3>2. Len(lines) = count /\ count = count * 1
      BY <1>2, <1>3
    <3> QED
      BY <1>2, <3>1, <3>2 DEF Amounts
  <2> QED
    BY <1>1, <1>3, <2>1 DEF Whole, Numbered
<1>5. VmOK(begun) /\ begun.temp = 0 /\ begun.total = count
  <2> DEFINE b == [vm EXCEPT !.busy = TRUE, !.temp = 0, !.total = count, !.collection = <<>>]
  <2>1. VmOK(b) /\ b.temp = 0 /\ b.total = count
    BY <1>2, BegunBatch
  <2>2. begun = [b EXCEPT !.busy = vm.busy]
    BY <1>2 DEF VmOK
  <2>3. vm.busy \in BOOLEAN
    BY <1>2 DEF VmOK
  <2> HIDE DEF b, begun
  <2> QED
    BY <2>1, <2>2, <2>3 DEF VmOK
<1> HIDE DEF begun
<1>6. Begun(lines)
  <2>1. CASE state = "LOGIN"
    BY <1>1, <1>3, <1>5, <2>1 DEF Begun
  <2>2. CASE state # "LOGIN"
    <3>1. begun.temp + Len(lines) <= begun.total /\ 0 + Len(lines) = count
      BY <1>2, <1>3, <1>5
    <3>2. /\ vm'.total = count /\ vm'.temp = count
          /\ \A k \in 1..Len(lines) : vm'.collection[begun.temp + k] = lines[k]
          /\ vm'.result = vm'.collection
      <4>1. Collected(vm', begun, lines)
        BY <1>1, <1>3, <1>5, <2>2, <3>1, CollectAllLines
      <4> QED
        BY <1>1, <1>3, <1>5, <4>1 DEF Collected
    <3>3. \A k \in 1..Len(lines) : 0 + k = k
      BY <1>3
    <3> QED
      BY <1>3, <1>5, <2>2, <3>2, <3>3 DEF Begun
  <2> QED
    BY <2>1, <2>2
<1> QED
  BY <1>1, <1>3, <1>4, <1>6

\* So many times the one quantity, and the remainder, are the whole.
Divided(a, b, q, r) == q \in Nat /\ r \in Nat /\ q * b + r = a /\ (b <= a => q # 0)

LEMMA Division ==
  ASSUME NEW a \in Nat, NEW b \in Nat, b # 0
  PROVE  Divided(a, b, a \div b, a % b)
<1> DEFINE q == a \div b
           r == a % b
<1>1. q \in Nat /\ r \in Nat
  OBVIOUS
<1>2. r = a - b * q
  OBVIOUS
<1>3. b <= a => q # 0
  OBVIOUS
<1> HIDE DEF q, r
<1>4. q * b + r = a
  BY <1>1, <1>2
<1>5. Divided(a, b, q, r)
  BY <1>1, <1>3, <1>4 DEF Divided
<1> QED
  BY <1>5 DEF q, r

LEMMA GestureReports ==
  ASSUME TypeInv, Reporting, Gestures
  PROVE  Reporting'
<1>1. /\ ServerOK /\ server \in Seq(Requests) /\ Len(server) \in Nat /\ VmOK(vm)
      /\ state \in {"LOGIN", "DISCONNECT"} /\ batch.no \in Nat
  BY DEF TypeInv, ServerOK, ViewOK
<1>2. page' = page
  BY DEF Gestures, Search, submit, Confirm, Decline, PutAway, IpoSubmit
<1>3. ASSUME NEW s \in Stocks, Search(s) PROVE Reporting'
  <2> DEFINE request == [what |-> "search", stock |-> s]
  <2>1. send(<<request>>) /\ batch' = batch /\ vm' = [vm EXCEPT !.busy = TRUE]
    BY <1>3 DEF Search
  <2>2. request \in Requests /\ request.what = "search"
    BY DEF Requests
  <2> HIDE DEF request
  <2>3. <<request>> \in Seq(Requests) /\ Len(<<request>>) = 1 /\ <<request>>[1] = request
    BY <2>2
  <2>4. /\ ServerOK'
        /\ \A j \in 1..Len(server) : j \in 1..Len(server') /\ server'[j] = server[j]
        /\ \A j \in 1..Len(server') : j > Len(server) =>
             j - Len(server) \in 1..1 /\ server'[j] = <<request>>[j - Len(server)]
    BY <1>1, <2>1, <2>3, SendProperties
  <2>5. Len(server') \in Nat
    BY <2>4 DEF ServerOK
  <2>6. \A j \in 1..Len(server') : j > Len(server) => server'[j].what # "order"
    <3> SUFFICES ASSUME NEW j \in 1..Len(server'), j > Len(server)
                 PROVE  server'[j].what # "order"
      OBVIOUS
    <3>1. j - Len(server) = 1
      BY <1>1, <2>4, <2>5
    <3> QED
      BY <2>2, <2>3, <2>4, <3>1
  <2>7. Behind("order")
    BY <1>1, <2>4, <2>5, <2>6 DEF Behind
  <2>8. UNCHANGED <<vm.total, vm.temp, vm.collection, vm.result>>
    BY <1>1, <2>1 DEF VmOK
  <2> QED
    BY <1>2, <2>1, <2>7, <2>8, BehindReports
<1>4. CASE Confirm
  <2>1. DialogOK
    BY <1>4 DEF TypeInv, Confirm
  <2>2. CASE page = "several"
    <3> DEFINE items == dialog.num \div dialog.single
               remainder == dialog.num % dialog.single
    <3>1. /\ items \in Nat /\ remainder \in Nat /\ items # 0 /\ dialog.single \in Nat
          /\ items * dialog.single + remainder = dialog.num
      <4>1. /\ dialog.num \in Nat /\ dialog.single \in Nat
            /\ dialog.single # 0 /\ dialog.single <= dialog.num
        BY <2>1, <2>2 DEF DialogOK
      <4>2. Divided(dialog.num, dialog.single, items, remainder)
        BY <4>1, Division
      <4> HIDE DEF items, remainder
      <4> QED
        BY <4>1, <4>2 DEF Divided
    <3>2. transactionSeveral(dialog.single, items, remainder)
      BY <1>4, <2>2 DEF Confirm
    <3> HIDE DEF items, remainder
    <3>3. PICK lines \in Seq(OrderLines) :
            place(lines, dialog.num) /\ Whole(lines, dialog.num) /\ Begun(lines)
      BY <1>1, <3>1, <3>2, SplitWhole
    <3> QED
      BY <1>2, <3>3, PlacedReports
  <2>3. CASE page = "single"
    BY <1>2, <2>3 DEF Reporting, Undisturbed
  <2> QED
    BY <2>1, <2>2, <2>3 DEF TypeInv, ViewOK, DialogOK
<1>5. ASSUME NEW count \in Quantities, IpoSubmit(count) PROVE Reporting'
  <2>1. PICK lines \in Seq(OrderLines) :
          place(lines, count) /\ Whole(lines, count) /\ Begun(lines)
    BY <1>5, IpoWhole
  <2> QED
    BY <1>2, <2>1, PlacedReports
<1>6. CASE \/ \E n, single \in Quantities : submit(n, single)
           \/ Decline \/ PutAway
  <2>1. UNCHANGED <<server, batch>> /\ (vm' = vm \/ vm' = [vm EXCEPT !.busy = FALSE])
    BY <1>6 DEF submit, Decline, PutAway, clientVars
  <2>2. UNCHANGED <<vm.total, vm.temp, vm.collection, vm.result>>
    BY <1>1, <2>1 DEF VmOK
  <2>3. Behind("order")
    BY <1>1, <2>1 DEF Behind
  <2> QED
    BY <1>2, <2>1, <2>2, <2>3, BehindReports
<1> QED
  BY <1>3, <1>4, <1>5, <1>6 DEF Gestures

LEMMA NextReports == TypeInv /\ Reporting /\ [Next]_vars => Reporting'
<1> SUFFICES ASSUME TypeInv, Reporting, [Next]_vars PROVE Reporting'
  OBVIOUS
<1>1. Len(server) \in Nat /\ batch \in [no : Nat, asked : Nat, lines : Seq(OrderLines),
                                        over : BOOLEAN, lost : BOOLEAN]
  BY DEF TypeInv, ServerOK, ViewOK
<1>2. CASE Break
  <2> DEFINE cut == batch.lost \/ Asked({"order"})
  <2>1. server' = <<>> /\ UNCHANGED <<page, vm>> /\ batch' = [batch EXCEPT !.lost = cut]
    BY <1>2 DEF Break
  <2>2. batch'.lost = cut
    BY <1>1, <2>1
  <2>3. CASE Asked({"order"})
    BY <2>2, <2>3 DEF Reporting, Undisturbed
  <2>4. CASE ~Asked({"order"})
    <3>1. cut = batch.lost
      BY <1>1, <2>4
    <3> HIDE DEF cut
    <3>2. batch' = batch
      BY <1>1, <2>1, <3>1
    <3>3. Kind("order") = {} /\ Kind("order")' = {}
      BY <2>1, <2>4 DEF Kind, Asked
    <3>4. /\ \A j \in Kind("order")' : j \in Kind("order") /\ server'[j].line = server[j].line
          /\ \A i \in Kind("order") : \E j \in Kind("order")' : j = i
      BY <3>3
    <3> DEFINE f == [j \in Kind("order")' |-> j]
    <3>5. /\ \A j \in Kind("order")' : /\ f[j] \in Kind("order")
                                       /\ server'[j].line = server[f[j]].line
          /\ \A j, k \in Kind("order")' : f[j] = f[k] => j = k
          /\ \A i \in Kind("order") : \E j \in Kind("order")' : f[j] = i
      BY <3>4
    <3> HIDE DEF f
    <3> QED
      BY <2>1, <3>2, <3>5, SameReports
  <2> QED
    BY <2>3, <2>4
<1>3. CASE Resume \/ UNCHANGED vars
  <2>1. UNCHANGED <<page, server, vm, batch>>
    BY <1>3 DEF Resume, vars, clientVars
  <2>2. Behind("order")
    BY <1>1, <2>1 DEF Behind
  <2> QED
    BY <2>1, <2>2, BehindReports
<1>4. CASE Callbacks
  BY <1>4, CallbackReports DEF Callbacks
<1> QED
  BY <1>2, <1>3, <1>4, GestureReports DEF Next

LEMMA InitReports == Init => Reporting
<1> SUFFICES ASSUME Init PROVE Reporting
  OBVIOUS
<1>1. batch.no = 0
  BY DEF Init, NoBatch
<1> QED
  BY <1>1 DEF Reporting, Undisturbed

\* Numbered lines are as many as they are long, so a reordering of them is one of their set.
LEMMA ReordersSet ==
  ASSUME NEW lines \in Seq(OrderLines), Numbered(lines), NEW s \in Seq(OrderLines),
         Reorders(s, lines)
  PROVE  s \in SetToSeqs(ToSet(lines))
<1> DEFINE n == Len(lines)
           T == ToSet(lines)
           f == [m \in 1..n |-> lines[m]]
<1>1. /\ n \in Nat /\ DOMAIN lines = 1..n /\ DOMAIN s = 1..Len(s) /\ Len(s) = n
      /\ s = [k \in 1..Len(s) |-> s[k]]
  BY LenProperties DEF Reorders
<1>2. T = {lines[m] : m \in 1..n}
  BY <1>1 DEF ToSet
<1>3. f \in Bijection(1..n, T)
  <2>1. f \in [1..n -> T]
    BY <1>2
  <2>2. \A j, m \in 1..n : f[j] = f[m] => j = m
    <3>1. \A m \in 1..n : lines[m].item = m
      BY DEF Numbered
    <3> QED
      BY <3>1
  <2>3. \A t \in T : \E m \in 1..n : f[m] = t
    BY <1>2
  <2> HIDE DEF f, T, n
  <2> QED
    BY <2>1, <2>2, <2>3 DEF Bijection, Injection, IsInjective, Surjection
<1> HIDE DEF f, T
<1>4. Cardinality(T) = n
  <2>1. ExistsBijection(1..n, T)
    BY <1>3 DEF ExistsBijection
  <2> QED
    BY <1>1, <2>1, FS_CountingElements
<1>5. s \in [1..n -> T]
  <2>1. \A k \in 1..n : s[k] \in T
    BY <1>1, <1>2 DEF Reorders
  <2> QED
    BY <1>1, <2>1
<1>6. \A j, k \in 1..n : j # k => s[j] # s[k]
  BY <1>1 DEF Reorders
<1>7. s \in SetToSeqs(T)
  BY <1>4, <1>5, <1>6 DEF SetToSeqs
<1> QED
  BY <1>7 DEF T

\* For any quantities, however the answers of a batch come and whatever else is asked meanwhile,
\* the report of a batch that nothing has disturbed has each of its orders once, and they come to
\* the quantity that was confirmed.
THEOREM ReportsWholeBatch == Spec => []ReportIsWhole
<1>1. TypeInv /\ Reporting => ReportIsWhole
  <2> SUFFICES ASSUME TypeInv, Reporting, Undisturbed, ~Outstanding(batch.no)
               PROVE  /\ vm.result \in SetToSeqs(ToSet(batch.lines))
                      /\ Quantity(vm.result) = batch.asked
    BY DEF ReportIsWhole, Undisturbed, Quantity
  <2>1. Reorders(vm.result, batch.lines) /\ vm.result \in Seq(OrderLines)
    BY ReportReorders
  <2>2. Numbered(batch.lines) /\ Amounts(batch.lines, batch.asked)
    BY DEF Reporting, Batched
  <2>3. batch.lines \in Seq(OrderLines)
    BY DEF TypeInv, ViewOK
  <2> QED
    BY <2>1, <2>2, <2>3, ReordersSet, QuantityOfReport
<1> QED
  BY <1>1, InitTypes, NextTypes, InitReports, NextReports, PTL DEF Spec
=============================================================================
