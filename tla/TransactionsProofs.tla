-------------------------- MODULE TransactionsProofs --------------------------
(****************************************************************************)
(* For any transactions, pages and bounds: the types of Transactions, that  *)
(* only what its user approved is approved (ApprovalsAreTheUsers), and that *)
(* a page misses no change of the cell (NoChangeMissed).                    *)
(*                                                                          *)
(* Approvals: a list that says of a transaction that it is approved may be  *)
(* in the storage, on its way there, in an answer, or in an update's hands; *)
(* wherever it is, the user has approved (Approved).                        *)
(* Changes: whatever an open page saw last is what is stored, or there is   *)
(* an event, a request or a newer answer that it has yet to see (Hears).    *)
(****************************************************************************)
EXTENDS Transactions, FiniteSetTheorems, SequenceTheorems, TLAPS

-----------------------------------------------------------------------------
(* Types. *)

Readers == {Cell, Iterator} \union UpdateReaders
CellRequests == [op: {"get"}, reader: Readers] \union [op: {"set"}, versioned: Versioned]
CellAnswers == [reader: Readers, versioned: Versioned]
CellIterators == [waiting: BOOLEAN, provided: Lists \union {None}]
Messages == [id: Ids, result: Decisions]
Ops == {"create", "bundleHash", "txHash"} \union Decisions

CellTypeOK ==
    /\ stored \in Versioned
    /\ requests \in [Contexts -> Seq(CellRequests)]
    /\ answers \in [Contexts -> Seq(CellAnswers)]
    /\ changes \in [Pages -> Nat]
    /\ lastSeen \in [Pages -> Versioned \union {None}]
    /\ iterator \in [Pages -> CellIterators \union {None}]

TxTypeOK ==
    /\ request \in [Ids -> Requests]
    /\ update \in [Updates -> Update]
    /\ window \in [Ids -> Windows]
    /\ messages \in [Ids -> Seq(Messages)]
    /\ sent \subseteq Ids
    /\ pressed \in [Ids -> SUBSET Decisions]

\* An update awaits one of its reads.
Waits(u) == update[u].step \in {"read", "update", "write"}

\* The update that each request awaits, by the state of the request.
RequestsOK ==
    /\ \A i \in Ids :
           /\ Waits(<<i, 0>>) <=> request[i] \in {"creating", "deciding", "recording"}
           /\ request[i] = "creating" => update[<<i, 0>>].op = "create"
           /\ request[i] = "deciding" => update[<<i, 0>>].op \in Decisions
           /\ request[i] = "recording" => update[<<i, 0>>].op = "bundleHash"
    /\ \A u \in Updates : u[2] # 0 /\ Waits(u) => update[u].op = "txHash"

-----------------------------------------------------------------------------
(* Approvals. *)

\* What a list says is approved, has been, by presses.
Approved(list, presses) ==
    \A i \in DOMAIN list : list[i].status = "approved" => "approved" \in presses[i]

ApprovedRequests(reqs, presses) ==
    \A n \in DOMAIN reqs :
        reqs[n].op = "set" => Approved(reqs[n].versioned.value, presses)

ApprovedAnswers(answs, presses) ==
    \A n \in DOMAIN answs : Approved(answs[n].versioned.value, presses)

ApprovedInCell ==
    /\ Approved(stored.value, pressed)
    /\ \A c \in Contexts :
           ApprovedRequests(requests[c], pressed) /\ ApprovedAnswers(answers[c], pressed)

ApprovedInUpdates ==
    \A u \in Updates :
        /\ Approved(update[u].list, pressed)
        /\ update[u].op = "approved" => "approved" \in pressed[u[1]]

ApprovedByRequests ==
    \A i \in Ids :
        /\ request[i] \in {"sending", "recording", "done"} => "approved" \in pressed[i]
        /\ i \in sent => "approved" \in pressed[i]

MessagesOK ==
    \A i \in Ids : \A n \in DOMAIN messages[i] :
        messages[i][n].id = i /\ messages[i][n].result \in pressed[i]

-----------------------------------------------------------------------------
(* Readers. *)

\* Where in the queues of a context its answer is.
InRequests(reqs, reader) ==
    {n \in DOMAIN reqs : reqs[n].op = "get" /\ reqs[n].reader = reader}
InAnswers(answs, reader) == {n \in DOMAIN answs : answs[n].reader = reader}

AwaitsOne(reqs, answs, reader) ==
    \/ InAnswers(answs, reader) = {} /\ \E n : InRequests(reqs, reader) = {n}
    \/ InRequests(reqs, reader) = {} /\ \E n : InAnswers(answs, reader) = {n}

AwaitsNone(reqs, answs, reader) ==
    InRequests(reqs, reader) = {} /\ InAnswers(answs, reader) = {}

\* Whoever waits for an answer, waits for one.
AwaitsOK(waits, reqs, answs, reader) ==
    IF waits THEN AwaitsOne(reqs, answs, reader) ELSE AwaitsNone(reqs, answs, reader)

UpdatesAwait ==
    \A u \in Updates :
        AwaitsOK(Waits(u), requests[Background], answers[Background], Reader(u))

-----------------------------------------------------------------------------
(* Pages. *)

\* The last that a page saw, or is about to see, is what is stored, if no event or
\* request will tell it more.
Hears(value, reqs, answs, events, seen) ==
    \/ events > 0
    \/ reqs # << >>
    \/ answs # << >> /\ answs[Len(answs)].versioned = value
    \/ answs = << >> /\ seen = value

PageOK(value, reqs, answs, events, seen, it) ==
    IF it = None THEN reqs = << >> /\ answs = << >> /\ events = 0
    ELSE /\ AwaitsOK(~it.waiting, reqs, answs, Iterator)
         /\ Hears(value, reqs, answs, events, seen)
         /\ it.waiting => seen \in Versioned /\ it.provided = seen.value

PagesOK ==
    \A p \in Pages :
        PageOK(stored, requests[p], answers[p], changes[p], lastSeen[p], iterator[p])

-----------------------------------------------------------------------------
CellInv == CellTypeOK /\ ApprovedInCell /\ UpdatesAwait /\ PagesOK

TxInv ==
    TxTypeOK /\ RequestsOK /\ ApprovedInUpdates /\ ApprovedByRequests /\ MessagesOK

IInv == CellInv /\ TxInv

-----------------------------------------------------------------------------
(* Lemmas about queues.                                                     *)

LEMMA ReadersDiffer ==
  /\ Cell # Iterator
  /\ \A u \in Updates : Reader(u) \notin {Cell, Iterator}
  /\ \A u, v \in Updates : Reader(u) = Reader(v) => u = v
BY DEF Cell, Iterator, Reader

\* A request for the last place.
LEMMA SendsOne ==
  ASSUME NEW reqs \in Seq(CellRequests), NEW item \in CellRequests
  PROVE  /\ reqs \o <<item>> \in Seq(CellRequests)
         /\ reqs \o <<item>> # << >>
         /\ Len(reqs \o <<item>>) = Len(reqs) + 1
         /\ \A n \in 1 .. Len(reqs) : (reqs \o <<item>>)[n] = reqs[n]
         /\ (reqs \o <<item>>)[Len(reqs) + 1] = item
OBVIOUS

LEMMA ItemsOK ==
  /\ \A r \in Readers : /\ Get(r) \in CellRequests
                        /\ Get(r).op = "get" /\ Get(r).reader = r
  /\ \A v \in Versioned : /\ Set(v) \in CellRequests
                          /\ Set(v).op = "set" /\ Set(v).versioned = v
BY DEF Get, Set, CellRequests

\* A reader that awaits nothing asks for an answer; it awaits one, and others what
\* they awaited before.
LEMMA AwaitsGet ==
  ASSUME NEW reqs \in Seq(CellRequests), NEW answs \in Seq(CellAnswers),
         NEW r \in Readers, NEW reader \in Readers
  PROVE  /\ r = reader /\ AwaitsNone(reqs, answs, reader) =>
                AwaitsOne(reqs \o <<Get(r)>>, answs, reader)
         /\ r # reader =>
                /\ AwaitsNone(reqs, answs, reader) =>
                       AwaitsNone(reqs \o <<Get(r)>>, answs, reader)
                /\ AwaitsOne(reqs, answs, reader) =>
                       AwaitsOne(reqs \o <<Get(r)>>, answs, reader)
<1> DEFINE new == reqs \o <<Get(r)>>
<1>1. /\ new \in Seq(CellRequests) /\ Len(new) = Len(reqs) + 1 /\ Len(reqs) \in Nat
      /\ \A n \in 1 .. Len(reqs) : new[n] = reqs[n]
      /\ new[Len(reqs) + 1].op = "get" /\ new[Len(reqs) + 1].reader = r
  BY SendsOne, ItemsOK
<1> HIDE DEF new
<1>2. InRequests(new, reader) =
          InRequests(reqs, reader) \union (IF r = reader THEN {Len(reqs) + 1} ELSE {})
  <2>1. DOMAIN new = 1 .. Len(reqs) + 1 /\ DOMAIN reqs = 1 .. Len(reqs)
    BY <1>1
  <2> QED
    BY <1>1, <2>1 DEF InRequests
<1> QED
  BY <1>2 DEF AwaitsNone, AwaitsOne, new

LEMMA AwaitsSet ==
  ASSUME NEW reqs \in Seq(CellRequests), NEW answs \in Seq(CellAnswers),
         NEW v \in Versioned, NEW reader \in Readers
  PROVE  /\ AwaitsNone(reqs, answs, reader) =>
                AwaitsNone(reqs \o <<Set(v)>>, answs, reader)
         /\ AwaitsOne(reqs, answs, reader) =>
                AwaitsOne(reqs \o <<Set(v)>>, answs, reader)
<1> DEFINE new == reqs \o <<Set(v)>>
<1>1. /\ new \in Seq(CellRequests) /\ Len(new) = Len(reqs) + 1 /\ Len(reqs) \in Nat
      /\ \A n \in 1 .. Len(reqs) : new[n] = reqs[n]
      /\ new[Len(reqs) + 1].op = "set"
  BY SendsOne, ItemsOK
<1> HIDE DEF new
<1>2. InRequests(new, reader) = InRequests(reqs, reader)
  <2>1. DOMAIN new = 1 .. Len(reqs) + 1 /\ DOMAIN reqs = 1 .. Len(reqs)
    BY <1>1
  <2> QED
    BY <1>1, <2>1 DEF InRequests
<1> QED
  BY <1>2 DEF AwaitsNone, AwaitsOne, new

\* All but the first of a queue.
LEMMA Tails ==
  ASSUME NEW T, NEW s \in Seq(T), s # << >>
  PROVE  /\ Tail(s) \in Seq(T) /\ Len(Tail(s)) = Len(s) - 1
         /\ Len(s) \in Nat \ {0} /\ Head(s) = s[1] /\ s[1] \in T
         /\ DOMAIN s = 1 .. Len(s) /\ DOMAIN Tail(s) = 1 .. Len(s) - 1
         /\ \A n \in 1 .. Len(s) - 1 : Tail(s)[n] = s[n + 1]
OBVIOUS

\* The elements at n of a tail are those at n + 1.
LEMMA Shifts ==
  ASSUME NEW m \in Nat, NEW S, NEW T, S \subseteq 2 .. m,
         \A n : n \in T <=> n \in 1 .. m - 1 /\ n + 1 \in S
  PROVE  /\ S = {} => T = {}
         /\ (\E n : S = {n}) => \E n : T = {n}
<1> SUFFICES ASSUME NEW n, S = {n} PROVE T = {n - 1}
  OBVIOUS
<1>1. n \in 2 .. m /\ n - 1 \in 1 .. m - 1 /\ (n - 1) + 1 = n
  OBVIOUS
<1> QED
  BY <1>1

\* The first answer goes to the reader that awaits it.
LEMMA AwaitsAnswer ==
  ASSUME NEW reqs \in Seq(CellRequests), NEW answs \in Seq(CellAnswers),
         answs # << >>, NEW reader \in Readers
  PROVE  /\ Head(answs).reader = reader /\ AwaitsOne(reqs, answs, reader) =>
                AwaitsNone(reqs, Tail(answs), reader)
         /\ Head(answs).reader # reader =>
                /\ AwaitsNone(reqs, answs, reader) => AwaitsNone(reqs, Tail(answs), reader)
                /\ AwaitsOne(reqs, answs, reader) => AwaitsOne(reqs, Tail(answs), reader)
<1> DEFINE m == Len(answs)
           T == InAnswers(Tail(answs), reader)
           S == InAnswers(answs, reader)
<1>1. /\ m \in Nat /\ Head(answs) = answs[1] /\ DOMAIN answs = 1 .. m
      /\ DOMAIN Tail(answs) = 1 .. m - 1 /\ 1 \in 1 .. m
      /\ \A n \in 1 .. m - 1 : Tail(answs)[n] = answs[n + 1]
  BY Tails
<1>2. \A n : n \in T <=> n \in 1 .. m - 1 /\ n + 1 \in S
  BY <1>1 DEF InAnswers
<1>3. S \subseteq 1 .. m /\ (1 \in S <=> Head(answs).reader = reader)
  BY <1>1 DEF InAnswers
<1> HIDE DEF m, T, S
<1>4. CASE Head(answs).reader = reader
  <2>1. S = {1} => T = {}
    BY <1>1, <1>2
  <2> QED
    BY <1>3, <1>4, <2>1 DEF AwaitsOne, AwaitsNone, S, T
<1>5. CASE Head(answs).reader # reader
  <2>1. S \subseteq 2 .. m
    BY <1>1, <1>3, <1>5
  <2>2. /\ S = {} => T = {}
        /\ (\E n : S = {n}) => \E n : T = {n}
    BY <1>1, <1>2, <2>1, Shifts
  <2> QED
    BY <1>5, <2>2 DEF AwaitsOne, AwaitsNone, S, T
<1> QED
  BY <1>4, <1>5

\* The browser answers the first request.
LEMMA AwaitsBrowser ==
  ASSUME NEW reqs \in Seq(CellRequests), NEW answs \in Seq(CellAnswers),
         reqs # << >>, Head(reqs).op = "get", NEW v \in Versioned,
         NEW reader \in Readers
  PROVE  LET new == Append(answs, [reader |-> Head(reqs).reader, versioned |-> v]) IN
         /\ new \in Seq(CellAnswers)
         /\ AwaitsNone(reqs, answs, reader) => AwaitsNone(Tail(reqs), new, reader)
         /\ AwaitsOne(reqs, answs, reader) => AwaitsOne(Tail(reqs), new, reader)
<1> DEFINE m == Len(reqs)
           k == Len(answs)
           new == Append(answs, [reader |-> Head(reqs).reader, versioned |-> v])
           S == InRequests(reqs, reader)
           T == InRequests(Tail(reqs), reader)
<1>1. /\ m \in Nat /\ Head(reqs) = reqs[1] /\ DOMAIN reqs = 1 .. m
      /\ reqs[1] \in CellRequests
      /\ DOMAIN Tail(reqs) = 1 .. m - 1 /\ 1 \in 1 .. m
      /\ \A n \in 1 .. m - 1 : Tail(reqs)[n] = reqs[n + 1]
  BY Tails
<1>2. Head(reqs).reader \in Readers
  BY <1>1 DEF CellRequests
<1>3. /\ new \in Seq(CellAnswers) /\ DOMAIN new = 1 .. k + 1 /\ DOMAIN answs = 1 .. k
      /\ k \in Nat /\ new[k + 1].reader = Head(reqs).reader
      /\ \A n \in 1 .. k : new[n] = answs[n]
  <2>1. [reader |-> Head(reqs).reader, versioned |-> v] \in CellAnswers
    BY <1>2 DEF CellAnswers
  <2> QED
    BY <2>1
<1>4. \A n : n \in T <=> n \in 1 .. m - 1 /\ n + 1 \in S
  BY <1>1 DEF InRequests
<1>5. S \subseteq 1 .. m /\ (1 \in S <=> Head(reqs).reader = reader)
  BY <1>1 DEF InRequests
<1>6. InAnswers(new, reader) =
          InAnswers(answs, reader) \union (IF 1 \in S THEN {k + 1} ELSE {})
  BY <1>3, <1>5 DEF InAnswers
<1> HIDE DEF m, k, new, S, T
<1>7. CASE 1 \in S
  <2>1. S = {1} => T = {}
    BY <1>1, <1>4
  <2> QED
    BY <1>3, <1>6, <1>7, <2>1 DEF AwaitsOne, AwaitsNone, S, T, new
<1>8. CASE 1 \notin S
  <2>1. S \subseteq 2 .. m
    BY <1>1, <1>5, <1>8
  <2>2. /\ S = {} => T = {}
        /\ (\E n : S = {n}) => \E n : T = {n}
    <3>1. m \in Nat
      BY <1>1
    <3> QED
      BY <1>4, <2>1, <3>1, Shifts
  <2> QED
    BY <1>3, <1>6, <1>8, <2>2 DEF AwaitsOne, AwaitsNone, S, T, new
<1> QED
  BY <1>7, <1>8

\* The browser has written what the first request is about.
LEMMA AwaitsWritten ==
  ASSUME NEW reqs \in Seq(CellRequests), NEW answs \in Seq(CellAnswers),
         reqs # << >>, Head(reqs).op = "set", NEW reader \in Readers
  PROVE  /\ AwaitsNone(reqs, answs, reader) => AwaitsNone(Tail(reqs), answs, reader)
         /\ AwaitsOne(reqs, answs, reader) => AwaitsOne(Tail(reqs), answs, reader)
<1> DEFINE m == Len(reqs)
           S == InRequests(reqs, reader)
           T == InRequests(Tail(reqs), reader)
<1>1. /\ m \in Nat /\ Head(reqs) = reqs[1] /\ DOMAIN reqs = 1 .. m
      /\ DOMAIN Tail(reqs) = 1 .. m - 1 /\ 1 \in 1 .. m
      /\ \A n \in 1 .. m - 1 : Tail(reqs)[n] = reqs[n + 1]
  BY Tails
<1>2. \A n : n \in T <=> n \in 1 .. m - 1 /\ n + 1 \in S
  BY <1>1 DEF InRequests
<1>3. S \subseteq 1 .. m /\ 1 \notin S
  BY <1>1 DEF InRequests
<1> HIDE DEF m, S, T
<1>4. S \subseteq 2 .. m
  BY <1>1, <1>3
<1>5. /\ S = {} => T = {}
      /\ (\E n : S = {n}) => \E n : T = {n}
  BY <1>1, <1>2, <1>4, Shifts
<1> QED
  BY <1>5 DEF AwaitsOne, AwaitsNone, S, T

-----------------------------------------------------------------------------
(* The browser and the pages.                                               *)

LEMMA ApprovedTail ==
  ASSUME NEW presses
  PROVE  /\ \A reqs \in Seq(CellRequests) :
               reqs # << >> /\ ApprovedRequests(reqs, presses) =>
                   ApprovedRequests(Tail(reqs), presses)
         /\ \A answs \in Seq(CellAnswers) :
               answs # << >> /\ ApprovedAnswers(answs, presses) =>
                   /\ ApprovedAnswers(Tail(answs), presses)
                   /\ Approved(Head(answs).versioned.value, presses)
<1>1. ASSUME NEW reqs \in Seq(CellRequests), reqs # << >>, ApprovedRequests(reqs, presses)
      PROVE  ApprovedRequests(Tail(reqs), presses)
  <2>1. /\ DOMAIN reqs = 1 .. Len(reqs) /\ DOMAIN Tail(reqs) = 1 .. Len(reqs) - 1
        /\ Len(reqs) \in Nat
        /\ \A n \in 1 .. Len(reqs) - 1 : Tail(reqs)[n] = reqs[n + 1]
    BY <1>1, Tails
  <2> QED
    BY <1>1, <2>1 DEF ApprovedRequests
<1>2. ASSUME NEW answs \in Seq(CellAnswers), answs # << >>,
             ApprovedAnswers(answs, presses)
      PROVE  /\ ApprovedAnswers(Tail(answs), presses)
             /\ Approved(Head(answs).versioned.value, presses)
  <2>1. /\ DOMAIN answs = 1 .. Len(answs) /\ DOMAIN Tail(answs) = 1 .. Len(answs) - 1
        /\ Len(answs) \in Nat \ {0} /\ Head(answs) = answs[1]
        /\ \A n \in 1 .. Len(answs) - 1 : Tail(answs)[n] = answs[n + 1]
    BY <1>2, Tails
  <2> QED
    BY <1>2, <2>1 DEF ApprovedAnswers
<1> QED
  BY <1>1, <1>2

LEMMA ApprovedSent ==
  ASSUME NEW presses, NEW reqs \in Seq(CellRequests), ApprovedRequests(reqs, presses)
  PROVE  /\ \A r \in Readers : ApprovedRequests(reqs \o <<Get(r)>>, presses)
         /\ \A v \in Versioned : Approved(v.value, presses) =>
                ApprovedRequests(reqs \o <<Set(v)>>, presses)
<1>1. ASSUME NEW item \in CellRequests,
             item.op = "set" => Approved(item.versioned.value, presses)
      PROVE  ApprovedRequests(reqs \o <<item>>, presses)
  <2>1. /\ DOMAIN (reqs \o <<item>>) = 1 .. Len(reqs) + 1
        /\ DOMAIN reqs = 1 .. Len(reqs) /\ Len(reqs) \in Nat
        /\ \A n \in 1 .. Len(reqs) : (reqs \o <<item>>)[n] = reqs[n]
        /\ (reqs \o <<item>>)[Len(reqs) + 1] = item
    BY SendsOne
  <2> QED
    BY <1>1, <2>1 DEF ApprovedRequests
<1> QED
  BY <1>1, ItemsOK

LEMMA VersionedOK ==
  ASSUME NEW answs \in Seq(CellAnswers), answs # << >>
  PROVE  /\ Head(answs) \in CellAnswers
         /\ Head(answs).versioned \in Versioned
         /\ Head(answs).versioned.value \in Lists
         /\ Head(answs).versioned.version \in Nat
<1>1. Head(answs) \in CellAnswers
  BY Tails
<1> QED
  BY <1>1 DEF CellAnswers, Versioned

LEMMA BrowserStepOK ==
  ASSUME CellInv, NEW c \in Contexts, BrowserStep(c), UNCHANGED txVars
  PROVE  CellInv'
<1> DEFINE reqs == requests[c]
           answs == answers[c]
<1>1. /\ reqs \in Seq(CellRequests) /\ answs \in Seq(CellAnswers)
      /\ requests \in [Contexts -> Seq(CellRequests)]
      /\ answers \in [Contexts -> Seq(CellAnswers)]
      /\ stored \in Versioned /\ changes \in [Pages -> Nat]
      /\ ApprovedRequests(reqs, pressed) /\ ApprovedAnswers(answs, pressed)
      /\ Approved(stored.value, pressed)
  BY DEF CellInv, CellTypeOK, ApprovedInCell
<1>2. /\ reqs # << >> /\ requests' = [requests EXCEPT ![c] = Tail(reqs)]
      /\ UNCHANGED <<lastSeen, iterator>>
      /\ pressed' = pressed /\ update' = update
  BY DEF BrowserStep, BrowserGets, BrowserSets, txVars
<1>3. /\ Tail(reqs) \in Seq(CellRequests) /\ ApprovedRequests(Tail(reqs), pressed)
      /\ Head(reqs) = reqs[1] /\ Head(reqs) \in CellRequests /\ 1 \in DOMAIN reqs
  <2>1. reqs \in Seq(CellRequests) /\ reqs # << >> /\ ApprovedRequests(reqs, pressed)
    BY <1>1, <1>2
  <2> HIDE DEF reqs
  <2>2. /\ Tail(reqs) \in Seq(CellRequests) /\ Head(reqs) = reqs[1]
        /\ reqs[1] \in CellRequests /\ DOMAIN reqs = 1 .. Len(reqs)
        /\ Len(reqs) \in Nat \ {0}
    BY <2>1, Tails
  <2>3. ApprovedRequests(Tail(reqs), pressed)
    BY <2>1, ApprovedTail
  <2> QED
    BY <2>2, <2>3
<1>4. /\ Background \in Contexts /\ Pages \subseteq Contexts
      /\ \A u \in Updates : Reader(u) \in Readers
      /\ Iterator \in Readers
  BY DEF Contexts, Readers, UpdateReaders
<1>5. CASE BrowserGets(c)
  <2> DEFINE new == Append(answs, [reader |-> Head(reqs).reader, versioned |-> stored])
  <2>1. /\ Head(reqs).op = "get" /\ answers' = [answers EXCEPT ![c] = new]
        /\ UNCHANGED <<stored, changes>>
    BY <1>5 DEF BrowserGets
  <2>2. /\ new \in Seq(CellAnswers)
        /\ \A r \in Readers :
             /\ AwaitsNone(reqs, answs, r) => AwaitsNone(Tail(reqs), new, r)
             /\ AwaitsOne(reqs, answs, r) => AwaitsOne(Tail(reqs), new, r)
    <3>1. /\ reqs \in Seq(CellRequests) /\ reqs # << >> /\ Head(reqs).op = "get"
          /\ answs \in Seq(CellAnswers) /\ stored \in Versioned
      BY <1>1, <1>2, <2>1
    <3> HIDE DEF reqs, answs
    <3>2. Iterator \in Readers
      BY <1>4
    <3>3. new \in Seq(CellAnswers)
      BY <3>1, <3>2, AwaitsBrowser
    <3>4. ASSUME NEW r \in Readers
          PROVE  /\ AwaitsNone(reqs, answs, r) => AwaitsNone(Tail(reqs), new, r)
                 /\ AwaitsOne(reqs, answs, r) => AwaitsOne(Tail(reqs), new, r)
      BY <3>1, AwaitsBrowser
    <3> QED
      BY <3>3, <3>4
  <2>3. ApprovedAnswers(new, pressed) /\ new # << >> /\ new[Len(new)].versioned = stored
    BY <1>1, <2>2 DEF ApprovedAnswers
  <2> HIDE DEF new
  <2>4. /\ requests'[c] = Tail(reqs) /\ answers'[c] = new
        /\ \A d \in Contexts \ {c} : requests'[d] = requests[d] /\ answers'[d] = answers[d]
    BY <1>1, <1>2, <2>1
  <2>5. CellTypeOK'
    BY <1>1, <1>2, <1>3, <2>1, <2>2 DEF CellInv, CellTypeOK
  <2>6. ApprovedInCell'
    BY <1>2, <1>3, <2>1, <2>3, <2>4 DEF CellInv, ApprovedInCell
  <2>7. UpdatesAwait'
    BY <1>2, <1>4, <2>2, <2>4 DEF CellInv, UpdatesAwait, AwaitsOK, Waits
  <2>8. PagesOK'
    <3> SUFFICES ASSUME NEW p \in Pages
                 PROVE  PageOK(stored, requests'[p], answers'[p], changes[p],
                               lastSeen[p], iterator[p])
      BY <1>2, <2>1 DEF PagesOK
    <3>1. PageOK(stored, requests[p], answers[p], changes[p], lastSeen[p], iterator[p])
      BY DEF CellInv, PagesOK
    <3>2. CASE p = c
      BY <1>2, <1>4, <2>2, <2>3, <2>4, <3>1, <3>2 DEF PageOK, AwaitsOK, Hears
    <3> QED
      BY <1>4, <2>4, <3>1, <3>2
  <2> QED
    BY <2>5, <2>6, <2>7, <2>8 DEF CellInv
<1>6. CASE BrowserSets(c)
  <2>1. /\ Head(reqs).op = "set" /\ stored' = Head(reqs).versioned
        /\ changes' = [p \in Pages |-> IF p \in Open THEN changes[p] + 1 ELSE 0]
        /\ answers' = answers
    BY <1>6 DEF BrowserSets
  <2>2. \A r \in Readers :
             /\ AwaitsNone(reqs, answs, r) => AwaitsNone(Tail(reqs), answs, r)
             /\ AwaitsOne(reqs, answs, r) => AwaitsOne(Tail(reqs), answs, r)
    BY <1>1, <1>2, <2>1, AwaitsWritten
  <2>3. stored' \in Versioned /\ Approved(stored'.value, pressed)
    BY <1>1, <1>3, <2>1 DEF CellRequests, ApprovedRequests
  <2>4. /\ requests'[c] = Tail(reqs)
        /\ \A d \in Contexts \ {c} : requests'[d] = requests[d]
    BY <1>1, <1>2
  <2>5. changes' \in [Pages -> Nat]
    BY <1>1, <2>1
  <2>6. CellTypeOK'
    BY <1>1, <1>2, <1>3, <2>1, <2>3, <2>5 DEF CellInv, CellTypeOK
  <2>7. ApprovedInCell'
    BY <1>2, <1>3, <2>1, <2>3, <2>4 DEF CellInv, ApprovedInCell
  <2>8. UpdatesAwait'
    BY <1>2, <1>4, <2>1, <2>2, <2>4 DEF CellInv, UpdatesAwait, AwaitsOK, Waits
  <2>9. PagesOK'
    <3> SUFFICES ASSUME NEW p \in Pages
                 PROVE  PageOK(stored', requests'[p], answers[p], changes'[p],
                               lastSeen[p], iterator[p])
      BY <1>2, <2>1 DEF PagesOK
    <3>1. PageOK(stored, requests[p], answers[p], changes[p], lastSeen[p], iterator[p])
      BY DEF CellInv, PagesOK
    <3>2. IF iterator[p] = None THEN changes'[p] = 0 ELSE changes'[p] > 0
      BY <1>1, <2>1 DEF Open
    <3>3. p \in Contexts
      BY <1>4
    <3>4. CASE p = c
      BY <1>2, <1>4, <2>2, <2>4, <3>1, <3>2, <3>4 DEF PageOK, AwaitsOK, Hears
    <3>5. CASE p # c
      BY <2>4, <3>1, <3>2, <3>3, <3>5 DEF PageOK, Hears
    <3> QED
      BY <3>4, <3>5
  <2> QED
    BY <2>6, <2>7, <2>8, <2>9 DEF CellInv
<1> QED
  BY <1>5, <1>6 DEF BrowserStep

\* Only page p does anything, and as long as it is all right, everything is.
LEMMA OnePage ==
  ASSUME CellInv, NEW p \in Pages,
         NEW reqs \in Seq(CellRequests), NEW answs \in Seq(CellAnswers),
         NEW events \in Nat, NEW seen \in Versioned \union {None},
         NEW it \in CellIterators,
         requests' = [requests EXCEPT ![p] = reqs],
         answers' = [answers EXCEPT ![p] = answs],
         changes' = [changes EXCEPT ![p] = events],
         lastSeen' = [lastSeen EXCEPT ![p] = seen],
         iterator' = [iterator EXCEPT ![p] = it],
         stored' = stored, UNCHANGED txVars,
         ApprovedRequests(reqs, pressed), ApprovedAnswers(answs, pressed),
         PageOK(stored, reqs, answs, events, seen, it)
  PROVE  CellInv'
<1>1. CellTypeOK'
  BY DEF CellInv, CellTypeOK
<1>2. /\ p \in Contexts /\ Background \in Contexts /\ p # Background
      /\ Pages \subseteq Contexts
  BY TransactionsAssumption DEF Contexts
<1>3. pressed' = pressed /\ update' = update
  BY DEF txVars
<1>4. /\ requests'[p] = reqs /\ answers'[p] = answs /\ changes'[p] = events
      /\ lastSeen'[p] = seen /\ iterator'[p] = it
      /\ \A c \in Contexts \ {p} : requests'[c] = requests[c] /\ answers'[c] = answers[c]
      /\ \A q \in Pages \ {p} : /\ changes'[q] = changes[q] /\ lastSeen'[q] = lastSeen[q]
                                /\ iterator'[q] = iterator[q]
  BY <1>2 DEF CellInv, CellTypeOK
<1>5. ApprovedInCell'
  BY <1>3, <1>4 DEF CellInv, ApprovedInCell
<1>6. UpdatesAwait'
  BY <1>2, <1>3, <1>4 DEF CellInv, UpdatesAwait, Waits
<1>7. PagesOK'
  BY <1>2, <1>4 DEF CellInv, PagesOK
<1> QED
  BY <1>1, <1>5, <1>6, <1>7 DEF CellInv

LEMMA NoItems ==
  /\ << >> \in Seq(CellRequests) /\ << >> \in Seq(CellAnswers)
  /\ \A reader : AwaitsNone(<< >>, << >>, reader)
  /\ \A presses : ApprovedRequests(<< >>, presses) /\ ApprovedAnswers(<< >>, presses)
BY DEF AwaitsNone, InRequests, InAnswers, ApprovedRequests, ApprovedAnswers

LEMMA OpenPageOK ==
  ASSUME CellInv, NEW p \in Pages, OpenPage(p), UNCHANGED txVars
  PROVE  CellInv'
<1> DEFINE it == [waiting |-> FALSE, provided |-> None]
           first == << >> \o <<Get(Cell)>>
           reqs == first \o <<Get(Iterator)>>
<1>1. /\ iterator[p] = None /\ iterator' = [iterator EXCEPT ![p] = it]
      /\ requests' = [requests EXCEPT ![p] = requests[p] \o <<Get(Cell), Get(Iterator)>>]
      /\ UNCHANGED <<stored, answers, changes, lastSeen>>
  BY DEF OpenPage, Open, Send
<1>2. requests[p] = << >> /\ answers[p] = << >>
  BY <1>1 DEF CellInv, PagesOK, PageOK
<1>3. requests[p] \o <<Get(Cell), Get(Iterator)>> = reqs
  BY <1>2
<1>4. Cell \in Readers /\ Iterator \in Readers /\ Cell # Iterator
  BY ReadersDiffer DEF Readers
<1>5. first \in Seq(CellRequests) /\ reqs \in Seq(CellRequests) /\ reqs # << >>
  <2>1. first \in Seq(CellRequests)
    BY <1>4, NoItems, ItemsOK, SendsOne
  <2> HIDE DEF first
  <2> QED
    BY <1>4, <2>1, ItemsOK, SendsOne
<1>6. ApprovedRequests(reqs, pressed)
  <2>1. ApprovedRequests(first, pressed)
    BY <1>4, NoItems, ApprovedSent
  <2> HIDE DEF first
  <2> QED
    BY <1>4, <1>5, <2>1, ApprovedSent
<1>7. AwaitsOne(reqs, << >>, Iterator)
  <2>1. AwaitsNone(first, << >>, Iterator)
    BY <1>4, NoItems, AwaitsGet
  <2> HIDE DEF first
  <2> QED
    BY <1>4, <1>5, <2>1, NoItems, AwaitsGet
<1>8. it \in CellIterators /\ it # None /\ ~it.waiting
  <2>1. it \in CellIterators
    BY DEF CellIterators
  <2> HIDE DEF it
  <2>2. it # None
    BY <2>1, NoneAssumption DEF CellIterators
  <2> QED
    BY <2>1, <2>2 DEF it
<1> HIDE DEF it, reqs, first
<1>9. PageOK(stored, reqs, << >>, changes[p], lastSeen[p], it)
  BY <1>5, <1>7, <1>8 DEF PageOK, AwaitsOK, Hears
<1>10. /\ answers' = [answers EXCEPT ![p] = << >>]
       /\ changes' = [changes EXCEPT ![p] = changes[p]]
       /\ lastSeen' = [lastSeen EXCEPT ![p] = lastSeen[p]]
       /\ changes[p] \in Nat /\ lastSeen[p] \in Versioned \union {None}
  BY <1>1, <1>2 DEF CellInv, CellTypeOK
<1> QED
  BY <1>1, <1>3, <1>5, <1>6, <1>8, <1>9, <1>10, NoItems, OnePage

LEMMA HandleChangeOK ==
  ASSUME CellInv, NEW p \in Pages, HandleChange(p), UNCHANGED txVars
  PROVE  CellInv'
<1> DEFINE reqs == requests[p] \o <<Get(Cell)>>
<1>1. /\ changes[p] > 0 /\ changes' = [changes EXCEPT ![p] = changes[p] - 1]
      /\ requests' = [requests EXCEPT ![p] = reqs]
      /\ UNCHANGED <<stored, answers, lastSeen, iterator>>
  BY DEF HandleChange, Send
<1>2. /\ p \in Contexts /\ iterator[p] \in CellIterators /\ iterator[p] # None
      /\ Cell \in Readers /\ Iterator \in Readers /\ Cell # Iterator
  <2>1. iterator[p] # None
    BY <1>1 DEF CellInv, PagesOK, PageOK
  <2> QED
    BY <2>1, ReadersDiffer DEF CellInv, CellTypeOK, Contexts, Readers
<1>3. /\ requests[p] \in Seq(CellRequests) /\ answers[p] \in Seq(CellAnswers)
      /\ ApprovedRequests(requests[p], pressed) /\ ApprovedAnswers(answers[p], pressed)
  BY <1>2 DEF CellInv, CellTypeOK, ApprovedInCell
<1>4. reqs \in Seq(CellRequests) /\ reqs # << >>
  BY <1>2, <1>3, ItemsOK, SendsOne
<1>5. ApprovedRequests(reqs, pressed)
  BY <1>2, <1>3, ApprovedSent
<1>6. PageOK(stored, requests[p], answers[p], changes[p], lastSeen[p], iterator[p])
  BY DEF CellInv, PagesOK
<1>7. /\ AwaitsNone(requests[p], answers[p], Iterator) => AwaitsNone(reqs, answers[p], Iterator)
      /\ AwaitsOne(requests[p], answers[p], Iterator) => AwaitsOne(reqs, answers[p], Iterator)
  BY <1>2, <1>3, AwaitsGet
<1> HIDE DEF reqs
<1>8. PageOK(stored, reqs, answers[p], changes[p] - 1, lastSeen[p], iterator[p])
  BY <1>2, <1>4, <1>6, <1>7 DEF PageOK, AwaitsOK, Hears
<1>9. /\ changes[p] - 1 \in Nat /\ lastSeen[p] \in Versioned \union {None}
      /\ answers' = [answers EXCEPT ![p] = answers[p]]
      /\ lastSeen' = [lastSeen EXCEPT ![p] = lastSeen[p]]
      /\ iterator' = [iterator EXCEPT ![p] = iterator[p]]
  BY <1>1 DEF CellInv, CellTypeOK
<1> QED
  BY <1>1, <1>2, <1>3, <1>4, <1>5, <1>8, <1>9, OnePage

\* What page p has yet to hear when it takes an answer: no less than before.
LEMMA HearsNext ==
  ASSUME NEW value, NEW reqs, NEW answs \in Seq(CellAnswers), answs # << >>,
         NEW events \in Nat, NEW seen, Hears(value, reqs, answs, events, seen)
  PROVE  Hears(value, reqs, Tail(answs), events, Head(answs).versioned)
<1>1. /\ Len(Tail(answs)) = Len(answs) - 1 /\ Len(answs) \in Nat \ {0}
      /\ Head(answs) = answs[1] /\ Tail(answs) \in Seq(CellAnswers)
      /\ \A n \in 1 .. Len(answs) - 1 : Tail(answs)[n] = answs[n + 1]
  BY Tails
<1>2. CASE Tail(answs) = << >>
  <2>1. Len(answs) = 1
    <3>1. Len(Tail(answs)) = 0
      BY <1>1, <1>2, EmptySeq
    <3>2. Len(answs) - 1 = 0 /\ Len(answs) \in Nat
      BY <1>1, <3>1
    <3> QED
      BY <3>2
  <2> QED
    BY <1>1, <1>2, <2>1 DEF Hears
<1>3. CASE Tail(answs) # << >>
  <2>1. Len(Tail(answs)) \in 1 .. Len(answs) - 1
    BY <1>1, <1>3
  <2>2. Tail(answs)[Len(Tail(answs))] = answs[Len(answs)]
    BY <1>1, <2>1
  <2> QED
    BY <1>3, <2>2 DEF Hears
<1> QED
  BY <1>2, <1>3


\* Page p takes an answer.
Takes(p, reader) ==
    Answered(p, reader) /\ VersionedRead(p) /\ UNCHANGED <<stored, changes>>

LEMMA TakesOK ==
  ASSUME CellInv, NEW p \in Pages, NEW reader \in {Cell, Iterator}, Takes(p, reader)
  PROVE  /\ answers[p] # << >> /\ Head(answers[p]).reader = reader
         /\ answers' = [answers EXCEPT ![p] = Tail(answers[p])]
         /\ lastSeen' = [lastSeen EXCEPT ![p] = Answer(p)]
         /\ changes' = [changes EXCEPT ![p] = changes[p]] /\ stored' = stored
         /\ requests[p] \in Seq(CellRequests) /\ ApprovedRequests(requests[p], pressed)
         /\ answers[p] \in Seq(CellAnswers)
         /\ Tail(answers[p]) \in Seq(CellAnswers)
         /\ ApprovedAnswers(Tail(answers[p]), pressed)
         /\ Answer(p) \in Versioned /\ Answer(p).value \in Lists
         /\ changes[p] \in Nat /\ iterator[p] \in CellIterators /\ iterator[p] # None
         /\ AwaitsOK(~iterator[p].waiting, requests[p], answers[p], Iterator)
         /\ iterator[p].waiting =>
                lastSeen[p] \in Versioned /\ iterator[p].provided = lastSeen[p].value
         /\ Hears(stored, requests[p], Tail(answers[p]), changes[p], Answer(p))
<1>1. /\ answers[p] # << >> /\ Head(answers[p]).reader = reader
      /\ answers' = [answers EXCEPT ![p] = Tail(answers[p])]
      /\ lastSeen' = [lastSeen EXCEPT ![p] = Answer(p)]
      /\ changes' = changes /\ stored' = stored
      /\ Answer(p) = Head(answers[p]).versioned
  BY DEF Takes, Answered, VersionedRead, Answer
<1>2. PageOK(stored, requests[p], answers[p], changes[p], lastSeen[p], iterator[p])
  BY DEF CellInv, PagesOK
<1>3. /\ p \in Contexts /\ iterator[p] \in CellIterators /\ iterator[p] # None
      /\ changes[p] \in Nat
      /\ changes' = [changes EXCEPT ![p] = changes[p]]
  BY <1>1, <1>2 DEF CellInv, CellTypeOK, Contexts, PageOK
<1>4. /\ requests[p] \in Seq(CellRequests) /\ answers[p] \in Seq(CellAnswers)
      /\ ApprovedRequests(requests[p], pressed) /\ ApprovedAnswers(answers[p], pressed)
  BY <1>3 DEF CellInv, CellTypeOK, ApprovedInCell
<1>5. Tail(answers[p]) \in Seq(CellAnswers) /\ ApprovedAnswers(Tail(answers[p]), pressed)
  BY <1>1, <1>4, Tails, ApprovedTail
<1>6. Answer(p) \in Versioned /\ Answer(p).value \in Lists
  BY <1>1, <1>4, VersionedOK
<1>7. /\ AwaitsOK(~iterator[p].waiting, requests[p], answers[p], Iterator)
      /\ Hears(stored, requests[p], answers[p], changes[p], lastSeen[p])
      /\ iterator[p].waiting =>
             lastSeen[p] \in Versioned /\ iterator[p].provided = lastSeen[p].value
  BY <1>2, <1>3 DEF PageOK
<1>8. Hears(stored, requests[p], Tail(answers[p]), changes[p], Answer(p))
  BY <1>1, <1>3, <1>4, <1>7, HearsNext
<1> QED
  BY <1>1, <1>3, <1>4, <1>5, <1>6, <1>7, <1>8

\* The iterator has a value and asks for the next.
LEMMA ProvideOK ==
  ASSUME CellInv, NEW p \in Pages, NEW reader \in {Cell, Iterator}, Takes(p, reader),
         Provide(p), UNCHANGED txVars,
         AwaitsNone(requests[p], Tail(answers[p]), Iterator)
  PROVE  CellInv'
<1> DEFINE asked == requests[p] \o <<Get(Iterator)>>
           it == [waiting |-> FALSE, provided |-> Answer(p).value]
<1>1. /\ answers' = [answers EXCEPT ![p] = Tail(answers[p])]
      /\ lastSeen' = [lastSeen EXCEPT ![p] = Answer(p)]
      /\ changes' = [changes EXCEPT ![p] = changes[p]] /\ stored' = stored
      /\ requests[p] \in Seq(CellRequests) /\ ApprovedRequests(requests[p], pressed)
      /\ Tail(answers[p]) \in Seq(CellAnswers)
      /\ ApprovedAnswers(Tail(answers[p]), pressed)
      /\ Answer(p) \in Versioned /\ Answer(p).value \in Lists /\ changes[p] \in Nat
  BY TakesOK
<1>2. requests' = [requests EXCEPT ![p] = asked] /\ iterator' = [iterator EXCEPT ![p] = it]
  BY DEF Provide, Send
<1>3. Iterator \in Readers
  BY DEF Readers
<1>4. asked \in Seq(CellRequests) /\ asked # << >>
  BY <1>1, <1>3, ItemsOK, SendsOne
<1>5. ApprovedRequests(asked, pressed)
  BY <1>1, <1>3, ApprovedSent
<1>6. AwaitsOne(asked, Tail(answers[p]), Iterator)
  BY <1>1, <1>3, AwaitsGet
<1>7. it \in CellIterators /\ ~it.waiting
  BY <1>1 DEF CellIterators
<1> HIDE DEF asked, it
<1>8. PageOK(stored, asked, Tail(answers[p]), changes[p], Answer(p), it)
  <2>1. it # None
    BY <1>7, NoneAssumption DEF CellIterators
  <2> QED
    BY <1>4, <1>6, <1>7, <2>1 DEF PageOK, AwaitsOK, Hears
<1> QED
  BY <1>1, <1>2, <1>4, <1>5, <1>7, <1>8, OnePage

\* Or it does not ask.
LEMMA RestsOK ==
  ASSUME CellInv, NEW p \in Pages, NEW reader \in {Cell, Iterator}, Takes(p, reader),
         NEW it \in CellIterators, iterator' = [iterator EXCEPT ![p] = it],
         requests' = requests, UNCHANGED txVars,
         AwaitsOK(~it.waiting, requests[p], Tail(answers[p]), Iterator),
         it.waiting => it.provided = Answer(p).value
  PROVE  CellInv'
<1>1. /\ answers' = [answers EXCEPT ![p] = Tail(answers[p])]
      /\ lastSeen' = [lastSeen EXCEPT ![p] = Answer(p)]
      /\ changes' = [changes EXCEPT ![p] = changes[p]] /\ stored' = stored
      /\ requests[p] \in Seq(CellRequests) /\ ApprovedRequests(requests[p], pressed)
      /\ Tail(answers[p]) \in Seq(CellAnswers)
      /\ ApprovedAnswers(Tail(answers[p]), pressed)
      /\ Answer(p) \in Versioned /\ changes[p] \in Nat
      /\ Hears(stored, requests[p], Tail(answers[p]), changes[p], Answer(p))
  BY TakesOK
<1>2. requests' = [requests EXCEPT ![p] = requests[p]]
  BY DEF CellInv, CellTypeOK
<1>3. it # None
  BY NoneAssumption DEF CellIterators
<1>4. PageOK(stored, requests[p], Tail(answers[p]), changes[p], Answer(p), it)
  BY <1>1, <1>3 DEF PageOK
<1> QED
  BY <1>1, <1>2, <1>4, OnePage

LEMMA CellReadOK ==
  ASSUME CellInv, NEW p \in Pages, CellRead(p), UNCHANGED txVars
  PROVE  CellInv'
<1>1. /\ Takes(p, Cell)
      /\ IF iterator[p].waiting /\ HasChanged(p) THEN Provide(p)
         ELSE UNCHANGED <<requests, iterator>>
  BY DEF CellRead, Takes
<1>2. /\ answers[p] # << >> /\ Head(answers[p]).reader = Cell
      /\ requests[p] \in Seq(CellRequests) /\ answers[p] \in Seq(CellAnswers)
      /\ Iterator \in Readers /\ Cell # Iterator
      /\ iterator[p] \in CellIterators
      /\ AwaitsOK(~iterator[p].waiting, requests[p], answers[p], Iterator)
      /\ iterator[p].waiting =>
             lastSeen[p] \in Versioned /\ iterator[p].provided = lastSeen[p].value
  BY <1>1, TakesOK, ReadersDiffer DEF Readers
<1>3. AwaitsOK(~iterator[p].waiting, requests[p], Tail(answers[p]), Iterator)
  BY <1>2, AwaitsAnswer DEF AwaitsOK
<1>4. CASE iterator[p].waiting /\ HasChanged(p)
  BY <1>1, <1>3, <1>4, ProvideOK DEF AwaitsOK
<1>5. CASE ~(iterator[p].waiting /\ HasChanged(p))
  <2>1. iterator' = [iterator EXCEPT ![p] = iterator[p]] /\ requests' = requests
    BY <1>1, <1>5 DEF CellInv, CellTypeOK
  <2>2. iterator[p].waiting => iterator[p].provided = Answer(p).value
    BY <1>2, <1>5 DEF HasChanged
  <2> QED
    BY <1>1, <1>2, <1>3, <2>1, <2>2, RestsOK
<1> QED
  BY <1>4, <1>5

LEMMA IteratorReadOK ==
  ASSUME CellInv, NEW p \in Pages, IteratorRead(p), UNCHANGED txVars
  PROVE  CellInv'
<1>1. /\ Takes(p, Iterator)
      /\ IF iterator[p].provided # Answer(p).value THEN Provide(p)
         ELSE /\ iterator' = [iterator EXCEPT ![p].waiting = TRUE]
              /\ UNCHANGED requests
  BY DEF IteratorRead, Takes
<1>2. /\ answers[p] # << >> /\ Head(answers[p]).reader = Iterator
      /\ requests[p] \in Seq(CellRequests) /\ answers[p] \in Seq(CellAnswers)
      /\ Iterator \in Readers
      /\ iterator[p] \in CellIterators
      /\ AwaitsOK(~iterator[p].waiting, requests[p], answers[p], Iterator)
  BY <1>1, TakesOK DEF Readers
<1>3. AwaitsOne(requests[p], answers[p], Iterator)
  <2>1. 1 \in InAnswers(answers[p], Iterator)
    <3>1. 1 \in DOMAIN answers[p] /\ Head(answers[p]) = answers[p][1]
      BY <1>2, Tails
    <3> QED
      BY <1>2, <3>1 DEF InAnswers
  <2> QED
    BY <1>2, <2>1 DEF AwaitsOK, AwaitsNone
<1>4. AwaitsNone(requests[p], Tail(answers[p]), Iterator)
  BY <1>2, <1>3, AwaitsAnswer
<1>5. CASE iterator[p].provided # Answer(p).value
  BY <1>1, <1>4, <1>5, ProvideOK
<1>6. CASE iterator[p].provided = Answer(p).value
  <2> DEFINE it == [iterator[p] EXCEPT !.waiting = TRUE]
  <2>1. iterator' = [iterator EXCEPT ![p] = it] /\ requests' = requests
    BY <1>1, <1>6
  <2>2. it \in CellIterators /\ it.waiting = TRUE /\ it.provided = iterator[p].provided
    BY <1>2 DEF CellIterators
  <2> HIDE DEF it
  <2>3. AwaitsOK(~it.waiting, requests[p], Tail(answers[p]), Iterator)
    BY <1>4, <2>2 DEF AwaitsOK
  <2> QED
    BY <1>1, <1>6, <2>1, <2>2, <2>3, RestsOK
<1> QED
  BY <1>5, <1>6

LEMMA PageStepOK ==
  ASSUME CellInv, NEW p \in Pages, PageStep(p), UNCHANGED txVars
  PROVE  CellInv'
BY HandleChangeOK, CellReadOK, IteratorReadOK DEF PageStep

-----------------------------------------------------------------------------
(* Lists.                                                                   *)

LEMMA EditedOK ==
  ASSUME NEW presses, NEW op \in Ops, NEW i \in Ids, NEW list \in Lists,
         MayEdit(op, i, list), Approved(list, presses),
         op = "approved" => "approved" \in presses[i]
  PROVE  Edited(op, i, list) \in Lists /\ Approved(Edited(op, i, list), presses)
<1> PICK ids \in SUBSET Ids : list \in [ids -> Transaction]
  BY DEF Lists
<1>1. CASE op = "create"
  <2> DEFINE new == [j \in ids \union {i} |-> IF j = i THEN NewTransaction ELSE list[j]]
  <2>1. Edited(op, i, list) = new
    BY <1>1 DEF Edited, Decisions
  <2>2. NewTransaction \in Transaction /\ NewTransaction.status = "new"
    BY DEF NewTransaction, Transaction
  <2>3. new \in [ids \union {i} -> Transaction] /\ ids \union {i} \in SUBSET Ids
    BY <2>2
  <2>4. Approved(new, presses)
    BY <2>2 DEF Approved
  <2> HIDE DEF new
  <2>5. new \in Lists
    BY <2>3 DEF Lists
  <2> QED
    BY <2>1, <2>4, <2>5
<1>2. ASSUME NEW x \in Transaction, i \in ids,
             Edited(op, i, list) = [list EXCEPT ![i] = x],
             x.status = "approved" =>
                 op = "approved" \/ list[i].status = "approved"
      PROVE  Edited(op, i, list) \in Lists /\ Approved(Edited(op, i, list), presses)
  <2>1. [list EXCEPT ![i] = x] \in [ids -> Transaction]
    BY <1>2
  <2>2. [list EXCEPT ![i] = x] \in Lists
    BY <2>1 DEF Lists
  <2>3. Approved([list EXCEPT ![i] = x], presses)
    BY <1>2 DEF Approved
  <2> QED
    BY <1>2, <2>2, <2>3
<1>3. CASE op \in Decisions
  <2>1. i \in ids
    BY <1>3 DEF MayEdit, Decisions
  <2>2. Edited(op, i, list) = [list EXCEPT ![i] = [list[i] EXCEPT !.status = op]]
    BY <1>3 DEF Edited, Decisions
  <2>3. /\ [list[i] EXCEPT !.status = op] \in Transaction
        /\ [list[i] EXCEPT !.status = op].status = op
    BY <1>3, <2>1 DEF Transaction
  <2> QED
    BY <1>2, <2>1, <2>2, <2>3
<1>4. CASE op = "bundleHash"
  <2>1. i \in ids
    BY <1>4 DEF MayEdit, Decisions
  <2>2. Edited(op, i, list) = [list EXCEPT ![i] = [list[i] EXCEPT !.bundleHash = TRUE]]
    BY <1>4 DEF Edited, Decisions
  <2>3. /\ [list[i] EXCEPT !.bundleHash = TRUE] \in Transaction
        /\ [list[i] EXCEPT !.bundleHash = TRUE].status = list[i].status
    BY <2>1 DEF Transaction
  <2> QED
    BY <1>2, <2>1, <2>2, <2>3
<1>5. CASE op = "txHash"
  <2>1. i \in ids
    BY <1>5 DEF MayEdit, Decisions
  <2>2. Edited(op, i, list) = [list EXCEPT ![i] = [list[i] EXCEPT !.txHash = TRUE]]
    BY <1>5 DEF Edited, Decisions
  <2>3. /\ [list[i] EXCEPT !.txHash = TRUE] \in Transaction
        /\ [list[i] EXCEPT !.txHash = TRUE].status = list[i].status
    BY <2>1 DEF Transaction
  <2> QED
    BY <1>2, <2>1, <2>2, <2>3
<1> QED
  BY <1>1, <1>3, <1>4, <1>5 DEF Ops

-----------------------------------------------------------------------------
(* Updates.                                                                 *)

LEMMA IndexOK ==
  /\ \A i \in Ids : <<i, 0>> \in Updates /\ <<i, 0>>[1] = i /\ <<i, 0>>[2] = 0
  /\ \A u \in Updates : u[1] \in Ids /\ (u[2] = 0 => u = <<u[1], 0>>)
  /\ \A u \in Updates : Reader(u) \in Readers
BY TransactionsAssumption DEF Updates, Readers, UpdateReaders

\* Only update u does anything.
LEMMA OneUpdate ==
  ASSUME CellInv, TxTypeOK, NEW u \in Updates,
         NEW x \in Update, update' = [update EXCEPT ![u] = x],
         NEW reqs \in Seq(CellRequests), NEW answs \in Seq(CellAnswers),
         requests' = [requests EXCEPT ![Background] = reqs],
         answers' = [answers EXCEPT ![Background] = answs],
         UNCHANGED <<stored, changes, lastSeen, iterator, pressed>>,
         ApprovedRequests(reqs, pressed), ApprovedAnswers(answs, pressed),
         AwaitsOK(x.step \in {"read", "update", "write"}, reqs, answs, Reader(u)),
         \A r \in Readers \ {Reader(u)} :
             /\ AwaitsNone(requests[Background], answers[Background], r) =>
                    AwaitsNone(reqs, answs, r)
             /\ AwaitsOne(requests[Background], answers[Background], r) =>
                    AwaitsOne(reqs, answs, r)
  PROVE  CellInv'
<1>1. /\ Background \in Contexts /\ Pages \subseteq Contexts
      /\ Background \notin Pages
  BY TransactionsAssumption DEF Contexts
<1>2. CellTypeOK'
  BY DEF CellInv, CellTypeOK
<1>3. /\ requests'[Background] = reqs /\ answers'[Background] = answs
      /\ \A c \in Contexts \ {Background} :
             requests'[c] = requests[c] /\ answers'[c] = answers[c]
  BY <1>1 DEF CellInv, CellTypeOK
<1>4. ApprovedInCell'
  BY <1>3 DEF CellInv, ApprovedInCell
<1>5. UpdatesAwait'
  <2> SUFFICES ASSUME NEW v \in Updates
               PROVE  AwaitsOK(Waits(v)', reqs, answs, Reader(v))
    BY <1>3 DEF UpdatesAwait
  <2>1. CASE v = u
    <3>1. Waits(v)' <=> x.step \in {"read", "update", "write"}
      BY <2>1 DEF Waits, TxTypeOK
    <3> QED
      BY <2>1, <3>1 DEF AwaitsOK
  <2>2. CASE v # u
    <3>1. Waits(v)' <=> Waits(v)
      BY <2>2 DEF Waits, TxTypeOK
    <3>2. Reader(v) \in Readers \ {Reader(u)}
      BY <2>2, IndexOK, ReadersDiffer
    <3>3. AwaitsOK(Waits(v), requests[Background], answers[Background], Reader(v))
      BY DEF CellInv, UpdatesAwait
    <3> HIDE DEF Waits
    <3> QED
      BY <3>1, <3>2, <3>3 DEF AwaitsOK
  <2> QED
    BY <2>1, <2>2
<1>6. PagesOK'
  BY <1>1, <1>3 DEF CellInv, PagesOK
<1> QED
  BY <1>2, <1>4, <1>5, <1>6 DEF CellInv

LEMMA QueuesOK ==
  ASSUME CellInv
  PROVE  /\ requests[Background] \in Seq(CellRequests)
         /\ answers[Background] \in Seq(CellAnswers)
         /\ ApprovedRequests(requests[Background], pressed)
         /\ ApprovedAnswers(answers[Background], pressed)
         /\ requests' = requests => requests' = [requests EXCEPT ![Background] = @]
         /\ answers' = answers => answers' = [answers EXCEPT ![Background] = @]
BY DEF CellInv, CellTypeOK, ApprovedInCell, Contexts

\* Nothing of the cell or its updates is touched.
LEMMA CellUnchanged ==
  ASSUME CellInv, UNCHANGED cellVars, UNCHANGED <<update, pressed>>
  PROVE  CellInv'
BY DEF CellInv, CellTypeOK, ApprovedInCell, UpdatesAwait, PagesOK, Waits, cellVars

\* An update of a transaction is what is said of updates.
LEMMA UpdateOK ==
  ASSUME TxTypeOK, ApprovedInUpdates, NEW u \in Updates, NEW x \in Update,
         update' = [update EXCEPT ![u] = x], pressed' = pressed,
         Approved(x.list, pressed), x.op = "approved" => "approved" \in pressed[u[1]]
  PROVE  /\ update' \in [Updates -> Update] /\ ApprovedInUpdates'
         /\ update'[u] = x
         /\ \A v \in Updates : v # u => update'[v] = update[v]
BY DEF TxTypeOK, ApprovedInUpdates

LEMMA NoUpdateOK ==
  /\ NoUpdate \in Update /\ NoUpdate.op = "none" /\ NoUpdate.step = "none"
  /\ NoUpdate.list \in Lists
  /\ \A presses : Approved(NoUpdate.list, presses)
<1>1. DefaultValue \in Lists
  <2>1. << >> \in [{} -> Transaction]
    OBVIOUS
  <2> QED
    BY <2>1, TransactionsAssumption DEF Lists
<1> QED
  BY <1>1, TransactionsAssumption DEF NoUpdate, Update, Approved

\* The controller reads for an update.
LEMMA StartUpdateOK ==
  ASSUME CellInv, TxInv, NEW u \in Updates, ~Waits(u), NEW op \in Ops,
         op = "approved" => "approved" \in pressed[u[1]],
         StartUpdate(u, op), UNCHANGED <<stored, answers, changes, lastSeen, iterator>>,
         pressed' = pressed
  PROVE  /\ CellInv'
         /\ update' \in [Updates -> Update] /\ ApprovedInUpdates'
         /\ update'[u].op = op /\ Waits(u)'
         /\ \A v \in Updates : v # u => update'[v] = update[v]
<1> DEFINE x == [NoUpdate EXCEPT !.op = op, !.step = "read"]
           reqs == requests[Background] \o <<Get(Reader(u))>>
<1>1. update' = [update EXCEPT ![u] = x] /\ requests' = [requests EXCEPT ![Background] = reqs]
  BY DEF StartUpdate, Send
<1>2. /\ x \in Update /\ x.op = op /\ x.step = "read" /\ x.list = NoUpdate.list
  BY NoUpdateOK DEF Update, Ops
<1>3. Approved(x.list, pressed)
  BY <1>2, NoUpdateOK
<1>4. Reader(u) \in Readers
  BY IndexOK
<1>5. reqs \in Seq(CellRequests)
  BY <1>4, QueuesOK, ItemsOK, SendsOne
<1>6. ApprovedRequests(reqs, pressed)
  BY <1>4, QueuesOK, ApprovedSent
<1>7. AwaitsOne(reqs, answers[Background], Reader(u))
  <2>1. AwaitsNone(requests[Background], answers[Background], Reader(u))
    BY DEF CellInv, UpdatesAwait, AwaitsOK
  <2> QED
    BY <1>4, <2>1, QueuesOK, AwaitsGet
<1>8. \A r \in Readers \ {Reader(u)} :
          /\ AwaitsNone(requests[Background], answers[Background], r) =>
                 AwaitsNone(reqs, answers[Background], r)
          /\ AwaitsOne(requests[Background], answers[Background], r) =>
                 AwaitsOne(reqs, answers[Background], r)
  BY <1>4, QueuesOK, AwaitsGet
<1>9. answers' = [answers EXCEPT ![Background] = answers[Background]]
  BY QueuesOK
<1> HIDE DEF x, reqs
<1>10. AwaitsOK(x.step \in {"read", "update", "write"}, reqs, answers[Background], Reader(u))
  BY <1>2, <1>7 DEF AwaitsOK
<1>11. CellInv'
  BY <1>1, <1>2, <1>5, <1>6, <1>8, <1>9, <1>10, QueuesOK, OneUpdate DEF TxInv
<1>12. /\ update' \in [Updates -> Update] /\ ApprovedInUpdates'
       /\ update'[u] = x
       /\ \A v \in Updates : v # u => update'[v] = update[v]
  BY <1>1, <1>2, <1>3, UpdateOK DEF TxInv
<1> QED
  BY <1>2, <1>11, <1>12 DEF Waits

\* What an update that waits is for.
LEMMA OpOK ==
  ASSUME TxInv, NEW u \in Updates, Waits(u)
  PROVE  /\ update[u].op \in Ops
         /\ u[2] = 0 =>
                /\ update[u].op \in {"create", "bundleHash"} \union Decisions
                /\ update[u].op = "bundleHash" => request[u[1]] = "recording"
<1>1. u[2] # 0 => update[u].op = "txHash"
  BY DEF TxInv, RequestsOK
<1>2. CASE u[2] = 0
  <2>1. u = <<u[1], 0>> /\ u[1] \in Ids
    BY <1>2, IndexOK
  <2>2. request[u[1]] \in {"creating", "deciding", "recording"}
    BY <2>1 DEF TxInv, RequestsOK
  <2> QED
    BY <2>1, <2>2 DEF TxInv, RequestsOK, Ops, Decisions
<1> QED
  BY <1>1, <1>2 DEF Ops

\* An update takes its answer.
LEMMA UpdateTakes ==
  ASSUME CellInv, NEW u \in Updates, Waits(u), Answered(Background, Reader(u))
  PROVE  /\ answers' = [answers EXCEPT ![Background] = Tail(answers[Background])]
         /\ Tail(answers[Background]) \in Seq(CellAnswers)
         /\ ApprovedAnswers(Tail(answers[Background]), pressed)
         /\ Answer(Background).version \in Nat
         /\ Answer(Background).value \in Lists
         /\ Approved(Answer(Background).value, pressed)
         /\ AwaitsNone(requests[Background], Tail(answers[Background]), Reader(u))
         /\ \A r \in Readers \ {Reader(u)} :
               /\ AwaitsNone(requests[Background], answers[Background], r) =>
                      AwaitsNone(requests[Background], Tail(answers[Background]), r)
               /\ AwaitsOne(requests[Background], answers[Background], r) =>
                      AwaitsOne(requests[Background], Tail(answers[Background]), r)
<1>1. /\ answers[Background] # << >> /\ Head(answers[Background]).reader = Reader(u)
      /\ answers' = [answers EXCEPT ![Background] = Tail(answers[Background])]
      /\ Answer(Background) = Head(answers[Background]).versioned
  BY DEF Answered, Answer
<1>2. Tail(answers[Background]) \in Seq(CellAnswers)
  BY <1>1, QueuesOK, Tails
<1>3. /\ ApprovedAnswers(Tail(answers[Background]), pressed)
      /\ Approved(Answer(Background).value, pressed)
  BY <1>1, QueuesOK, ApprovedTail
<1>4. Answer(Background).version \in Nat /\ Answer(Background).value \in Lists
  BY <1>1, QueuesOK, VersionedOK
<1>5. AwaitsOne(requests[Background], answers[Background], Reader(u))
  BY DEF CellInv, UpdatesAwait, AwaitsOK
<1>6. Reader(u) \in Readers
  BY IndexOK
<1>7. AwaitsNone(requests[Background], Tail(answers[Background]), Reader(u))
  BY <1>1, <1>5, <1>6, QueuesOK, AwaitsAnswer
<1>8. \A r \in Readers \ {Reader(u)} :
         /\ AwaitsNone(requests[Background], answers[Background], r) =>
                AwaitsNone(requests[Background], Tail(answers[Background]), r)
         /\ AwaitsOne(requests[Background], answers[Background], r) =>
                AwaitsOne(requests[Background], Tail(answers[Background]), r)
  BY <1>1, QueuesOK, AwaitsAnswer
<1> QED
  BY <1>1, <1>2, <1>3, <1>4, <1>7, <1>8

\* It goes on to its next read.
LEMMA ReadsOnOK ==
  ASSUME CellInv, TxInv, NEW u \in Updates, Waits(u),
         Answered(Background, Reader(u)), Send(Background, <<Get(Reader(u))>>),
         NEW x \in Update, update' = [update EXCEPT ![u] = x],
         x.step \in {"read", "update", "write"}, x.op = update[u].op,
         Approved(x.list, pressed),
         UNCHANGED <<stored, changes, lastSeen, iterator>>,
         UNCHANGED <<request, window, messages, sent, pressed>>
  PROVE  CellInv' /\ TxInv'
<1> DEFINE reqs == requests[Background] \o <<Get(Reader(u))>>
           answs == Tail(answers[Background])
<1>1. requests' = [requests EXCEPT ![Background] = reqs]
  BY DEF Send
<1>2. /\ answers' = [answers EXCEPT ![Background] = answs]
      /\ answs \in Seq(CellAnswers) /\ ApprovedAnswers(answs, pressed)
      /\ AwaitsNone(requests[Background], answs, Reader(u))
      /\ \A r \in Readers \ {Reader(u)} :
               /\ AwaitsNone(requests[Background], answers[Background], r) =>
                      AwaitsNone(requests[Background], answs, r)
               /\ AwaitsOne(requests[Background], answers[Background], r) =>
                      AwaitsOne(requests[Background], answs, r)
  BY UpdateTakes
<1>3. Reader(u) \in Readers
  BY IndexOK
<1> HIDE DEF answs
<1>4. reqs \in Seq(CellRequests)
  BY <1>3, QueuesOK, ItemsOK, SendsOne
<1>5. ApprovedRequests(reqs, pressed)
  BY <1>3, QueuesOK, ApprovedSent
<1>6. AwaitsOne(reqs, answs, Reader(u))
  BY <1>2, <1>3, QueuesOK, AwaitsGet
<1>7. \A r \in Readers \ {Reader(u)} :
          /\ AwaitsNone(requests[Background], answs, r) => AwaitsNone(reqs, answs, r)
          /\ AwaitsOne(requests[Background], answs, r) => AwaitsOne(reqs, answs, r)
  BY <1>2, <1>3, QueuesOK, AwaitsGet
<1> HIDE DEF reqs
<1>8. AwaitsOK(x.step \in {"read", "update", "write"}, reqs, answs, Reader(u))
  BY <1>6 DEF AwaitsOK
<1>9. CellInv'
  BY <1>1, <1>2, <1>4, <1>5, <1>7, <1>8, OneUpdate DEF TxInv
<1>10. /\ update' \in [Updates -> Update] /\ ApprovedInUpdates'
       /\ update'[u] = x
       /\ \A v \in Updates : v # u => update'[v] = update[v]
  BY UpdateOK DEF TxInv, ApprovedInUpdates
<1>11. \A v \in Updates : (Waits(v)' <=> Waits(v)) /\ update'[v].op = update[v].op
  BY <1>10 DEF Waits
<1>12. RequestsOK'
  BY <1>11, IndexOK DEF TxInv, RequestsOK
<1>13. TxTypeOK' /\ ApprovedByRequests' /\ MessagesOK'
  BY <1>10 DEF TxInv, TxTypeOK, ApprovedByRequests, MessagesOK
<1> QED
  BY <1>9, <1>10, <1>12, <1>13 DEF TxInv

\* What the request of an update does when it is over.
LEMMA EndUpdateOK ==
  ASSUME CellInv, TxInv, NEW u \in Updates, Waits(u), NEW succeeded \in BOOLEAN,
         Answered(Background, Reader(u)), EndUpdate(u, succeeded),
         NEW reqs \in Seq(CellRequests),
         requests' = [requests EXCEPT ![Background] = reqs],
         ApprovedRequests(reqs, pressed),
         \A r \in Readers :
             /\ AwaitsNone(requests[Background], Tail(answers[Background]), r) =>
                    AwaitsNone(reqs, Tail(answers[Background]), r)
             /\ AwaitsOne(requests[Background], Tail(answers[Background]), r) =>
                    AwaitsOne(reqs, Tail(answers[Background]), r),
         UNCHANGED <<stored, changes, lastSeen, iterator>>,
         UNCHANGED <<window, messages, sent, pressed>>
  PROVE  CellInv' /\ TxInv'
<1> DEFINE answs == Tail(answers[Background])
           x == [NoUpdate EXCEPT !.step = "over"]
<1>1. /\ answers' = [answers EXCEPT ![Background] = answs]
      /\ answs \in Seq(CellAnswers) /\ ApprovedAnswers(answs, pressed)
      /\ AwaitsNone(requests[Background], answs, Reader(u))
      /\ \A r \in Readers \ {Reader(u)} :
               /\ AwaitsNone(requests[Background], answers[Background], r) =>
                      AwaitsNone(requests[Background], answs, r)
               /\ AwaitsOne(requests[Background], answers[Background], r) =>
                      AwaitsOne(requests[Background], answs, r)
  BY UpdateTakes
<1>2. Reader(u) \in Readers
  BY IndexOK
<1>3. /\ update' = [update EXCEPT ![u] = x] /\ AfterUpdate(u, succeeded)
      /\ x \in Update /\ x.step = "over" /\ x.op = "none" /\ x.list = NoUpdate.list
  BY NoUpdateOK DEF EndUpdate, Update
<1> HIDE DEF answs, x
<1>4. CellInv'
  <2>1. AwaitsNone(reqs, answs, Reader(u))
    BY <1>1, <1>2 DEF answs
  <2>2. AwaitsOK(x.step \in {"read", "update", "write"}, reqs, answs, Reader(u))
    BY <1>3, <2>1 DEF AwaitsOK
  <2>3. \A r \in Readers \ {Reader(u)} :
            /\ AwaitsNone(requests[Background], answers[Background], r) =>
                   AwaitsNone(reqs, answs, r)
            /\ AwaitsOne(requests[Background], answers[Background], r) =>
                   AwaitsOne(reqs, answs, r)
    BY <1>1 DEF answs
  <2> QED
    BY <1>1, <1>3, <2>2, <2>3, OneUpdate DEF TxInv
<1>5. /\ update' \in [Updates -> Update] /\ ApprovedInUpdates'
      /\ update'[u] = x
      /\ \A v \in Updates : v # u => update'[v] = update[v]
  BY <1>3, NoUpdateOK, UpdateOK DEF TxInv
<1>6. ~Waits(u)' /\ \A v \in Updates : v # u => (Waits(v)' <=> Waits(v))
  BY <1>3, <1>5 DEF Waits
<1>7. TxTypeOK /\ RequestsOK /\ ApprovedByRequests
  BY DEF TxInv
<1>8. CASE u[2] # 0
  <2>1. request' = request
    BY <1>3, <1>8 DEF AfterUpdate
  <2>2. \A i \in Ids : <<i, 0>> \in Updates /\ <<i, 0>> # u
    BY <1>8, IndexOK
  <2>3. RequestsOK'
    BY <1>5, <1>6, <1>7, <2>1, <2>2 DEF RequestsOK
  <2>4. TxTypeOK' /\ ApprovedByRequests' /\ MessagesOK'
    BY <1>5, <2>1 DEF TxInv, TxTypeOK, ApprovedByRequests, MessagesOK
  <2> QED
    BY <1>4, <1>5, <2>3, <2>4 DEF TxInv
<1>9. CASE u[2] = 0
  <2> DEFINE i == u[1]
  <2>1. u = <<i, 0>> /\ i \in Ids
    BY <1>9, IndexOK
  <2>2. /\ update[u].op \in {"create", "bundleHash"} \union Decisions
        /\ update[u].op = "bundleHash" => request[i] = "recording"
    BY <1>9, OpOK
  <2>3. update[u].op \in {"approved", "bundleHash"} => "approved" \in pressed[i]
    BY <1>7, <2>1, <2>2 DEF TxInv, ApprovedInUpdates, ApprovedByRequests
  <2>4. PICK to \in {"opening", "sending", "done", "failed"} :
            /\ request' = [request EXCEPT ![i] = to]
            /\ to \in {"sending", "done"} => "approved" \in pressed[i]
    <3>1. /\ succeeded =>
                request' = [request EXCEPT ![i] =
                    [create |-> "opening", approved |-> "sending",
                     rejected |-> "failed", bundleHash |-> "done"][update[u].op]]
          /\ ~succeeded => request' = [request EXCEPT ![i] = "failed"]
      BY <1>3, <1>9 DEF AfterUpdate
    <3> QED
      BY <2>2, <2>3, <3>1 DEF Decisions
  <2> HIDE DEF i
  <2>5. /\ request' \in [Ids -> Requests] /\ request'[i] = to
        /\ \A j \in Ids : j # i => request'[j] = request[j]
    BY <1>7, <2>1, <2>4 DEF TxTypeOK, Requests
  <2>6. RequestsOK'
    <3>1. ASSUME NEW j \in Ids
          PROVE  /\ Waits(<<j, 0>>)' <=> request'[j] \in {"creating", "deciding", "recording"}
                 /\ request'[j] = "creating" => update'[<<j, 0>>].op = "create"
                 /\ request'[j] = "deciding" => update'[<<j, 0>>].op \in Decisions
                 /\ request'[j] = "recording" => update'[<<j, 0>>].op = "bundleHash"
      <4>1. <<j, 0>> \in Updates /\ (j # i => <<j, 0>> # u)
        BY <2>1, IndexOK
      <4>2. CASE j = i
        BY <1>6, <2>1, <2>5, <4>2
      <4>3. CASE j # i
        BY <1>5, <1>6, <1>7, <2>5, <4>1, <4>3 DEF RequestsOK
      <4> QED
        BY <4>2, <4>3
    <3>2. \A v \in Updates : v[2] # 0 /\ Waits(v)' => update'[v].op = "txHash"
      BY <1>5, <1>6, <1>7 DEF RequestsOK
    <3> QED
      BY <3>1, <3>2 DEF RequestsOK
  <2>7. ApprovedByRequests'
    BY <1>7, <2>1, <2>4, <2>5 DEF ApprovedByRequests
  <2>8. TxTypeOK' /\ MessagesOK'
    BY <1>5, <2>5 DEF TxInv, TxTypeOK, MessagesOK
  <2> QED
    BY <1>4, <1>5, <2>6, <2>7, <2>8 DEF TxInv
<1> QED
  BY <1>8, <1>9

LEMMA ControllerReadOK ==
  ASSUME CellInv, TxInv, NEW u \in Updates, ControllerRead(u)
  PROVE  CellInv' /\ TxInv'
<1> DEFINE list == Answer(Background).value
           edited == Edited(update[u].op, u[1], list)
           x == [update[u] EXCEPT !.step = "update", !.list = edited]
<1>1. /\ update[u].step = "read" /\ Waits(u) /\ Answered(Background, Reader(u))
      /\ UNCHANGED <<stored, changes, lastSeen, iterator>>
      /\ UNCHANGED <<window, messages, sent, pressed>>
  BY DEF ControllerRead, Waits
<1>2. list \in Lists /\ Approved(list, pressed)
  BY <1>1, UpdateTakes
<1>3. /\ update[u].op \in Ops /\ u[1] \in Ids /\ update[u] \in Update
      /\ update[u].op = "approved" => "approved" \in pressed[u[1]]
  BY <1>1, OpOK, IndexOK DEF TxInv, ApprovedInUpdates, TxTypeOK
<1>4. CASE MayEdit(update[u].op, u[1], list)
  <2>1. /\ update' = [update EXCEPT ![u].step = "update", ![u].list = edited]
        /\ Send(Background, <<Get(Reader(u))>>) /\ request' = request
    BY <1>4 DEF ControllerRead
  <2>2. edited \in Lists /\ Approved(edited, pressed)
    BY <1>2, <1>3, <1>4, EditedOK
  <2> HIDE DEF edited
  <2>3. /\ x \in Update /\ x.step = "update" /\ x.op = update[u].op /\ x.list = edited
    BY <1>3, <2>2 DEF Update
  <2>4. update' = [update EXCEPT ![u] = x]
    BY <2>1
  <2> HIDE DEF x
  <2> QED
    BY <1>1, <2>1, <2>2, <2>3, <2>4, ReadsOnOK
<1>5. CASE ~MayEdit(update[u].op, u[1], list)
  <2>1. EndUpdate(u, FALSE) /\ requests' = requests
    BY <1>5 DEF ControllerRead
  <2>2. requests' = [requests EXCEPT ![Background] = requests[Background]]
    BY <2>1, QueuesOK
  <2> QED
    BY <1>1, <2>1, <2>2, QueuesOK, EndUpdateOK
<1> QED
  BY <1>4, <1>5

LEMMA UpdateReadOK ==
  ASSUME CellInv, TxInv, NEW u \in Updates, UpdateRead(u)
  PROVE  CellInv' /\ TxInv'
<1> DEFINE version == Answer(Background).version + 1
           x == [update[u] EXCEPT !.step = "write", !.version = version]
<1>1. /\ update[u].step = "update" /\ Waits(u) /\ Answered(Background, Reader(u))
      /\ Send(Background, <<Get(Reader(u))>>)
      /\ UNCHANGED <<stored, changes, lastSeen, iterator>>
      /\ UNCHANGED <<request, window, messages, sent, pressed>>
      /\ update' = [update EXCEPT ![u] = x]
  BY DEF UpdateRead, Waits
<1>2. update[u] \in Update /\ Approved(update[u].list, pressed)
  BY DEF TxInv, TxTypeOK, ApprovedInUpdates
<1>3. version \in Nat
  <2>1. Answer(Background).version \in Nat
    BY <1>1, UpdateTakes
  <2> QED
    BY <2>1
<1> HIDE DEF version
<1>4. x \in Update /\ x.step = "write" /\ x.op = update[u].op /\ x.list = update[u].list
  BY <1>2, <1>3 DEF Update
<1> HIDE DEF x
<1> QED
  BY <1>1, <1>2, <1>4, ReadsOnOK

LEMMA WriteReadOK ==
  ASSUME CellInv, TxInv, NEW u \in Updates, WriteRead(u)
  PROVE  CellInv' /\ TxInv'
<1> DEFINE v == [version |-> update[u].version, value |-> update[u].list]
<1>1. /\ update[u].step = "write" /\ Waits(u) /\ Answered(Background, Reader(u))
      /\ EndUpdate(u, ~Rejected(u))
      /\ UNCHANGED <<stored, changes, lastSeen, iterator>>
      /\ UNCHANGED <<window, messages, sent, pressed>>
      /\ IF Rejected(u) THEN requests' = requests
         ELSE requests' = [requests EXCEPT ![Background] = requests[Background] \o <<Set(v)>>]
  BY DEF WriteRead, Waits, Send
<1>2. v \in Versioned /\ Approved(v.value, pressed)
  BY DEF Versioned, Update, TxInv, TxTypeOK, ApprovedInUpdates
<1>3. (~Rejected(u)) \in BOOLEAN
  BY DEF Rejected
<1> HIDE DEF v
<1>4. CASE Rejected(u)
  <2>1. requests' = [requests EXCEPT ![Background] = requests[Background]]
    BY <1>1, <1>4, QueuesOK
  <2> QED
    BY <1>1, <1>3, <2>1, QueuesOK, EndUpdateOK
<1>5. CASE ~Rejected(u)
  <2> DEFINE reqs == requests[Background] \o <<Set(v)>>
  <2>1. requests' = [requests EXCEPT ![Background] = reqs]
    BY <1>1, <1>5
  <2>2. reqs \in Seq(CellRequests)
    BY <1>2, QueuesOK, ItemsOK, SendsOne
  <2>3. ApprovedRequests(reqs, pressed)
    BY <1>2, QueuesOK, ApprovedSent
  <2>4. Tail(answers[Background]) \in Seq(CellAnswers)
    BY <1>1, UpdateTakes
  <2>5. \A r \in Readers :
             /\ AwaitsNone(requests[Background], Tail(answers[Background]), r) =>
                    AwaitsNone(reqs, Tail(answers[Background]), r)
             /\ AwaitsOne(requests[Background], Tail(answers[Background]), r) =>
                    AwaitsOne(reqs, Tail(answers[Background]), r)
    BY <1>2, <2>4, QueuesOK, AwaitsSet
  <2> HIDE DEF reqs
  <2> QED
    BY <1>1, <1>3, <2>1, <2>2, <2>3, <2>5, EndUpdateOK
<1> QED
  BY <1>4, <1>5

-----------------------------------------------------------------------------
(* eth_sendTransaction, the popup and its user.                             *)

\* A request awaits an update that it begins.
LEMMA BeginsOK ==
  ASSUME CellInv, TxInv, NEW i \in Ids, NEW op \in Ops,
         NEW to \in {"creating", "deciding", "recording"},
         request[i] \notin {"creating", "deciding", "recording"},
         \/ to = "creating" /\ op = "create"
         \/ to = "deciding" /\ op \in Decisions
         \/ to = "recording" /\ op = "bundleHash" /\ "approved" \in pressed[i],
         op = "approved" => "approved" \in pressed[i],
         request' = [request EXCEPT ![i] = to], StartUpdate(<<i, 0>>, op),
         UNCHANGED <<stored, answers, changes, lastSeen, iterator, pressed>>,
         window' \in [Ids -> Windows], messages' \in [Ids -> Seq(Messages)], MessagesOK',
         sent' \subseteq Ids, \A j \in sent' : "approved" \in pressed[j]
  PROVE  CellInv' /\ TxInv'
<1> DEFINE u == <<i, 0>>
<1>1. u \in Updates /\ u[1] = i /\ u[2] = 0
  BY IndexOK
<1>2. TxTypeOK /\ RequestsOK /\ ApprovedByRequests
  BY DEF TxInv
<1>3. ~Waits(u)
  BY <1>2 DEF RequestsOK
<1>4. pressed' = pressed
  OBVIOUS
<1> HIDE DEF u
<1>5. /\ CellInv'
      /\ update' \in [Updates -> Update] /\ ApprovedInUpdates'
      /\ update'[u].op = op /\ Waits(u)'
      /\ \A v \in Updates : v # u => update'[v] = update[v]
  <2>1. StartUpdate(u, op)
    BY DEF u
  <2> QED
    BY <1>1, <1>3, <2>1, StartUpdateOK
<1>6. /\ request' \in [Ids -> Requests] /\ request'[i] = to
      /\ \A j \in Ids : j # i => request'[j] = request[j]
  BY <1>2 DEF TxTypeOK, Requests
<1>7. RequestsOK'
  <2>1. ASSUME NEW j \in Ids
        PROVE  /\ Waits(<<j, 0>>)' <=> request'[j] \in {"creating", "deciding", "recording"}
               /\ request'[j] = "creating" => update'[<<j, 0>>].op = "create"
               /\ request'[j] = "deciding" => update'[<<j, 0>>].op \in Decisions
               /\ request'[j] = "recording" => update'[<<j, 0>>].op = "bundleHash"
    <3>1. <<j, 0>> \in Updates /\ (j # i => <<j, 0>> # u)
      BY IndexOK DEF u
    <3>2. CASE j = i
      <4>1. <<j, 0>> = u
        BY <3>2 DEF u
      <4> QED
        BY <1>5, <1>6, <3>2, <4>1
    <3>3. CASE j # i
      <4>1. update'[<<j, 0>>] = update[<<j, 0>>] /\ request'[j] = request[j]
        BY <1>5, <1>6, <3>1, <3>3
      <4>2. Waits(<<j, 0>>)' <=> Waits(<<j, 0>>)
        BY <4>1 DEF Waits
      <4> QED
        BY <1>2, <4>1, <4>2 DEF RequestsOK
    <3> QED
      BY <3>2, <3>3
  <2>2. \A v \in Updates : v[2] # 0 /\ Waits(v)' => update'[v].op = "txHash"
    BY <1>1, <1>2, <1>5 DEF RequestsOK, Waits
  <2> QED
    BY <2>1, <2>2 DEF RequestsOK
<1>8. TxTypeOK'
  BY <1>2, <1>4, <1>5, <1>6 DEF TxTypeOK
<1>9. ApprovedByRequests'
  BY <1>2, <1>4, <1>6 DEF ApprovedByRequests
<1> QED
  BY <1>5, <1>7, <1>8, <1>9 DEF TxInv

\* A request goes on with nothing to await of the cell.
LEMMA GoesOnOK ==
  ASSUME CellInv, TxInv, NEW i \in Ids, NEW to \in {"prompting", "failed"},
         request[i] \notin {"creating", "deciding", "recording"},
         request' = [request EXCEPT ![i] = to],
         UNCHANGED <<cellVars, update, window, messages, sent, pressed>>
  PROVE  CellInv' /\ TxInv'
<1>1. CellInv'
  BY CellUnchanged
<1>2. TxTypeOK'
  BY DEF TxInv, TxTypeOK, Requests
<1>3. /\ request'[i] = to
      /\ \A j \in Ids : j # i => request'[j] = request[j]
  BY DEF TxInv, TxTypeOK
<1>4. \A v \in Updates : Waits(v)' <=> Waits(v)
  BY DEF Waits
<1>5. RequestsOK'
  BY <1>3, <1>4, IndexOK DEF TxInv, RequestsOK
<1>6. ApprovedInUpdates' /\ ApprovedByRequests' /\ MessagesOK'
  BY <1>3 DEF TxInv, ApprovedInUpdates, ApprovedByRequests, MessagesOK
<1> QED
  BY <1>1, <1>2, <1>5, <1>6 DEF TxInv

LEMMA CreateTransactionOK ==
  ASSUME CellInv, TxInv, NEW i \in Ids, CreateTransaction(i)
  PROVE  CellInv' /\ TxInv'
<1>1. /\ request[i] = "none" /\ request' = [request EXCEPT ![i] = "creating"]
      /\ StartUpdate(<<i, 0>>, "create")
      /\ UNCHANGED <<stored, answers, changes, lastSeen, iterator, pressed>>
      /\ UNCHANGED <<window, messages, sent>>
  BY DEF CreateTransaction
<1>2. /\ window' \in [Ids -> Windows] /\ messages' \in [Ids -> Seq(Messages)]
      /\ MessagesOK' /\ sent' \subseteq Ids /\ \A j \in sent' : "approved" \in pressed[j]
  BY <1>1 DEF TxInv, TxTypeOK, MessagesOK, ApprovedByRequests
<1> QED
  BY <1>1, <1>2, BeginsOK DEF Ops, Decisions

LEMMA DecideOK ==
  ASSUME CellInv, TxInv, NEW i \in Ids, NEW result \in Decisions, Decide(i, result),
         request[i] = "prompting", result = "approved" => "approved" \in pressed[i],
         messages' \in [Ids -> Seq(Messages)], MessagesOK',
         UNCHANGED <<stored, answers, changes, lastSeen, iterator, sent, pressed>>
  PROVE  CellInv' /\ TxInv'
<1>1. /\ request' = [request EXCEPT ![i] = "deciding"]
      /\ StartUpdate(<<i, 0>>, result)
      /\ window' = [window EXCEPT ![i] = "closed"]
  BY DEF Decide
<1>2. /\ window' \in [Ids -> Windows]
      /\ sent' \subseteq Ids /\ \A j \in sent' : "approved" \in pressed[j]
  BY <1>1 DEF TxInv, TxTypeOK, ApprovedByRequests, Windows
<1> QED
  BY <1>1, <1>2, BeginsOK DEF Ops

\* The messages and the popups are no business of the cell's.
LEMMA PopupOnly ==
  ASSUME CellInv, TxInv, UNCHANGED <<cellVars, request, update, sent, pressed>>,
         window' \in [Ids -> Windows], messages' \in [Ids -> Seq(Messages)], MessagesOK'
  PROVE  CellInv' /\ TxInv'
<1>1. CellInv'
  BY CellUnchanged
<1>2. TxTypeOK' /\ RequestsOK' /\ ApprovedInUpdates' /\ ApprovedByRequests'
  BY DEF TxInv, TxTypeOK, RequestsOK, ApprovedInUpdates, ApprovedByRequests, Waits
<1> QED
  BY <1>1, <1>2 DEF TxInv

LEMMA HearMessageOK ==
  ASSUME CellInv, TxInv, NEW i \in Ids, HearMessage(i)
  PROVE  CellInv' /\ TxInv'
<1> DEFINE message == Head(messages[i])
<1>1. /\ messages[i] # << >> /\ messages' = [messages EXCEPT ![i] = Tail(messages[i])]
      /\ UNCHANGED <<stored, answers, changes, lastSeen, iterator, sent, pressed>>
      /\ \/ \E j \in Ids : /\ request[j] = "prompting" /\ IsFor(j, message)
                           /\ Decide(j, message.result)
         \/ UNCHANGED <<request, window, update, requests>>
  BY DEF HearMessage
<1>2. messages \in [Ids -> Seq(Messages)] /\ messages[i] \in Seq(Messages)
  BY DEF TxInv, TxTypeOK
<1>3. /\ Tail(messages[i]) \in Seq(Messages) /\ message = messages[i][1]
      /\ message \in Messages /\ Len(messages[i]) \in Nat \ {0}
      /\ DOMAIN messages[i] = 1 .. Len(messages[i])
      /\ DOMAIN Tail(messages[i]) = 1 .. Len(messages[i]) - 1
      /\ \A n \in 1 .. Len(messages[i]) - 1 : Tail(messages[i])[n] = messages[i][n + 1]
  BY <1>1, <1>2, Tails
<1>4. messages' \in [Ids -> Seq(Messages)]
  BY <1>1, <1>2, <1>3
<1>5. MessagesOK'
  <2> SUFFICES ASSUME NEW j \in Ids, NEW n \in DOMAIN messages'[j]
               PROVE  messages'[j][n].id = j /\ messages'[j][n].result \in pressed[j]
    BY <1>1 DEF MessagesOK
  <2>1. CASE j = i
    <3>1. messages'[j] = Tail(messages[i])
      BY <1>1, <1>2, <2>1
    <3>2. n \in 1 .. Len(messages[i]) - 1 /\ n + 1 \in DOMAIN messages[i]
      BY <1>3, <3>1
    <3> QED
      BY <1>3, <2>1, <3>1, <3>2 DEF TxInv, MessagesOK
  <2>2. CASE j # i
    BY <1>1, <1>2, <2>2 DEF TxInv, MessagesOK
  <2> QED
    BY <2>1, <2>2
<1>6. message.id = i /\ message.result \in pressed[i] /\ message.result \in Decisions
  BY <1>3 DEF TxInv, MessagesOK, Messages
<1> HIDE DEF message
<1>7. CASE \E j \in Ids : /\ request[j] = "prompting" /\ IsFor(j, message)
                          /\ Decide(j, message.result)
  <2>1. PICK j \in Ids : /\ request[j] = "prompting" /\ message.id = j
                         /\ Decide(j, message.result)
    BY <1>7 DEF IsFor
  <2>2. message.result = "approved" => "approved" \in pressed[j]
    BY <1>6, <2>1
  <2> QED
    BY <1>1, <1>4, <1>5, <1>6, <2>1, <2>2, DecideOK
<1>8. CASE UNCHANGED <<request, window, update, requests>>
  <2>1. UNCHANGED <<cellVars, request, update, sent, pressed>>
    BY <1>1, <1>8 DEF cellVars
  <2>2. window' \in [Ids -> Windows]
    BY <1>8 DEF TxInv, TxTypeOK
  <2> QED
    BY <1>4, <1>5, <2>1, <2>2, PopupOnly
<1> QED
  BY <1>1, <1>7, <1>8

LEMMA PopupRemovedOK ==
  ASSUME CellInv, TxInv, NEW i \in Ids, PopupRemoved(i)
  PROVE  CellInv' /\ TxInv'
<1>1. /\ UNCHANGED <<stored, answers, changes, lastSeen, iterator, messages, sent, pressed>>
      /\ \/ request[i] = "prompting" /\ Decide(i, "rejected")
         \/ /\ window' = [window EXCEPT ![i] = "closed"]
            /\ UNCHANGED <<request, update, requests>>
  BY DEF PopupRemoved
<1>2. messages' \in [Ids -> Seq(Messages)] /\ MessagesOK'
  BY <1>1 DEF TxInv, TxTypeOK, MessagesOK
<1>3. CASE request[i] = "prompting" /\ Decide(i, "rejected")
  BY <1>1, <1>2, <1>3, DecideOK DEF Decisions
<1>4. CASE window' = [window EXCEPT ![i] = "closed"] /\ UNCHANGED <<request, update, requests>>
  <2>1. UNCHANGED <<cellVars, request, update, sent, pressed>>
    BY <1>1, <1>4 DEF cellVars
  <2>2. window' \in [Ids -> Windows]
    BY <1>4 DEF TxInv, TxTypeOK, Windows
  <2> QED
    BY <1>2, <2>1, <2>2, PopupOnly
<1> QED
  BY <1>1, <1>3, <1>4

LEMMA SendBundleOK ==
  ASSUME CellInv, TxInv, NEW i \in Ids, SendBundle(i)
  PROVE  CellInv' /\ TxInv'
<1>1. /\ request[i] = "sending" /\ request' = [request EXCEPT ![i] = "recording"]
      /\ sent' = sent \union {i} /\ StartUpdate(<<i, 0>>, "bundleHash")
      /\ UNCHANGED <<stored, answers, changes, lastSeen, iterator, pressed>>
      /\ UNCHANGED <<window, messages>>
  BY DEF SendBundle
<1>2. "approved" \in pressed[i]
  BY <1>1 DEF TxInv, ApprovedByRequests
<1>3. /\ window' \in [Ids -> Windows] /\ messages' \in [Ids -> Seq(Messages)]
      /\ MessagesOK' /\ sent' \subseteq Ids /\ \A j \in sent' : "approved" \in pressed[j]
  BY <1>1, <1>2 DEF TxInv, TxTypeOK, MessagesOK, ApprovedByRequests
<1> QED
  BY <1>1, <1>2, <1>3, BeginsOK DEF Ops, Decisions

\* The update of a receipt is not awaited.
LEMMA GetReceiptOK ==
  ASSUME CellInv, TxInv, NEW i \in Ids, NEW n \in 1 .. MaxReceipts, GetReceipt(i, n)
  PROVE  CellInv' /\ TxInv'
<1> DEFINE u == <<i, n>>
<1>1. /\ update[u] = NoUpdate /\ StartUpdate(u, "txHash")
      /\ UNCHANGED <<stored, answers, changes, lastSeen, iterator>>
      /\ UNCHANGED <<request, window, messages, sent, pressed>>
  BY DEF GetReceipt
<1>2. u \in Updates /\ u[2] # 0
  BY TransactionsAssumption DEF Updates
<1>3. \A j \in Ids : <<j, 0>> \in Updates /\ <<j, 0>> # u
  BY <1>2, IndexOK
<1> HIDE DEF u
<1>4. ~Waits(u)
  BY <1>1, NoUpdateOK DEF Waits
<1>5. /\ CellInv'
      /\ update' \in [Updates -> Update] /\ ApprovedInUpdates'
      /\ update'[u].op = "txHash"
      /\ \A v \in Updates : v # u => update'[v] = update[v]
  BY <1>1, <1>2, <1>4, StartUpdateOK DEF Ops, Decisions
<1>6. RequestsOK'
  BY <1>1, <1>3, <1>5 DEF TxInv, RequestsOK, Waits
<1>7. TxTypeOK' /\ ApprovedByRequests' /\ MessagesOK'
  BY <1>1, <1>5 DEF TxInv, TxTypeOK, ApprovedByRequests, MessagesOK
<1> QED
  BY <1>5, <1>6, <1>7 DEF TxInv

\* What has been pressed stays pressed.
LEMMA PressOK ==
  ASSUME CellInv, TxInv, NEW i \in Ids, NEW result \in Decisions, Press(i, result)
  PROVE  CellInv' /\ TxInv'
<1> DEFINE message == [id |-> i, result |-> result]
<1>1. /\ messages' = [messages EXCEPT ![i] = Append(messages[i], message)]
      /\ pressed' = [pressed EXCEPT ![i] = pressed[i] \union {result}]
      /\ UNCHANGED <<cellVars, request, update, window, sent>>
  BY DEF Press
<1>2. message \in Messages /\ message.id = i /\ message.result = result
  BY DEF Messages
<1> HIDE DEF message
<1>3. /\ messages \in [Ids -> Seq(Messages)] /\ messages[i] \in Seq(Messages)
      /\ pressed \in [Ids -> SUBSET Decisions]
  BY DEF TxInv, TxTypeOK
<1>4. /\ \A j \in Ids : pressed[j] \subseteq pressed'[j]
      /\ result \in pressed'[i] /\ pressed' \in [Ids -> SUBSET Decisions]
  BY <1>1, <1>3
<1>5. \A list \in Lists : Approved(list, pressed) => Approved(list, pressed')
  BY <1>4 DEF Approved, Lists
<1>6. CellInv'
  <2>1. UNCHANGED <<stored, requests, answers, changes, lastSeen, iterator, update>>
    BY <1>1 DEF cellVars
  <2>2. CellTypeOK' /\ UpdatesAwait' /\ PagesOK'
    BY <2>1 DEF CellInv, CellTypeOK, UpdatesAwait, PagesOK, Waits
  <2>3. \A reqs \in Seq(CellRequests) :
            ApprovedRequests(reqs, pressed) => ApprovedRequests(reqs, pressed')
    <3> SUFFICES ASSUME NEW reqs \in Seq(CellRequests), ApprovedRequests(reqs, pressed),
                        NEW n \in DOMAIN reqs, reqs[n].op = "set"
                 PROVE  Approved(reqs[n].versioned.value, pressed')
      BY DEF ApprovedRequests
    <3>1. reqs[n] \in CellRequests
      OBVIOUS
    <3>2. reqs[n].versioned.value \in Lists
      BY <3>1 DEF CellRequests, Versioned
    <3> QED
      BY <1>5, <3>2 DEF ApprovedRequests
  <2>4. \A answs \in Seq(CellAnswers) :
            ApprovedAnswers(answs, pressed) => ApprovedAnswers(answs, pressed')
    <3> SUFFICES ASSUME NEW answs \in Seq(CellAnswers), ApprovedAnswers(answs, pressed),
                        NEW n \in DOMAIN answs
                 PROVE  Approved(answs[n].versioned.value, pressed')
      BY DEF ApprovedAnswers
    <3>1. answs[n] \in CellAnswers
      OBVIOUS
    <3>2. answs[n].versioned.value \in Lists
      BY <3>1 DEF CellAnswers, Versioned
    <3> QED
      BY <1>5, <3>2 DEF ApprovedAnswers
  <2>5. stored.value \in Lists
    BY DEF CellInv, CellTypeOK, Versioned
  <2>6. ApprovedInCell'
    BY <1>5, <2>1, <2>3, <2>4, <2>5 DEF CellInv, CellTypeOK, ApprovedInCell
  <2> QED
    BY <2>2, <2>6 DEF CellInv
<1>7. messages' \in [Ids -> Seq(Messages)]
  BY <1>1, <1>2, <1>3
<1>8. TxTypeOK' /\ RequestsOK'
  BY <1>1, <1>4, <1>7 DEF TxInv, TxTypeOK, RequestsOK, Waits
<1>9. ApprovedInUpdates' /\ ApprovedByRequests'
  <2>1. \A u \in Updates : update[u].list \in Lists /\ u[1] \in Ids
    BY IndexOK DEF TxInv, TxTypeOK, Update
  <2> QED
    BY <1>1, <1>4, <1>5, <2>1 DEF TxInv, ApprovedInUpdates, ApprovedByRequests
<1>10. MessagesOK'
  <2> SUFFICES ASSUME NEW j \in Ids, NEW n \in DOMAIN messages'[j]
               PROVE  messages'[j][n].id = j /\ messages'[j][n].result \in pressed'[j]
    BY DEF MessagesOK
  <2>1. CASE j = i
    <3>1. /\ messages'[j] = Append(messages[i], message)
          /\ DOMAIN messages'[j] = 1 .. Len(messages[i]) + 1
          /\ Len(messages[i]) \in Nat /\ DOMAIN messages[i] = 1 .. Len(messages[i])
          /\ messages'[j][Len(messages[i]) + 1] = message
          /\ \A m \in 1 .. Len(messages[i]) : messages'[j][m] = messages[i][m]
      BY <1>1, <1>2, <1>3, <2>1
    <3> QED
      BY <1>2, <1>4, <2>1, <3>1 DEF TxInv, MessagesOK
  <2>2. CASE j # i
    BY <1>1, <1>3, <1>4, <2>2 DEF TxInv, MessagesOK
  <2> QED
    BY <2>1, <2>2
<1> QED
  BY <1>6, <1>8, <1>9, <1>10 DEF TxInv

LEMMA PopupOK ==
  ASSUME CellInv, TxInv, NEW i \in Ids,
         OpenPopup(i) \/ ShowTransaction(i) \/ LoseTransaction(i) \/ ClosePopup(i)
  PROVE  CellInv' /\ TxInv'
<1>1. /\ UNCHANGED <<cellVars, request, update, sent, pressed>> /\ messages' = messages
      /\ \E state \in Windows : window' = [window EXCEPT ![i] = state]
  BY DEF OpenPopup, ShowTransaction, LoseTransaction, ClosePopup, Windows
<1>2. /\ window' \in [Ids -> Windows] /\ messages' \in [Ids -> Seq(Messages)]
      /\ MessagesOK'
  BY <1>1 DEF TxInv, TxTypeOK, MessagesOK
<1> QED
  BY <1>1, <1>2, PopupOnly

-----------------------------------------------------------------------------
(* The invariant.                                                           *)

LEMMA InitOK == Init => CellInv /\ TxInv
<1> SUFFICES ASSUME Init PROVE CellInv /\ TxInv
  OBVIOUS
<1>1. /\ stored = [version |-> 0, value |-> DefaultValue]
      /\ requests = [c \in Contexts |-> << >>] /\ answers = [c \in Contexts |-> << >>]
      /\ changes = [p \in Pages |-> 0] /\ lastSeen = [p \in Pages |-> None]
      /\ iterator = [p \in Pages |-> None]
      /\ request = [i \in Ids |-> "none"] /\ update = [u \in Updates |-> NoUpdate]
      /\ window = [i \in Ids |-> "none"] /\ messages = [i \in Ids |-> << >>]
      /\ sent = {} /\ pressed = [i \in Ids |-> {}]
  BY DEF Init, CellsInit
<1>2. DefaultValue \in Lists /\ \A presses : Approved(DefaultValue, presses)
  BY NoUpdateOK DEF NoUpdate
<1>3. /\ Background \in Contexts /\ Pages \subseteq Contexts
      /\ \A u \in Updates : ~Waits(u)
  BY <1>1, NoUpdateOK DEF Contexts, Waits
<1>4. CellTypeOK
  BY <1>1, <1>2 DEF CellTypeOK, Versioned
<1>5. ApprovedInCell
  BY <1>1, <1>2, NoItems DEF ApprovedInCell
<1>6. UpdatesAwait
  BY <1>1, <1>3, NoItems DEF UpdatesAwait, AwaitsOK
<1>7. PagesOK
  BY <1>1, <1>3 DEF PagesOK, PageOK
<1>8. TxTypeOK
  BY <1>1, NoUpdateOK DEF TxTypeOK, Requests, Windows
<1>9. RequestsOK
  BY <1>1, <1>3, IndexOK DEF RequestsOK
<1>10. ApprovedInUpdates /\ ApprovedByRequests /\ MessagesOK
  BY <1>1, NoUpdateOK DEF ApprovedInUpdates, ApprovedByRequests, MessagesOK
<1> QED
  BY <1>4, <1>5, <1>6, <1>7, <1>8, <1>9, <1>10 DEF CellInv, TxInv

\* What a step of the cell alone leaves alone.
LEMMA TxUnchanged ==
  ASSUME TxInv, UNCHANGED txVars
  PROVE  TxInv'
BY DEF TxInv, TxTypeOK, RequestsOK, ApprovedInUpdates, ApprovedByRequests, MessagesOK,
       Waits, txVars

LEMMA StepOK == IInv /\ [Next]_vars => IInv'
<1> SUFFICES ASSUME CellInv, TxInv, [Next]_vars PROVE CellInv' /\ TxInv'
  BY DEF IInv
<1>1. ASSUME NEW c \in Contexts, BrowserStep(c), UNCHANGED txVars
      PROVE  CellInv' /\ TxInv'
  BY <1>1, BrowserStepOK, TxUnchanged
<1>2. ASSUME NEW p \in Pages, PageStep(p) \/ OpenPage(p), UNCHANGED txVars
      PROVE  CellInv' /\ TxInv'
  BY <1>2, PageStepOK, OpenPageOK, TxUnchanged
<1>3. ASSUME NEW u \in Updates, UpdateStep(u)
      PROVE  CellInv' /\ TxInv'
  BY <1>3, ControllerReadOK, UpdateReadOK, WriteReadOK DEF UpdateStep
<1>4. ASSUME NEW i \in Ids, Listen(i) \/ SendFails(i)
      PROVE  CellInv' /\ TxInv'
  <2>1. PICK to \in {"prompting", "failed"} :
            /\ request[i] \notin {"creating", "deciding", "recording"}
            /\ request' = [request EXCEPT ![i] = to]
            /\ UNCHANGED <<cellVars, update, window, messages, sent, pressed>>
    BY <1>4 DEF Listen, SendFails
  <2> QED
    BY <2>1, GoesOnOK
<1>5. CASE UNCHANGED vars
  <2>1. UNCHANGED cellVars /\ UNCHANGED <<update, pressed>> /\ UNCHANGED txVars
    BY <1>5 DEF vars, txVars
  <2> QED
    BY <2>1, CellUnchanged, TxUnchanged
<1> QED
  BY <1>1, <1>2, <1>3, <1>4, <1>5, PopupOK, HearMessageOK, PopupRemovedOK, SendBundleOK,
     PressOK, CreateTransactionOK, GetReceiptOK DEF Next, Step

\* Every reachable state of the controllers, popups and pages is one in which what
\* is stored, on its way or being edited is approved only by its user, and each
\* page hears of what it has not read (TransactionsController.ts, CellCollection.ts).
THEOREM TransactionsInvariance == Spec => []IInv
<1>1. Init => IInv
  BY InitOK DEF IInv
<1> QED
  BY <1>1, StepOK, PTL DEF Spec

-----------------------------------------------------------------------------
(* The theorems.                                                            *)

\* A bundle is sent, or a transaction stored as approved, only if its user approved
\* it (TransactionsController.ts:62-68, :119-130, :187-229).
THEOREM OnlyTheUserApproves == Spec => []ApprovalsAreTheUsers
<1>1. IInv => ApprovalsAreTheUsers
  BY DEF IInv, CellInv, TxInv, ApprovedInCell, Approved, ApprovedByRequests,
         ApprovalsAreTheUsers
<1> QED
  BY <1>1, TransactionsInvariance, PTL

\* A page with nothing left to read shows what is stored (CellIterator.ts:27-62).
THEOREM PagesMissNothing == Spec => []NoChangeMissed
<1>1. IInv => NoChangeMissed
  <2> SUFFICES ASSUME IInv, NEW p \in Open, changes[p] = 0, requests[p] = << >>,
                      answers[p] = << >>
               PROVE  iterator[p].waiting /\ iterator[p].provided = stored.value
    BY DEF NoChangeMissed
  <2>1. /\ AwaitsOK(~iterator[p].waiting, requests[p], answers[p], Iterator)
        /\ Hears(stored, requests[p], answers[p], changes[p], lastSeen[p])
        /\ iterator[p].waiting => iterator[p].provided = lastSeen[p].value
    BY DEF IInv, CellInv, PagesOK, PageOK, Open
  <2>2. InRequests(<< >>, Iterator) = {} /\ InAnswers(<< >>, Iterator) = {}
    BY NoItems DEF AwaitsNone
  <2>3. iterator[p].waiting
    BY <2>1, <2>2 DEF AwaitsOK, AwaitsOne
  <2> QED
    BY <2>1, <2>3 DEF Hears
<1> QED
  BY <1>1, TransactionsInvariance, PTL

\* The places that are awaited are as many as AwaitsOK says.
LEMMA AwaitedOK ==
  ASSUME NEW c \in Contexts, NEW reader, NEW waits \in BOOLEAN,
         AwaitsOK(waits, requests[c], answers[c], reader)
  PROVE  Cardinality(Awaited(c, reader)) = IF waits THEN 1 ELSE 0
<1>1. Awaited(c, reader) =
          {<<"request", n>> : n \in InRequests(requests[c], reader)}
          \union {<<"answer", n>> : n \in InAnswers(answers[c], reader)}
  BY DEF Awaited, InRequests, InAnswers
<1>2. CASE waits
  <2>1. \E x : Awaited(c, reader) = {x}
    <3>1. CASE \E n : InRequests(requests[c], reader) = {n}
      <4> PICK n : InRequests(requests[c], reader) = {n}
        BY <3>1
      <4>1. InAnswers(answers[c], reader) = {}
        BY <1>2 DEF AwaitsOK, AwaitsOne
      <4>2. Awaited(c, reader) = {<<"request", n>>}
        BY <1>1, <4>1
      <4> QED
        BY <4>2
    <3>2. CASE \E n : InAnswers(answers[c], reader) = {n}
      <4> PICK n : InAnswers(answers[c], reader) = {n}
        BY <3>2
      <4>1. InRequests(requests[c], reader) = {}
        BY <1>2 DEF AwaitsOK, AwaitsOne
      <4>2. Awaited(c, reader) = {<<"answer", n>>}
        BY <1>1, <4>1
      <4> QED
        BY <4>2
    <3> QED
      BY <1>2, <3>1, <3>2 DEF AwaitsOK, AwaitsOne
  <2> QED
    BY <1>2, <2>1, FS_Singleton
<1>3. CASE ~waits
  <2>1. Awaited(c, reader) = {}
    BY <1>1, <1>3 DEF AwaitsOK, AwaitsNone
  <2> QED
    BY <1>3, <2>1, FS_EmptySet
<1> QED
  BY <1>2, <1>3

\* The types, and that whoever awaits an answer awaits one (CellCollection.ts:128-176,
\* CellIterator.ts:27-62).
THEOREM TransactionsTypeCorrect == Spec => []TypeOK
<1>1. IInv => TypeOK
  <2> SUFFICES ASSUME CellTypeOK, TxTypeOK, UpdatesAwait, PagesOK PROVE TypeOK
    BY DEF IInv, CellInv, TxInv
  <2>1. Background \in Contexts /\ Pages \subseteq Contexts
    BY DEF Contexts
  <2>2. ASSUME NEW u \in Updates
        PROVE  Cardinality(Awaited(Background, Reader(u))) =
                   IF update[u].step \in {"read", "update", "write"} THEN 1 ELSE 0
    <3>1. Waits(u) \in BOOLEAN
      BY DEF Waits
    <3>2. AwaitsOK(Waits(u), requests[Background], answers[Background], Reader(u))
      BY DEF UpdatesAwait
    <3>3. Cardinality(Awaited(Background, Reader(u))) = IF Waits(u) THEN 1 ELSE 0
      BY <2>1, <3>1, <3>2, AwaitedOK
    <3> QED
      BY <3>3 DEF Waits
  <2>3. ASSUME NEW p \in Open
        PROVE  Cardinality(Awaited(p, Iterator)) = IF iterator[p].waiting THEN 0 ELSE 1
    <3>1. /\ p \in Pages /\ iterator[p] \in CellIterators
          /\ AwaitsOK(~iterator[p].waiting, requests[p], answers[p], Iterator)
      BY DEF Open, PagesOK, PageOK, CellTypeOK
    <3>2. (~iterator[p].waiting) \in BOOLEAN
      OBVIOUS
    <3>3. Cardinality(Awaited(p, Iterator)) = IF ~iterator[p].waiting THEN 1 ELSE 0
      BY <2>1, <3>1, <3>2, AwaitedOK
    <3> QED
      BY <3>3
  <2>4. ASSUME NEW c \in Contexts
        PROVE  /\ \A n \in DOMAIN requests[c] :
                      \/ requests[c][n].op = "get"
                      \/ requests[c][n].op = "set" /\ requests[c][n].versioned \in Versioned
               /\ \A n \in DOMAIN answers[c] : answers[c][n].versioned \in Versioned
    <3>1. /\ \A n \in DOMAIN requests[c] : requests[c][n] \in CellRequests
          /\ \A n \in DOMAIN answers[c] : answers[c][n] \in CellAnswers
      BY DEF CellTypeOK
    <3> QED
      BY <3>1 DEF CellRequests, CellAnswers
  <2>5. update \in [Updates -> Update] /\ \A i \in Ids : messages[i] \in Seq(Messages)
    BY DEF TxTypeOK
  <2> QED
    BY <2>2, <2>3, <2>4, <2>5 DEF CellTypeOK, TxTypeOK, TypeOK, Messages
<1> QED
  BY <1>1, TransactionsInvariance, PTL
=============================================================================
