---------------------------- MODULE StorageCells ----------------------------
(****************************************************************************)
(* A cell of the extension that is kept in the browser's local storage      *)
(* (CollectionCell in cells/CellCollection.ts), in every context that has   *)
(* it: the background page, whose controllers write it, and pages, which    *)
(* show it (useCell, forEach, CellIterator).                                *)
(*                                                                          *)
(* A context has one thread.  It sends requests to the browser, which       *)
(* answers each context's requests in their order, and tells every context  *)
(* when the storage was written; answers and these events are not ordered   *)
(* with each other.  An action of a context is what its thread does with    *)
(* one answer or one event, up to the next answer it awaits.                *)
(*                                                                          *)
(* The background page reacts to change events too, by a read whose result  *)
(* only goes to lastSeen.  Nothing there listens to the cell, and an update *)
(* uses lastSeen right after a read of its own, so both are left out.       *)
(****************************************************************************)
EXTENDS Naturals, Sequences

CONSTANTS
    Background,     \* the context of the controllers
    Pages,          \* contexts that show the cell
    DefaultValue,   \* makeDefault()
    None            \* undefined

VARIABLES
    stored,      \* the browser's storage: a versioned value
    requests,    \* of each context, to the browser
    answers,     \* of the browser, to each context
    changes,     \* of each page: how many change events it has not seen yet
    lastSeen,    \* of each page: CollectionCell.lastSeen
    iterator     \* of each page that is open: its CellIterator

cellVars == <<stored, requests, answers, changes, lastSeen, iterator>>

Contexts == {Background} \union Pages

\* Readers: the cell itself, the iterator of a page, others (see Transactions).
Cell == <<"cell">>
Iterator == <<"iterator">>

Get(reader) == [op |-> "get", reader |-> reader]
Set(versioned) == [op |-> "set", versioned |-> versioned]

\* The context's thread sends the requests in the sequence.
Send(context, sent) ==
    requests' = [requests EXCEPT ![context] = @ \o sent]

\* Nothing was written yet, and only the background page runs.
CellsInit ==
    /\ stored = [version |-> 0, value |-> DefaultValue]
    /\ requests = [c \in Contexts |-> <<>>]
    /\ answers = [c \in Contexts |-> <<>>]
    /\ changes = [p \in Pages |-> 0]
    /\ lastSeen = [p \in Pages |-> None]
    /\ iterator = [p \in Pages |-> None]

Open == {p \in Pages : iterator[p] # None}

-----------------------------------------------------------------------------
(* The browser. *)

BrowserGets(context) ==
    /\ requests[context] # <<>>
    /\ Head(requests[context]).op = "get"
    /\ requests' = [requests EXCEPT ![context] = Tail(@)]
    /\ answers' = [answers EXCEPT ![context] =
           Append(@, [reader |-> Head(requests[context]).reader, versioned |-> stored])]
    /\ UNCHANGED <<stored, changes, lastSeen, iterator>>

BrowserSets(context) ==
    /\ requests[context] # <<>>
    /\ Head(requests[context]).op = "set"
    /\ requests' = [requests EXCEPT ![context] = Tail(@)]
    /\ stored' = Head(requests[context]).versioned
    /\ changes' = [p \in Pages |-> IF p \in Open THEN changes[p] + 1 ELSE 0]
    /\ UNCHANGED <<answers, lastSeen, iterator>>

-----------------------------------------------------------------------------
(* A context. *)

\* The next answer to the context is for the reader, and its thread takes it.
Answered(context, reader) ==
    /\ answers[context] # <<>>
    /\ Head(answers[context]).reader = reader
    /\ answers' = [answers EXCEPT ![context] = Tail(@)]

Answer(context) == Head(answers[context]).versioned

\* A page makes its cell, whose constructor reads, and iterates over it.
OpenPage(page) ==
    /\ page \notin Open
    /\ iterator' = [iterator EXCEPT ![page] = [waiting |-> FALSE, provided |-> None]]
    /\ Send(page, <<Get(Cell), Get(Iterator)>>)
    /\ UNCHANGED <<stored, answers, changes, lastSeen>>

\* Mutated: no second read while the answer to one is on its way.
HandleChangeUnlessReading(page) ==
    /\ changes[page] > 0
    /\ changes' = [changes EXCEPT ![page] = @ - 1]
    /\ IF answers[page] # <<>> THEN UNCHANGED requests ELSE Send(page, <<Get(Cell)>>)
    /\ UNCHANGED <<stored, answers, lastSeen, iterator>>

\* #asyncStorageChangeHandler: the cell is read again.
HandleChange(page) ==
    /\ changes[page] > 0
    /\ changes' = [changes EXCEPT ![page] = @ - 1]
    /\ Send(page, <<Get(Cell)>>)
    /\ UNCHANGED <<stored, answers, lastSeen, iterator>>

\* versionedRead, once it is answered.
VersionedRead(page) ==
    lastSeen' = [lastSeen EXCEPT ![page] = Answer(page)]

HasChanged(page) ==
    lastSeen[page] = None \/ lastSeen[page].value # Answer(page).value

\* The iterator's promise resolves: forEach handles the value and asks for the next.
Provide(page) ==
    /\ iterator' = [iterator EXCEPT ![page] =
           [waiting |-> FALSE, provided |-> Answer(page).value]]
    /\ Send(page, <<Get(Iterator)>>)

\* Mutated: the iterator's listener also hears of changes while it reads.
CellReadAlwaysProvides(page) ==
    /\ Answered(page, Cell)
    /\ VersionedRead(page)
    /\ IF HasChanged(page) THEN Provide(page) ELSE UNCHANGED <<requests, iterator>>
    /\ UNCHANGED <<stored, changes>>

\* A read of the cell itself is answered; an iterator that waits hears of a change.
CellRead(page) ==
    /\ Answered(page, Cell)
    /\ VersionedRead(page)
    /\ IF iterator[page].waiting /\ HasChanged(page)
       THEN Provide(page)
       ELSE UNCHANGED <<requests, iterator>>
    /\ UNCHANGED <<stored, changes>>

\* Mutated: only the first read is compared, later ones just wait.
IteratorReadOnce(page) ==
    /\ Answered(page, Iterator)
    /\ VersionedRead(page)
    /\ IF iterator[page].provided = None
       THEN Provide(page)
       ELSE /\ iterator' = [iterator EXCEPT ![page].waiting = TRUE]
            /\ UNCHANGED requests
    /\ UNCHANGED <<stored, changes>>

\* CellIterator.next, once its read is answered: a value that was not provided
\* yet is provided, otherwise the iterator waits for a change.
IteratorRead(page) ==
    /\ Answered(page, Iterator)
    /\ VersionedRead(page)
    /\ IF iterator[page].provided # Answer(page).value
       THEN Provide(page)
       ELSE /\ iterator' = [iterator EXCEPT ![page].waiting = TRUE]
            /\ UNCHANGED requests
    /\ UNCHANGED <<stored, changes>>

BrowserStep(context) == BrowserGets(context) \/ BrowserSets(context)
PageStep(page) == HandleChange(page) \/ CellRead(page) \/ IteratorRead(page)
=============================================================================
