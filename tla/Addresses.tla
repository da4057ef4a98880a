----------------------------- MODULE Addresses -----------------------------
(***************************************************************************)
(* The address books of the customers.  Every customer may mark one of     *)
(* their addresses as the default one; the handlers that mark an address   *)
(* unmark the others they find.  As everywhere in the shop, what a handler *)
(* has read may be out of date when SaveChangesAsync writes it back.       *)
(***************************************************************************)
EXTENDS Naturals, Sequences

CONSTANTS
    Customers,      \* customers; an address belongs to one of them
    Requests,       \* HTTP requests that may be in progress at one time
    MaxAddresses    \* bound: no address is added once there are so many

VARIABLES
    address,        \* the rows of table address, by address_id
    pc,             \* where each request's handler is
    target,         \* SetDefault: the address it marks, as first read
    tracked,        \* the changes the request's DbContext will write
    restored        \* history: the addresses a customer has restored

vars == <<address, pc, target, tracked, restored>>

Address == [owner : Customers, isDefault : BOOLEAN, deleted : BOOLEAN]

Ids == DOMAIN address

\* Functions from a subset of S to BOOLEAN: the new values of a column.
Column(S) == UNION {[D -> BOOLEAN] : D \in SUBSET S}

Changes == [insert : Seq(Address), isDefault : Column(Ids), deleted : Column(Ids)]

NoChanges == [insert |-> <<>>, isDefault |-> <<>>, deleted |-> <<>>]
NoTarget  == [id |-> 0, isDefault |-> FALSE]

Init ==
    /\ address = <<>>
    /\ pc = [r \in Requests |-> "idle"]
    /\ target = [r \in Requests |-> NoTarget]
    /\ tracked = [r \in Requests |-> NoChanges]
    /\ restored = {}

-----------------------------------------------------------------------------

\* Variant of Marked with a bug: the addresses of every customer.
MarkedByAnyone(c) == {a \in Ids : ~ address[a].deleted /\ address[a].isDefault}

\* The addresses GetByCustomerIdAsync returns that are marked.
Marked(c) ==
    {a \in Ids : /\ address[a].owner = c
                 /\ ~ address[a].deleted
                 /\ address[a].isDefault}

\* A handler that has prepared everything it will save.
Prepare(r, changes) ==
    /\ pc' = [pc EXCEPT ![r] = "saving"]
    /\ tracked' = [tracked EXCEPT ![r] = changes]
    /\ UNCHANGED <<address, restored>>

\* Variant of AddAddress with a bug: the old default address is not unmarked.
AddAddressOnly(r, c, isDefault) ==
    /\ pc[r] = "idle"
    /\ Len(address) < MaxAddresses
    /\ Prepare(r, [NoChanges EXCEPT !.insert =
          <<[owner |-> c, isDefault |-> isDefault, deleted |-> FALSE]>>])
    /\ UNCHANGED target

\* AddAddress: a new default address takes the mark from the others.
AddAddress(r, c, isDefault) ==
    /\ pc[r] = "idle"
    /\ Len(address) < MaxAddresses
    /\ Prepare(r,
          [insert    |-> <<[owner |-> c, isDefault |-> isDefault, deleted |-> FALSE]>>,
           isDefault |-> IF isDefault THEN [a \in Marked(c) |-> FALSE] ELSE <<>>,
           deleted   |-> <<>>])
    /\ UNCHANGED target

\* SetDefaultAddress, first query: the address, deleted or not.
SetDefaultAddress(r, c, a) ==
    /\ pc[r] = "idle"
    /\ address[a].owner = c
    /\ pc' = [pc EXCEPT ![r] = "listing"]
    /\ target' = [target EXCEPT ![r] = [id |-> a, isDefault |-> address[a].isDefault]]
    /\ UNCHANGED <<address, tracked, restored>>

\* SetDefaultAddress, second query: the marked addresses lose their mark and
\* the target gets it.  The context keeps the target as first read: if it was
\* marked then, it is unmarked and marked again, which changes nothing.
ListAddresses(r) ==
    LET a == target[r].id
        c == address[a].owner
        write == IF target[r].isDefault THEN {} ELSE {a}
    IN
    /\ pc[r] = "listing"
    /\ target[r].isDefault => ~ address[a].deleted
    /\ Prepare(r, [NoChanges EXCEPT
          !.isDefault = [b \in (Marked(c) \ {a}) \cup write |-> b = a]])
    /\ target' = [target EXCEPT ![r] = NoTarget]

\* UnsetDefaultAddress.
UnsetDefaultAddress(r, c, a) ==
    /\ pc[r] = "idle"
    /\ address[a].owner = c
    /\ address[a].isDefault
    /\ Prepare(r, [NoChanges EXCEPT !.isDefault = [b \in {a} |-> FALSE]])
    /\ UNCHANGED target

\* DeleteAddress: a soft delete, which leaves the mark.
DeleteAddress(r, c, a) ==
    /\ pc[r] = "idle"
    /\ address[a].owner = c
    /\ ~ address[a].deleted
    /\ Prepare(r, [NoChanges EXCEPT !.deleted = [b \in {a} |-> TRUE]])
    /\ UNCHANGED target

\* RestoreAddress, a handler without an endpoint as yet.
RestoreAddress(r, c, a) ==
    /\ pc[r] = "idle"
    /\ address[a].owner = c
    /\ address[a].deleted
    /\ Prepare(r, [NoChanges EXCEPT !.deleted = [b \in {a} |-> FALSE]])
    /\ UNCHANGED target

\* A request for an address that does not exist, is another customer's or is in
\* the wrong state already: the exception leaves no trace.
Refused(r) ==
    /\ pc[r] = "idle"
    /\ UNCHANGED vars

\* The table once the changes have been written.
Written(changes) ==
    [a \in Ids |->
        [owner     |-> address[a].owner,
         isDefault |-> IF a \in DOMAIN changes.isDefault
                       THEN changes.isDefault[a] ELSE address[a].isDefault,
         deleted   |-> IF a \in DOMAIN changes.deleted
                       THEN changes.deleted[a] ELSE address[a].deleted]]
    \o changes.insert

\* The request is over, with or without a trace.
Release(r) ==
    /\ pc' = [pc EXCEPT ![r] = "idle"]
    /\ target' = [target EXCEPT ![r] = NoTarget]
    /\ tracked' = [tracked EXCEPT ![r] = NoChanges]

\* The addresses that the changes bring back.
BroughtBack(changes) == {a \in DOMAIN changes.deleted : ~ changes.deleted[a]}

\* SaveChangesAsync: one transaction; address rows are never removed, so each
\* UPDATE finds its row.
SaveChanges(r) ==
    /\ pc[r] = "saving"
    /\ address' = Written(tracked[r])
    /\ restored' = restored \cup BroughtBack(tracked[r])
    /\ Release(r)

\* The request dies, or SetAsDefault throws because the target is both marked
\* and deleted.
Abort(r) ==
    /\ pc[r] # "idle"
    /\ Release(r)
    /\ UNCHANGED <<address, restored>>

Next ==
    \E r \in Requests :
        \/ \E c \in Customers, isDefault \in BOOLEAN : AddAddress(r, c, isDefault)
        \/ \E c \in Customers, a \in Ids :
              \/ SetDefaultAddress(r, c, a)
              \/ UnsetDefaultAddress(r, c, a)
              \/ DeleteAddress(r, c, a)
              \/ RestoreAddress(r, c, a)
        \/ Refused(r)
        \/ ListAddresses(r)
        \/ SaveChanges(r)
        \/ Abort(r)

Spec == Init /\ [][Next]_vars

-----------------------------------------------------------------------------

\* The owners of the addresses that changes update or insert.
Owners(changes) ==
    {address[a].owner : a \in DOMAIN changes.isDefault \cup DOMAIN changes.deleted}
        \cup {changes.insert[i].owner : i \in DOMAIN changes.insert}

\* Every variable holds a value of its kind, and a request never writes the
\* addresses of two customers.
TypeOK ==
    /\ address \in Seq(Address)
    /\ pc \in [Requests -> {"idle", "listing", "saving"}]
    /\ target \in [Requests -> [id : {0} \cup Ids, isDefault : BOOLEAN]]
    /\ \A r \in Requests : pc[r] = "listing" => target[r].id # 0
    /\ tracked \in [Requests -> Changes]
    /\ restored \subseteq Ids
    /\ \A r \in Requests : \A c, d \in Owners(tracked[r]) : c = d

\* No customer has two default addresses, those left aside that came back from
\* deletion with their old mark.
OneDefault ==
    \A a, b \in Ids \ restored :
        /\ address[a].owner = address[b].owner
        /\ ~ address[a].deleted /\ ~ address[b].deleted
        /\ address[a].isDefault /\ address[b].isDefault
        => a = b

=============================================================================
