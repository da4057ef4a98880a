--------------------------- MODULE AccountsProofs ---------------------------
(***************************************************************************)
(* The accounts, for any number of processes, requests and customers: no   *)
(* two accounts share a contact, the first account is an administrator's,  *)
(* and processes that start together seed one administrator.               *)
(***************************************************************************)
EXTENDS Accounts, SequenceTheorems, TLAPS

Places == {"idle", "email", "phone", "saving", "welcoming", "serving"}

\* While a form is in one of these places, it may still be written.
Pending == {"email", "phone", "saving"}

\* Only the seed of a process carries an administrator that is not in the table
\* yet, and what a new customer is welcomed with is what the table says.
Forms ==
    /\ \A p \in Processes : form[p] = Form(0, Admin)
    /\ \A r \in Requests :
          /\ pc[r] \in Pending /\ form[r].id = 0 => ~ form[r].content.isAdmin
          /\ pc[r] = "welcoming" =>
                /\ form[r].id \in Ids
                /\ form[r].content.isAdmin = customer[form[r].id].isAdmin

\* There is an account whenever a process serves or a request is in progress.
Opened ==
    /\ \A p \in Processes : pc[p] = "serving" => customer # <<>>
    /\ \A r \in Requests : pc[r] # "idle" => customer # <<>>

\* An account that has not moved holds one of the administrator's contacts.
Contacts ==
    \A i \in Ids \ moved :
        customer[i].email = AdminEmail \/ customer[i].phone = AdminPhone

IInv == TypeOK /\ UniqueContacts /\ AdminFirst /\ OneAdmin /\ Forms /\ Opened /\ Contacts

-----------------------------------------------------------------------------

\* Replacing an element of a sequence.
LEMMA ReplaceElement ==
    ASSUME NEW S, NEW s \in Seq(S), NEW i \in DOMAIN s, NEW x \in S
    PROVE  /\ [s EXCEPT ![i] = x] \in Seq(S)
           /\ DOMAIN [s EXCEPT ![i] = x] = DOMAIN s
           /\ \A j \in DOMAIN s : [s EXCEPT ![i] = x][j] = IF j = i THEN x ELSE s[j]
<1>1. Len(s) \in Nat /\ DOMAIN s = 1..Len(s) /\ \A j \in 1..Len(s) : s[j] \in S
  OBVIOUS
<1> DEFINE t == [s EXCEPT ![i] = x]
<1>2. DOMAIN t = 1..Len(s) /\ \A j \in 1..Len(s) : t[j] = IF j = i THEN x ELSE s[j]
  BY <1>1
<1>3. t \in [1..Len(s) -> S]
  BY <1>1, <1>2
<1>4. t \in Seq(S)
  BY <1>1, <1>3
<1> QED  BY <1>1, <1>2, <1>4

\* The table is a sequence of rows with the keys 1, 2, ...
LEMMA Table ==
    ASSUME TypeOK
    PROVE  /\ Len(customer) \in Nat
           /\ Ids = 1..Len(customer)
           /\ \A i \in Ids : customer[i] \in Customer
           /\ customer # <<>> => 1 \in Ids
BY DEF TypeOK, Ids

LEMMA InitInv == Init => IInv
<1> SUFFICES ASSUME Init PROVE IInv
  OBVIOUS
<1>1. Admin \in Customer
  BY AdminContacts DEF Admin, Customer
<1>2. customer = <<>> /\ Ids = {} /\ moved = {} /\ sessions = {}
  BY DEF Init, Ids
<1>3. customer \in Seq(Customer) /\ crashes \in 0 .. MaxCrashes
  BY <1>2, BoundsAssumption DEF Init
<1>4. form \in [Tasks -> [id : {0} \cup Ids, content : Customer]]
  BY <1>1, <1>2 DEF Init, Form
<1>5. TypeOK
  BY <1>1, <1>2, <1>3, <1>4 DEF Init, TypeOK
<1> QED
  BY <1>2, <1>5 DEF IInv, Init, UniqueContacts, AdminFirst, OneAdmin, Admins,
        Forms, Opened, Contacts, Pending, Tasks, Form

-----------------------------------------------------------------------------

\* A step that leaves the table alone keeps the invariant, if what it makes of
\* the forms, the places and the tokens is in order.
LEMMA TableUnchanged ==
    ASSUME IInv, UNCHANGED <<customer, moved>>,
           pc' \in [Tasks -> Places],
           form' \in [Tasks -> [id : {0} \cup Ids, content : Customer]],
           loaded' \in [Tasks -> Customer],
           sessions' \subseteq [id : Ids, isAdmin : BOOLEAN],
           \A s \in sessions' : s.isAdmin = customer[s.id].isAdmin,
           crashes' \in 0 .. MaxCrashes,
           Forms', Opened'
    PROVE  IInv'
<1>1. Ids' = Ids /\ Admins' = Admins
  BY DEF Ids, Admins
<1>2. TypeOK'
  BY <1>1 DEF IInv, TypeOK, Places
<1>3. UniqueContacts' /\ AdminFirst' /\ OneAdmin' /\ Contacts'
  BY <1>1 DEF IInv, UniqueContacts, AdminFirst, OneAdmin, Contacts
<1> QED
  BY <1>2, <1>3 DEF IInv

\* A task that moves on to another query or to its save, or a process that
\* begins to serve.
LEMMA GoToInv ==
    ASSUME IInv, NEW t \in Tasks, NEW place \in Places, GoTo(t, place),
           place # "welcoming",
           t \in Requests => pc[t] \in Pending /\ place \in Pending,
           place = "serving" => customer # <<>>
    PROVE  IInv'
<1>1. /\ pc' = [pc EXCEPT ![t] = place]
      /\ UNCHANGED <<customer, form, loaded, sessions, moved, crashes>>
  BY DEF GoTo
<1>2. Ids' = Ids
  BY <1>1 DEF Ids
<1>3. TypeOK
  BY DEF IInv
<1>4. Forms'
  BY <1>1, <1>2, <1>3 DEF IInv, Forms, TypeOK, Tasks, Pending
<1>5. Opened'
  BY <1>1, <1>3 DEF IInv, Opened, TypeOK, Tasks, Pending
<1> QED
  BY <1>1, <1>2, <1>3, <1>4, <1>5, TableUnchanged DEF TypeOK, Places

\* A task that begins to write: a process its seed, a request an account that
\* is new and a plain customer's, or one that exists.
LEMMA BeginInv ==
    ASSUME IInv, NEW t \in Tasks, NEW id \in {0} \cup Ids,
           NEW content \in Customer, NEW old \in Customer,
           Begin(t, id, content, old),
           t \in Processes => id = 0 /\ content = Admin,
           t \in Requests => customer # <<>> /\ (id = 0 => ~ content.isAdmin)
    PROVE  IInv'
<1>1. /\ pc' = [pc EXCEPT ![t] = "email"]
      /\ form' = [form EXCEPT ![t] = Form(id, content)]
      /\ loaded' = [loaded EXCEPT ![t] = old]
      /\ UNCHANGED <<customer, sessions, moved, crashes>>
  BY DEF Begin
<1>2. Ids' = Ids
  BY <1>1 DEF Ids
<1>3. TypeOK
  BY DEF IInv
<1>4. Form(id, content) \in [id : {0} \cup Ids, content : Customer]
  BY DEF Form
<1>5. Forms'
  <2>1. ASSUME NEW p \in Processes PROVE form'[p] = Form(0, Admin)
    BY <1>1, <1>3 DEF IInv, Forms, TypeOK, Tasks
  <2>2. ASSUME NEW r \in Requests
        PROVE  /\ pc'[r] \in Pending /\ form'[r].id = 0 => ~ form'[r].content.isAdmin
               /\ pc'[r] = "welcoming" =>
                     /\ form'[r].id \in Ids
                     /\ form'[r].content.isAdmin = customer[form'[r].id].isAdmin
    <3>1. CASE r = t
      BY <1>1, <1>3, <3>1 DEF TypeOK, Tasks, Form
    <3>2. CASE r # t
      BY <1>1, <1>3, <3>2 DEF IInv, Forms, TypeOK, Tasks
    <3> QED  BY <3>1, <3>2
  <2> QED
    BY <1>1, <1>2, <2>1, <2>2 DEF Forms
<1>6. Opened'
  BY <1>1, <1>3, TasksDisjoint DEF IInv, Opened, TypeOK, Tasks
<1> QED
  BY <1>1, <1>2, <1>3, <1>4, <1>5, <1>6, TableUnchanged DEF TypeOK, Places

\* A task that ends and leaves the table alone.
LEMMA FinishInv ==
    ASSUME IInv, NEW t \in Tasks, Finish(t, "idle"),
           UNCHANGED <<customer, moved>>,
           crashes' \in 0 .. MaxCrashes,
           sessions' \subseteq [id : Ids, isAdmin : BOOLEAN],
           \A s \in sessions' : s.isAdmin = customer[s.id].isAdmin
    PROVE  IInv'
<1>1. /\ pc' = [pc EXCEPT ![t] = "idle"]
      /\ form' = [form EXCEPT ![t] = Form(0, Admin)]
      /\ loaded' = [loaded EXCEPT ![t] = Admin]
  BY DEF Finish
<1>2. Ids' = Ids /\ Admin \in Customer
  BY AdminContacts DEF Ids, Admin, Customer
<1>3. TypeOK
  BY DEF IInv
<1>4. Form(0, Admin) \in [id : {0} \cup Ids, content : Customer]
  BY <1>2 DEF Form
<1>5. Forms'
  BY <1>1, <1>2, <1>3 DEF IInv, Forms, TypeOK, Tasks, Pending
<1>6. Opened'
  BY <1>1, <1>3 DEF IInv, Opened, TypeOK, Tasks
<1> QED
  BY <1>1, <1>2, <1>3, <1>4, <1>5, <1>6, TableUnchanged DEF TypeOK, Places

-----------------------------------------------------------------------------

\* What SaveChanges makes of the table: row id is new or replaced, and no other
\* row has its contacts; the role of an old row stays.
LEMMA SavedTable ==
    ASSUME IInv, NEW t \in Tasks, SaveChanges(t),
           NEW id, id = IF form[t].id = 0 THEN Len(customer) + 1 ELSE form[t].id
    PROVE  /\ customer' \in Seq(Customer)
           /\ Ids' = Ids \cup {id} /\ 1 \in Ids' /\ id \in Nat \ {0}
           /\ form[t].id = 0 => id \notin Ids
           /\ form[t].id # 0 => id \in Ids /\ customer'[id].isAdmin = customer[id].isAdmin
           /\ \A i \in Ids \ {id} : /\ customer'[i] = customer[i]
                                    /\ customer'[i].email # Written(t).email
                                    /\ customer'[i].phone # Written(t).phone
           /\ customer'[id] = Written(t) /\ Written(t) \in Customer
           /\ customer' # <<>>
<1>1. TypeOK
  BY DEF IInv
<1>2. /\ Len(customer) \in Nat /\ Ids = 1..Len(customer)
      /\ \A i \in Ids : customer[i] \in Customer
      /\ customer \in Seq(Customer)
  BY <1>1, Table DEF TypeOK
<1>3. /\ form[t].id \in {0} \cup Ids /\ form[t].content \in Customer
      /\ loaded[t] \in Customer
  BY <1>1 DEF TypeOK
<1>4. Written(t) \in Customer
  <2>1. CASE form[t].id = 0
    BY <1>3, <2>1 DEF Written
  <2>2. CASE form[t].id # 0
    <3>1. customer[form[t].id] \in Customer
      BY <1>2, <1>3, <2>2
    <3> QED
      BY <1>3, <2>2, <3>1 DEF Written, Customer
  <2> QED  BY <2>1, <2>2
<1>5. \A i \in Ids \ {id} : /\ customer[i].email # Written(t).email
                            /\ customer[i].phone # Written(t).phone
  <2> SUFFICES ASSUME NEW i \in Ids \ {id}
               PROVE  /\ customer[i].email # Written(t).email
                      /\ customer[i].phone # Written(t).phone
    OBVIOUS
  <2>1. i # form[t].id
    BY <1>2, <1>3
  <2>2. /\ ~ (WritesEmail(t) /\ customer[i].email = form[t].content.email)
        /\ ~ (WritesPhone(t) /\ customer[i].phone = form[t].content.phone)
    BY <2>1 DEF SaveChanges, Duplicate
  <2>3. CASE form[t].id = 0
    BY <2>2, <2>3 DEF Written, WritesEmail, WritesPhone
  <2>4. CASE form[t].id # 0
    <3>1. form[t].id \in Ids /\ customer[form[t].id] \in Customer
      BY <1>2, <1>3, <2>4
    <3>2. /\ customer[i].email # customer[form[t].id].email
          /\ customer[i].phone # customer[form[t].id].phone
      BY <2>1, <3>1 DEF IInv, UniqueContacts
    <3>3. /\ Written(t).email = IF WritesEmail(t) THEN form[t].content.email
                                ELSE customer[form[t].id].email
          /\ Written(t).phone = IF WritesPhone(t) THEN form[t].content.phone
                                ELSE customer[form[t].id].phone
      BY <2>4, <3>1 DEF Written, Customer
    <3> QED  BY <2>2, <3>2, <3>3
  <2> QED  BY <2>3, <2>4
<1>6. CASE form[t].id = 0
  <2>1. customer' = Append(customer, Written(t)) /\ id = Len(customer) + 1
    BY <1>6 DEF SaveChanges
  <2>2. /\ customer' \in Seq(Customer) /\ Len(customer') = Len(customer) + 1
        /\ \A i \in 1..Len(customer) : customer'[i] = customer[i]
        /\ customer'[Len(customer) + 1] = Written(t)
    BY <1>2, <1>4, <2>1
  <2>3. Ids' = Ids \cup {id} /\ 1 \in Ids'
    BY <1>2, <2>1, <2>2 DEF Ids
  <2> QED
    BY <1>2, <1>4, <1>5, <1>6, <2>1, <2>2, <2>3
<1>7. CASE form[t].id # 0
  <2>1. id \in Ids /\ customer' = [customer EXCEPT ![id] = Written(t)]
    BY <1>3, <1>7 DEF SaveChanges
  <2>2. /\ customer' \in Seq(Customer)
        /\ DOMAIN customer' = DOMAIN customer
        /\ \A j \in DOMAIN customer :
              customer'[j] = IF j = id THEN Written(t) ELSE customer[j]
    BY <1>2, <1>4, <2>1, ReplaceElement DEF Ids
  <2>3. Written(t).isAdmin = customer[id].isAdmin
    BY <1>2, <1>7, <2>1 DEF Written, Customer
  <2>4. Ids' = Ids /\ 1 \in Ids /\ customer' # <<>>
    BY <1>2, <2>1, <2>2 DEF Ids
  <2> QED
    BY <1>2, <1>4, <1>5, <1>7, <2>1, <2>2, <2>3, <2>4 DEF Ids
<1> QED  BY <1>6, <1>7

\* A save keeps the contacts apart and the administrators in their places.
LEMMA SaveKeepsTable ==
    ASSUME IInv, NEW t \in Tasks, SaveChanges(t)
    PROVE  UniqueContacts' /\ AdminFirst' /\ OneAdmin' /\ Contacts'
<1> DEFINE id == IF form[t].id = 0 THEN Len(customer) + 1 ELSE form[t].id
<1>1. /\ Ids' = Ids \cup {id} /\ id \in Nat \ {0}
      /\ form[t].id = 0 => id \notin Ids
      /\ form[t].id # 0 => id \in Ids /\ customer'[id].isAdmin = customer[id].isAdmin
      /\ \A i \in Ids \ {id} : /\ customer'[i] = customer[i]
                               /\ customer'[i].email # Written(t).email
                               /\ customer'[i].phone # Written(t).phone
      /\ customer'[id] = Written(t)
      /\ customer' # <<>> /\ 1 \in Ids'
  BY SavedTable
<1>2. moved' = IF Written(t).email # AdminEmail /\ Written(t).phone # AdminPhone
               THEN moved \cup {id} ELSE moved
  BY DEF SaveChanges
<1>3. Len(customer) \in Nat /\ Ids = 1..Len(customer) /\ TypeOK
  BY Table DEF IInv
<1>4. form[t].id = 0 => id = Len(customer) + 1
  OBVIOUS
<1>5. t \in Requests \/ t \in Processes
  BY DEF Tasks
<1>6. form[t].id = 0 =>
         \/ t \in Processes /\ Written(t) = Admin
         \/ t \in Requests /\ ~ Written(t).isAdmin /\ customer # <<>>
  BY <1>5 DEF IInv, Forms, Opened, SaveChanges, Written, Form, Pending
<1> HIDE DEF id
<1>7. UniqueContacts'
  BY <1>1 DEF IInv, UniqueContacts
<1>8. Contacts'
  BY <1>1, <1>2 DEF IInv, Contacts
<1>9. AdminFirst'
  <2>1. CASE customer = <<>>
    <3>1. Ids = {} /\ Ids' = {1} /\ id = 1
      BY <1>1, <1>3, <2>1
    <3>2. form[t].id = 0
      BY <1>1, <3>1
    <3> QED
      BY <1>1, <1>6, <2>1, <3>1, <3>2 DEF AdminFirst, Admin
  <2>2. CASE customer # <<>>
    <3>1. 1 \in Ids /\ customer[1].isAdmin
      BY <1>3, <2>2, Table DEF IInv, AdminFirst
    <3>2. customer'[1].isAdmin = customer[1].isAdmin
      BY <1>1, <3>1
    <3> QED  BY <3>1, <3>2 DEF AdminFirst
  <2> QED  BY <2>1, <2>2
<1>10. OneAdmin'
  <2> SUFFICES ASSUME NEW i \in Admins', NEW j \in Admins', i < j
               PROVE  i \in moved'
    BY DEF OneAdmin
  <2>1. i \in Ids' /\ j \in Ids' /\ customer'[i].isAdmin /\ customer'[j].isAdmin
    BY DEF Admins
  <2>2. CASE form[t].id # 0
    <3>1. Ids' = Ids /\ i \in Admins /\ j \in Admins
      BY <1>1, <2>1, <2>2 DEF Admins
    <3> QED  BY <1>2, <3>1 DEF IInv, OneAdmin
  <2>3. CASE form[t].id = 0 /\ j # id
    <3>1. j \in Ids /\ i \in Ids
      BY <1>1, <1>3, <1>4, <2>1, <2>3
    <3>2. i \in Admins /\ j \in Admins
      BY <1>1, <2>1, <2>3, <3>1 DEF Admins
    <3> QED  BY <1>2, <3>2 DEF IInv, OneAdmin
  <2>4. CASE form[t].id = 0 /\ j = id
    <3>1. i \in Ids \ {id} /\ Written(t) = Admin
      BY <1>1, <1>3, <1>4, <1>6, <2>1, <2>4
    <3>2. customer[i].email # AdminEmail /\ customer[i].phone # AdminPhone
      BY <1>1, <3>1 DEF Admin
    <3>3. i \in moved
      BY <3>1, <3>2 DEF IInv, Contacts
    <3> QED  BY <1>2, <3>3
  <2> QED  BY <2>2, <2>3, <2>4
<1> QED  BY <1>7, <1>8, <1>9, <1>10

\* A save keeps the whole invariant.
LEMMA SaveInv ==
    ASSUME IInv, NEW t \in Tasks, SaveChanges(t)
    PROVE  IInv'
<1> DEFINE id == IF form[t].id = 0 THEN Len(customer) + 1 ELSE form[t].id
<1>1. /\ customer' \in Seq(Customer)
      /\ Ids' = Ids \cup {id} /\ id \in Nat \ {0}
      /\ form[t].id # 0 => customer'[id].isAdmin = customer[id].isAdmin
      /\ form[t].id = 0 => id \notin Ids
      /\ \A i \in Ids \ {id} : customer'[i] = customer[i]
      /\ customer'[id] = Written(t) /\ Written(t) \in Customer
      /\ customer' # <<>>
  BY SavedTable
<1>2. TypeOK /\ UNCHANGED <<sessions, crashes>>
  BY DEF IInv, SaveChanges
<1>3. moved' \subseteq Ids'
  BY <1>1, <1>2 DEF SaveChanges, TypeOK
<1>4. \A s \in sessions' : s.isAdmin = customer'[s.id].isAdmin
  BY <1>1, <1>2 DEF TypeOK
<1>5. \/ /\ t \in Requests /\ form[t].id = 0
         /\ pc' = [pc EXCEPT ![t] = "welcoming"]
         /\ form' = [form EXCEPT ![t].id = id]
         /\ loaded' = loaded
      \/ /\ t \in Processes \/ form[t].id # 0
         /\ \E place \in {"serving", "idle"} :
               /\ pc' = [pc EXCEPT ![t] = place]
               /\ place = "serving" => t \in Processes
         /\ form' = [form EXCEPT ![t] = Form(0, Admin)]
         /\ loaded' = [loaded EXCEPT ![t] = Admin]
  BY DEF SaveChanges, Finish, Tasks
<1> HIDE DEF id
<1>6. Admin \in Customer
  BY AdminContacts DEF Admin, Customer
<1>7. form[t] = [id |-> form[t].id, content |-> form[t].content]
  BY <1>2 DEF TypeOK
<1>8. TypeOK'
  <2>1. form' \in [Tasks -> [id : {0} \cup Ids', content : Customer]]
    <3>1. /\ [id |-> id, content |-> form[t].content]
                  \in [id : {0} \cup Ids', content : Customer]
          /\ Form(0, Admin) \in [id : {0} \cup Ids', content : Customer]
      BY <1>1, <1>2, <1>6 DEF TypeOK, Form
    <3>2. form \in [Tasks -> [id : {0} \cup Ids', content : Customer]]
      BY <1>1, <1>2 DEF TypeOK
    <3>3. [form[t] EXCEPT !.id = id] = [id |-> id, content |-> form[t].content]
      BY <1>7
    <3> QED  BY <1>5, <3>1, <3>2, <3>3
  <2>2. pc' \in [Tasks -> Places] /\ loaded' \in [Tasks -> Customer]
    BY <1>2, <1>5, <1>6 DEF TypeOK, Places
  <2> QED
    BY <1>1, <1>2, <1>3, <1>4, <2>1, <2>2 DEF TypeOK, Places
<1>9. \A i \in Ids : i \in Ids' /\ customer'[i].isAdmin = customer[i].isAdmin
  BY <1>1
<1>10. Forms'
  <2>1. ASSUME NEW p \in Processes PROVE form'[p] = Form(0, Admin)
    BY <1>2, <1>5, TasksDisjoint DEF IInv, Forms, TypeOK, Tasks
  <2>2. ASSUME NEW r \in Requests
        PROVE  /\ pc'[r] \in Pending /\ form'[r].id = 0 => ~ form'[r].content.isAdmin
               /\ pc'[r] = "welcoming" =>
                     /\ form'[r].id \in Ids'
                     /\ form'[r].content.isAdmin = customer'[form'[r].id].isAdmin
    <3>1. CASE r # t
      <4>1. pc'[r] = pc[r] /\ form'[r] = form[r]
        BY <1>2, <1>5, <3>1 DEF TypeOK, Tasks
      <4> QED
        BY <1>9, <4>1 DEF IInv, Forms
    <3>2. CASE r = t /\ form[t].id = 0
      <4>1. pc'[r] = "welcoming" /\ form'[r].id = id /\ form'[r].content = form[r].content
        BY <1>2, <1>5, <3>2, TasksDisjoint DEF TypeOK, Tasks
      <4>2. Written(t) = form[t].content
        BY <3>2 DEF Written
      <4> QED
        BY <1>1, <3>2, <4>1, <4>2 DEF Pending
    <3>3. CASE r = t /\ form[t].id # 0
      BY <1>2, <1>5, <3>3, TasksDisjoint DEF TypeOK, Tasks, Pending
    <3> QED  BY <3>1, <3>2, <3>3
  <2> QED
    BY <2>1, <2>2 DEF Forms
<1>11. Opened'
  BY <1>1 DEF Opened
<1> QED
  BY <1>8, <1>10, <1>11, SaveKeepsTable DEF IInv

-----------------------------------------------------------------------------

LEMMA NextInv == IInv /\ [Next]_vars => IInv'
<1> SUFFICES ASSUME IInv, [Next]_vars PROVE IInv'
  OBVIOUS
<1>0. TypeOK /\ Admin \in Customer
  BY AdminContacts DEF IInv, Admin, Customer
<1>1. ASSUME NEW p \in Processes, Start(p) PROVE IInv'
  <2>1. CASE Admins # {} /\ GoTo(p, "serving")
    <3>1. customer # <<>>
      BY <1>0, <2>1, Table DEF Admins
    <3> QED
      BY <2>1, <3>1, GoToInv, TasksDisjoint DEF Tasks, Places
  <2>2. CASE Begin(p, 0, Admin, Admin)
    BY <1>0, <2>2, BeginInv, TasksDisjoint DEF Tasks
  <2> QED  BY <1>1, <2>1, <2>2 DEF Start
<1>2. ASSUME NEW p \in Processes, Crash(p) PROVE IInv'
  <2>1. crashes' \in 0 .. MaxCrashes
    BY <1>0, <1>2, BoundsAssumption DEF Crash, TypeOK
  <2> QED
    BY <1>0, <1>2, <2>1, FinishInv DEF Crash, Tasks, TypeOK
<1>3. ASSUME NEW t \in Tasks, Fail(t) PROVE IInv'
  BY <1>0, <1>3, FinishInv DEF Fail, TypeOK
<1>4. ASSUME NEW t \in Tasks, Proceed(t) PROVE IInv'
  <2>1. CASE CheckEmail(t)
    BY <1>3, <2>1, GoToInv DEF CheckEmail, Places, Pending
  <2>2. CASE CheckPhone(t)
    BY <1>3, <2>2, GoToInv DEF CheckPhone, Places, Pending
  <2>3. CASE SaveChanges(t)
    BY <2>3, SaveInv
  <2>4. CASE Conflict(t)
    BY <1>3, <2>4 DEF Conflict
  <2> QED  BY <1>4, <2>1, <2>2, <2>3, <2>4 DEF Proceed
<1>5. ASSUME NEW r \in Requests, NEW email \in Emails, NEW phone \in Phones,
             Register(r, email, phone)
      PROVE  IInv'
  <2> DEFINE content == [email |-> email, phone |-> phone, isAdmin |-> FALSE]
  <2>1. content \in Customer /\ ~ content.isAdmin
    BY DEF Customer
  <2>2. customer # <<>> /\ Begin(r, 0, content, Admin)
    BY <1>5 DEF Register, Open, IInv, Opened
  <2> QED
    BY <1>0, <2>1, <2>2, BeginInv, TasksDisjoint DEF Tasks
<1>6. ASSUME NEW r \in Requests, NEW email \in Emails, NEW phone \in Phones,
             NEW i \in Ids, UpdateProfile(r, i, email, phone)
      PROVE  IInv'
  <2> DEFINE content == [customer[i] EXCEPT !.email = email, !.phone = phone]
  <2>1. customer[i] \in Customer /\ i # 0
    BY <1>0, Table
  <2>2. content \in Customer
    BY <2>1 DEF Customer
  <2>3. customer # <<>> /\ Begin(r, i, content, customer[i])
    BY <1>6 DEF UpdateProfile, Open, IInv, Opened
  <2> QED
    BY <2>1, <2>2, <2>3, BeginInv, TasksDisjoint DEF Tasks
<1>7. ASSUME NEW r \in Requests, Welcome(r) PROVE IInv'
  <2>1. /\ form[r].id \in Ids /\ form[r].content.isAdmin \in BOOLEAN
        /\ form[r].content.isAdmin = customer[form[r].id].isAdmin
    BY <1>0, <1>7 DEF Welcome, IInv, Forms, TypeOK, Tasks, Customer
  <2>2. /\ sessions' = sessions \cup {Token(form[r].id, form[r].content.isAdmin)}
        /\ Finish(r, "idle") /\ UNCHANGED <<customer, moved, crashes>>
    BY <1>7 DEF Welcome
  <2>3. /\ sessions' \subseteq [id : Ids, isAdmin : BOOLEAN]
        /\ \A s \in sessions' : s.isAdmin = customer[s.id].isAdmin
    BY <1>0, <2>1, <2>2 DEF Token, TypeOK
  <2> QED
    BY <1>0, <2>2, <2>3, FinishInv DEF Tasks, TypeOK
<1>8. ASSUME NEW email \in Emails, Login(email) PROVE IInv'
  <2>1. PICK i \in Ids : sessions' = sessions \cup {Token(i, customer[i].isAdmin)}
    BY <1>8 DEF Login
  <2>2. UNCHANGED <<customer, pc, form, loaded, moved, crashes>>
    BY <1>8 DEF Login
  <2>3. customer[i].isAdmin \in BOOLEAN
    BY <1>0, Table DEF Customer
  <2>4. /\ sessions' \subseteq [id : Ids, isAdmin : BOOLEAN]
        /\ \A s \in sessions' : s.isAdmin = customer[s.id].isAdmin
    BY <1>0, <2>1, <2>3 DEF Token, TypeOK
  <2>5. Forms' /\ Opened'
    BY <2>2 DEF IInv, Forms, Opened, Ids
  <2> QED
    BY <1>0, <2>2, <2>4, <2>5, TableUnchanged DEF TypeOK, Places
<1>9. CASE UNCHANGED vars
  <2>1. Forms' /\ Opened'
    BY <1>9 DEF vars, IInv, Forms, Opened, Ids
  <2> QED
    BY <1>0, <1>9, <2>1, TableUnchanged DEF vars, TypeOK, Places
<1>10. ASSUME NEW r \in Requests, Abort(r) PROVE IInv'
  BY <1>3, <1>10 DEF Abort, Tasks
<1> QED
  BY <1>1, <1>2, <1>4, <1>5, <1>6, <1>7, <1>8, <1>9, <1>10 DEF Next

LEMMA Invariant == Spec => []IInv
BY InitInv, NextInv, PTL DEF Spec

\* Every variable keeps to its type; tokens always name the role the account has.
THEOREM TypeCorrect == Spec => []TypeOK
<1>1. IInv => TypeOK
  BY DEF IInv
<1> QED  BY <1>1, Invariant, PTL

\* No interleaving of registrations, profile changes and seeds gives two accounts
\* one e-mail address or phone number.
THEOREM ContactsUnique == Spec => []UniqueContacts
<1>1. IInv => UniqueContacts
  BY DEF IInv
<1> QED  BY <1>1, Invariant, PTL

\* The first account there is belongs to the administrator.
THEOREM FirstIsAdmin == Spec => []AdminFirst
<1>1. IInv => AdminFirst
  BY DEF IInv
<1> QED  BY <1>1, Invariant, PTL

\* A second administrator appears only after the first has given up its contacts.
THEOREM OneAdminSeeded == Spec => []OneAdmin
<1>1. IInv => OneAdmin
  BY DEF IInv
<1> QED  BY <1>1, Invariant, PTL

=============================================================================
