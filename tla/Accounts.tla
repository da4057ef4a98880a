------------------------------ MODULE Accounts ------------------------------
(***************************************************************************)
(* The customers' accounts.  A process of the shop, when it starts, makes  *)
(* sure that there is an administrator (DbInitializer.SeedAdminAsync) and  *)
(* only then serves requests, which register customers, sign them in and   *)
(* change their profiles.  The factory looks whether an e-mail address or  *)
(* a phone number is taken before it makes a customer, in two queries of   *)
(* their own; the unique indexes of table customer have the last word.     *)
(***************************************************************************)
EXTENDS Naturals, Sequences

CONSTANTS
    Processes,      \* processes of the application over one database
    Requests,       \* HTTP requests that may be in progress at one time
    Emails, Phones, \* e-mail addresses and phone numbers
    AdminEmail,     \* the contacts that DbInitializer gives the administrator
    AdminPhone,
    MaxCustomers,   \* bound: nobody registers once there are so many
    MaxCrashes      \* bound: how often a process crashes, in all

ASSUME AdminContacts == AdminEmail \in Emails /\ AdminPhone \in Phones

ASSUME BoundsAssumption == MaxCustomers \in Nat /\ MaxCrashes \in Nat

ASSUME TasksDisjoint == Processes \cap Requests = {}

VARIABLES
    customer,       \* the rows of table customer, by customer_id
    pc,             \* where each process's start and each request is
    form,           \* the account that each of them is about to write
    loaded,         \* UpdateProfile: the row as the handler loaded it
    sessions,       \* the tokens given out: a customer_id and a role
    moved,          \* history: accounts that had none of the admin's contacts
    crashes         \* how often a process has crashed

vars == <<customer, pc, form, loaded, sessions, moved, crashes>>

Tasks    == Processes \cup Requests
Customer == [email : Emails, phone : Phones, isAdmin : BOOLEAN]
Ids      == DOMAIN customer
Admins   == {i \in Ids : customer[i].isAdmin}

Admin  == [email |-> AdminEmail, phone |-> AdminPhone, isAdmin |-> TRUE]

\* A token names the customer and the role; only the process can sign one.
Token(id, isAdmin) == [id |-> id, isAdmin |-> isAdmin]

\* What a task writes: row id gets this content; 0 stands for a new row.
Form(id, content) == [id |-> id, content |-> content]

Init ==
    /\ customer = <<>>
    /\ pc = [t \in Tasks |-> "idle"]
    /\ form = [t \in Tasks |-> Form(0, Admin)]
    /\ loaded = [t \in Tasks |-> Admin]
    /\ sessions = {}
    /\ moved = {}
    /\ crashes = 0

-----------------------------------------------------------------------------

\* A task goes on at another place, with everything else as it is.
GoTo(t, place) ==
    /\ pc' = [pc EXCEPT ![t] = place]
    /\ UNCHANGED <<customer, form, loaded, sessions, moved, crashes>>

\* A handler begins to write content to row id, whose present content is old.
\* What idle tasks hold means nothing: Finish clears it.
Begin(t, id, content, old) ==
    /\ pc' = [pc EXCEPT ![t] = "email"]
    /\ form' = [form EXCEPT ![t] = Form(id, content)]
    /\ loaded' = [loaded EXCEPT ![t] = old]
    /\ UNCHANGED <<customer, sessions, moved, crashes>>

\* A task is over: a process serves, or has failed and is down.
Finish(t, place) ==
    /\ pc' = [pc EXCEPT ![t] = place]
    /\ form' = [form EXCEPT ![t] = Form(0, Admin)]
    /\ loaded' = [loaded EXCEPT ![t] = Admin]

\* Variant of Start with a bug: the shop opens without an administrator.
StartUnseeded(p) ==
    /\ pc[p] = "idle"
    /\ GoTo(p, "serving")

\* Variant of Start with a bug: it never looks for an administrator.
StartAlwaysSeeding(p) ==
    /\ pc[p] = "idle"
    /\ Begin(p, 0, Admin, Admin)

\* A process starts: it serves if there is an administrator, else it seeds one.
Start(p) ==
    /\ pc[p] = "idle"
    /\ IF Admins # {} THEN GoTo(p, "serving") ELSE Begin(p, 0, Admin, Admin)

\* Some process serves requests.
Open == \E p \in Processes : pc[p] = "serving"

\* Register: an account that is nobody's administrator.
Register(r, email, phone) ==
    /\ Open
    /\ pc[r] = "idle"
    /\ Len(customer) < MaxCustomers
    /\ Begin(r, 0, [email |-> email, phone |-> phone, isAdmin |-> FALSE], Admin)

\* UpdateProfile: new contacts for the customer who is signed in.
UpdateProfile(r, i, email, phone) ==
    /\ Open
    /\ pc[r] = "idle"
    /\ \E s \in sessions : s.id = i
    /\ Begin(r, i, [customer[i] EXCEPT !.email = email, !.phone = phone], customer[i])

\* The columns that a task writes: all of a new row, of an old one those that
\* the handler has changed since it loaded the row.
WritesEmail(t) == form[t].id # 0 => form[t].content.email # loaded[t].email
WritesPhone(t) == form[t].id # 0 => form[t].content.phone # loaded[t].phone

TakenEmail(t) == \E i \in Ids : customer[i].email = form[t].content.email
TakenPhone(t) == \E i \in Ids : customer[i].phone = form[t].content.phone

\* The exception of a check or of the database ends the task: a request with
\* an error page, a process's start with its exit.
Fail(t) ==
    /\ Finish(t, "idle")
    /\ UNCHANGED <<customer, sessions, moved, crashes>>

\* First query, GetByEmailAsync.
CheckEmail(t) ==
    /\ pc[t] = "email"
    /\ IF WritesEmail(t) /\ TakenEmail(t) THEN Fail(t) ELSE GoTo(t, "phone")

\* Second query, GetByPhoneAsync.
CheckPhone(t) ==
    /\ pc[t] = "phone"
    /\ IF WritesPhone(t) /\ TakenPhone(t) THEN Fail(t) ELSE GoTo(t, "saving")

\* Variant of Duplicate with a bug: only the e-mail addresses are indexed.
DuplicateEmail(t) == WritesEmail(t) /\ TakenEmail(t)

\* Variant of Duplicate with a bug: new rows are not compared with others.
DuplicateUpdate(t) ==
    /\ form[t].id # 0
    /\ \/ WritesEmail(t) /\ TakenEmail(t)
       \/ WritesPhone(t) /\ TakenPhone(t)

\* A unique index of the table refuses what the task writes; an UPDATE that
\* gives a row the value it already has, by another request, is no duplicate.
Duplicate(t) ==
    \E i \in Ids \ {form[t].id} :
        \/ WritesEmail(t) /\ customer[i].email = form[t].content.email
        \/ WritesPhone(t) /\ customer[i].phone = form[t].content.phone

\* Variant of Written with a bug: an update makes a plain customer of anyone.
WrittenPlain(t) ==
    IF form[t].id = 0 THEN form[t].content
    ELSE [form[t].content EXCEPT !.isAdmin = FALSE]

\* The row that the task leaves behind.
Written(t) ==
    LET new == form[t].content
        old == customer[form[t].id]
    IN  IF form[t].id = 0 THEN new
        ELSE [old EXCEPT !.email = IF WritesEmail(t) THEN new.email ELSE old.email,
                         !.phone = IF WritesPhone(t) THEN new.phone ELSE old.phone]

\* SaveChangesAsync, which inserts a new customer's cart as well.
SaveChanges(t) ==
    LET id == IF form[t].id = 0 THEN Len(customer) + 1 ELSE form[t].id IN
    /\ pc[t] = "saving"
    /\ ~ Duplicate(t)
    /\ customer' = IF form[t].id = 0 THEN Append(customer, Written(t))
                   ELSE [customer EXCEPT ![id] = Written(t)]
    /\ moved' = IF Written(t).email # AdminEmail /\ Written(t).phone # AdminPhone
                THEN moved \cup {id} ELSE moved
    /\ IF t \in Requests /\ form[t].id = 0
       THEN /\ pc' = [pc EXCEPT ![t] = "welcoming"]
            /\ form' = [form EXCEPT ![t].id = id]
            /\ UNCHANGED loaded
       ELSE Finish(t, IF t \in Processes THEN "serving" ELSE "idle")
    /\ UNCHANGED <<sessions, crashes>>

\* SaveChangesAsync fails on a unique index.
Conflict(t) ==
    /\ pc[t] = "saving"
    /\ Duplicate(t)
    /\ Fail(t)

\* The customer has registered: a welcome message, then a token.
Welcome(r) ==
    /\ pc[r] = "welcoming"
    /\ sessions' = sessions \cup {Token(form[r].id, form[r].content.isAdmin)}
    /\ Finish(r, "idle")
    /\ UNCHANGED <<customer, moved, crashes>>

\* Login: a token for the account with that e-mail address.  The token is valid
\* for a week whatever becomes of the account: signing out only drops the cookie.
Login(email) ==
    /\ Open
    /\ \E i \in Ids :
          /\ customer[i].email = email
          /\ sessions' = sessions \cup {Token(i, customer[i].isAdmin)}
    /\ UNCHANGED <<customer, pc, form, loaded, moved, crashes>>

\* A request's connection breaks, or the process that handles it goes down.
Abort(r) ==
    /\ pc[r] # "idle"
    /\ Fail(r)

\* A process goes down, at its start or later.
Crash(p) ==
    /\ pc[p] # "idle"
    /\ crashes < MaxCrashes
    /\ crashes' = crashes + 1
    /\ Finish(p, "idle")
    /\ UNCHANGED <<customer, sessions, moved>>

Proceed(t) == CheckEmail(t) \/ CheckPhone(t) \/ SaveChanges(t) \/ Conflict(t)

Next ==
    \/ \E p \in Processes : Start(p) \/ Crash(p)
    \/ \E t \in Tasks : Proceed(t)
    \/ \E r \in Requests :
          \/ \E email \in Emails, phone \in Phones :
                \/ Register(r, email, phone)
                \/ \E i \in Ids : UpdateProfile(r, i, email, phone)
          \/ Welcome(r)
          \/ Abort(r)
    \/ \E email \in Emails : Login(email)

Spec == Init /\ [][Next]_vars

\* A process that is down is started again, and its start goes on by itself.
FairSpec == Spec /\ \A p \in Processes : WF_vars(Start(p) \/ Proceed(p))

-----------------------------------------------------------------------------

\* Every variable holds a value of its kind; only a process's start seeds an
\* administrator, and a token gives nobody a role that the account has not.
TypeOK ==
    /\ customer \in Seq(Customer)
    /\ pc \in [Tasks -> {"idle", "email", "phone", "saving", "welcoming", "serving"}]
    /\ form \in [Tasks -> [id : {0} \cup Ids, content : Customer]]
    /\ loaded \in [Tasks -> Customer]
    /\ sessions \subseteq [id : Ids, isAdmin : BOOLEAN]
    /\ \A s \in sessions : s.isAdmin = customer[s.id].isAdmin
    /\ moved \subseteq Ids
    /\ crashes \in 0 .. MaxCrashes

\* No two accounts have an e-mail address or a phone number in common, however
\* many tasks have found the same contact free at the same time.
UniqueContacts ==
    \A i, j \in Ids :
        i # j => /\ customer[i].email # customer[j].email
                 /\ customer[i].phone # customer[j].phone

\* The first account is the administrator's: nobody can have taken the contacts
\* that DbInitializer needs before it has seeded.
AdminFirst == customer # <<>> => customer[1].isAdmin

\* Processes that start together seed one administrator, unless the first one
\* gives up both contacts before another process has saved.
OneAdmin == \A i, j \in Admins : i < j => i \in moved

\* The shop opens: however often processes crash while they start or run, each
\* of them serves in the end.
ShopOpens == \A p \in Processes : <>[](pc[p] = "serving")

=============================================================================
