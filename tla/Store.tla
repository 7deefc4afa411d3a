------------------------------- MODULE Store --------------------------------
(***************************************************************************)
(* The shop of EXAMS/examen_29_09_2024_STORE/server.c: a thread per client *)
(* that buys one product, a thread that deletes products that are sold     *)
(* out, a thread that obeys an administrator, and a child process that     *)
(* asks for the whole stock, as a client, and sends its parent a signal    *)
(* when there is none.  The handler of the signal, on top of whichever     *)
(* thread receives it, takes a price reduction back.                       *)
(*                                                                         *)
(* A critical section is one step.  The mutexes of a section are taken in  *)
(* one order everywhere (customers, products), so that it does not matter  *)
(* when exactly they are taken; but a signal may arrive inside a section,  *)
(* and then the thread of the handler holds them (see Signal).  Nothing    *)
(* sets stop_threads, and the loops that test it are endless.              *)
(***************************************************************************)
EXTENDS Integers, Sequences, FiniteSets, FiniteSetsExt

CONSTANTS Buyers,      \* the clients' threads
          Polls,       \* threads that serve the requests of the child
          Verifier, Admin, Main, \* the other threads
          None,        \* no holder of a mutex, no request
          Shelves,     \* possible products files: sequences of [ID, price, nr_bucati]
          MaxItems,    \* MAX_ITEMS, the length of the array
          Wallet,      \* the customers file: ID -> money
          Requests,    \* what clients ask for: [user, product]
          Commands,    \* what the administrator may type: [field, product, amount]
          MaxCommands  \* and how often

ASSUME StoreAssumption ==
    /\ Verifier # Admin /\ Main \notin {Verifier, Admin}
    /\ {Verifier, Admin, Main} \cap (Buyers \cup Polls) = {}
    /\ None \notin {Verifier, Admin, Main} \cup Buyers \cup Polls
    /\ Buyers \cap Polls = {}
    /\ {MaxCommands, MaxItems} \subseteq Nat
    /\ Wallet \in [DOMAIN Wallet -> Int]

(* The products file has an ID and at least one piece for every product,   *)
(* and leaves the end of the array empty.                                  *)
ASSUME ShelvesAssumption ==
    \A shelf \in Shelves :
       /\ shelf \in Seq([ID : Nat \ {0}, price : Int, nr_bucati : Nat \ {0}])
       /\ Len(shelf) < MaxItems
       /\ \A i, j \in 1 .. Len(shelf) : shelf[i].ID = shelf[j].ID => i = j

(* What the administrator types for a product is an index of the array.    *)
ASSUME CommandsAssumption ==
    \A c \in Commands : c.product \in 0 .. MaxItems - 1 /\ c.amount \in Int

VARIABLES mutex,        \* customers_mutex, products_mutex, reducere_mutex
          product_list, \* the array, empty after the last product
          current_products_Nr,
          money,        \* amount_of_money of the customers
          reducere_flag,
          stock_null,   \* semaphore_stock_null
          refilled,     \* ghost: how often restocking led from below to zero
          reduced,      \* ghost: whether prices have been reduced
          pc,           \* where each thread is
          request,      \* what each client has asked for
          index,        \* current_product_index of each client's thread
          command,      \* what the administrator has typed
          reducere,     \* the reduction in the hands of the administrator
          typed,        \* how many commands
          child,        \* the child: asleep, asking, or about to signal
          handler,      \* the signal handler on top of each thread
          running       \* FALSE once the server has exited

data    == <<product_list, current_products_Nr, money>>
locals  == <<request, index, command, reducere, typed>>
ghosts  == <<refilled, reduced>>
vars    == <<mutex, data, reducere_flag, stock_null, ghosts, pc, locals, child,
             handler, running>>

Serving == Buyers \cup Polls
Threads == Serving \cup {Verifier, Admin, Main}
Mutexes == {"customers", "products", "reducere"}
Entries == 0 .. MaxItems - 1
Listed  == 0 .. current_products_Nr - 1
Stock   == [user |-> 0, product |-> 0] \* the request "stock"
Ended   == {"wrong customer", "wrong product", "bought", "denied", "told"}

Init == /\ mutex = [m \in Mutexes |-> None]
        /\ \E shelf \in Shelves :
              /\ product_list = [i \in Entries |->
                                    IF i + 1 \in DOMAIN shelf THEN shelf[i + 1]
                                    ELSE [ID |-> 0, price |-> 0, nr_bucati |-> 0]]
              /\ current_products_Nr = Len(shelf)
        /\ money = Wallet
        /\ reducere_flag = 0 /\ reducere = 0
        /\ stock_null = 0 /\ refilled = 0 /\ reduced = FALSE
        /\ pc = [t \in Threads |-> IF t \in Serving THEN "absent" ELSE
                                   IF t = Verifier THEN "wait" ELSE
                                   IF t = Admin THEN "fgets" ELSE "accept"]
        /\ request = [t \in Serving |-> None]
        /\ index = [t \in Serving |-> 0]
        /\ command = None /\ typed = 0
        /\ child = "asleep"
        /\ handler = [t \in Threads |-> "idle"]
        /\ running = TRUE

-----------------------------------------------------------------------------
(* Going through a critical section.                                       *)

(* The mutexes of the section each thread is at.                           *)
Needs(t) == CASE pc[t] \in {"show customers", "find customer"} -> {"customers"}
              [] pc[t] \in {"show products", "find product", "sum",
                            "delete", "restock", "reduce"} -> {"products"}
              [] pc[t] \in {"verify", "buy"} -> {"customers", "products"}
              [] pc[t] = "flag" -> {"reducere"}
              [] OTHER -> {}

(* t's own mutex: taken before a signal came.  reducere_mutex is not: if   *)
(* t has it, it is from a handler that kept it, and t waits for itself.    *)
At(t, from) == /\ handler[t] = "idle" /\ pc[t] = from
               /\ \A m \in Needs(t) :
                      mutex[m] = None \/ (mutex[m] = t /\ m # "reducere")

Goto(t, to) == pc' = [pc EXCEPT ![t] = to]

Release(t) == mutex' = [m \in Mutexes |-> IF m \in Needs(t) THEN None ELSE mutex[m]]

Keep(t) == mutex' = [m \in Mutexes |-> IF m \in Needs(t) THEN t ELSE mutex[m]]

-----------------------------------------------------------------------------
(* A client's thread.  main accepts, and the thread lists everything       *)
(* before it receives.                                                     *)

Accept(t) == /\ handler[Main] = "idle"
             /\ pc[t] = "absent"
             /\ t \in Polls => child = "asking" /\ \A p \in Polls : pc[p] \in Ended \cup {"absent"}
             /\ Goto(t, "show customers")
             /\ UNCHANGED <<mutex, data, reducere_flag, stock_null, ghosts,
                            locals, child, handler, running>>

Show(t) == /\ \E from \in {"show customers", "show products"} :
                 /\ At(t, from)
                 /\ Goto(t, IF from = "show customers" THEN "show products" ELSE "recv")
           /\ Release(t)
           /\ UNCHANGED <<data, reducere_flag, stock_null, ghosts, locals,
                          child, handler, running>>

Receive(t) == /\ At(t, "recv")
              /\ \E r \in IF t \in Polls THEN {Stock} ELSE Requests :
                     /\ request' = [request EXCEPT ![t] = r]
                     /\ Goto(t, IF r = Stock THEN "sum" ELSE "find customer")
              /\ UNCHANGED <<mutex, data, reducere_flag, stock_null, ghosts, index,
                             command, reducere, typed, child, handler, running>>

(* A request of fewer than two words, other than "stock", leaves atoi or   *)
(* strcpy with NULL, and a connection that is reset makes recv fail: both  *)
(* end the server.  When the client has just left, the buffer is read all  *)
(* the same, and holds such a request or one of the others.                *)
NoRequest(t) == /\ At(t, "recv")
                /\ running' = FALSE
                /\ UNCHANGED <<mutex, data, reducere_flag, stock_null, ghosts, pc,
                               locals, child, handler>>

(* The one send follows the last critical section, and the customer may be *)
(* gone by then: SIGPIPE ends the server.                                  *)
AnswersNobody(t) == /\ handler[t] = "idle" /\ pc[t] \in Ended \ {"told"}
                    /\ running' = FALSE
                    /\ UNCHANGED <<mutex, data, reducere_flag, stock_null, ghosts,
                                   pc, locals, child, handler>>
LosesClient(t) == NoRequest(t) \/ AnswersNobody(t)

(* The answer to "stock"; the child sends its signal when it is zero.      *)
verify_stock(t) ==
    /\ At(t, "sum")
    /\ Goto(t, "told") /\ Release(t)
    /\ child' = IF MapThenSumSet(LAMBDA i : product_list[i].nr_bucati, Listed) = 0
                THEN "kill" ELSE "asleep"
    /\ UNCHANGED <<data, reducere_flag, stock_null, ghosts, locals, handler,
                   running>>

(* Variant: customers_mutex is not given back when the customer is unknown. *)
get_USER_keeps(t) ==
    /\ At(t, "find customer")
    /\ IF request[t].user \in DOMAIN money
       THEN Goto(t, "find product") /\ Release(t)
       ELSE Goto(t, "wrong customer") /\ Keep(t)
    /\ UNCHANGED <<data, reducere_flag, stock_null, ghosts, locals, child,
                   handler, running>>

get_USER_By_ID(t) ==
    /\ At(t, "find customer")
    /\ Goto(t, IF request[t].user \in DOMAIN money
               THEN "find product" ELSE "wrong customer")
    /\ Release(t)
    /\ UNCHANGED <<data, reducere_flag, stock_null, ghosts, locals, child,
                   handler, running>>

(* Variant: the number of products, where no product was found, is taken   *)
(* for an index.                                                           *)
get_PRODUCT_unchecked(t) ==
    LET found == {i \in Listed : product_list[i].ID = request[t].product}
    IN  /\ At(t, "find product")
        /\ Goto(t, "verify")
        /\ index' = [index EXCEPT ![t] = IF found = {} THEN Cardinality(Entries)
                                        ELSE Min(found)]
        /\ Release(t)
        /\ UNCHANGED <<data, reducere_flag, stock_null, ghosts, request, command,
                       reducere, typed, child, handler, running>>

get_PRODUCT_By_ID(t) ==
    LET found == {i \in Listed : product_list[i].ID = request[t].product}
    IN  /\ At(t, "find product")
        /\ IF found = {} THEN Goto(t, "wrong product") /\ UNCHANGED index
           ELSE /\ Goto(t, "verify")
                /\ index' = [index EXCEPT ![t] = Min(found)]
        /\ Release(t)
        /\ UNCHANGED <<data, reducere_flag, stock_null, ghosts, request, command,
                       reducere, typed, child, handler, running>>

(* Variant: the money of another customer is looked at.                    *)
AffordableForFirst(t) == money[Min(DOMAIN money)] >= product_list[index[t]].price

Affordable(t) == money[request[t].user] >= product_list[index[t]].price

(* Variant: both mutexes are given back when the customer cannot pay.      *)
verify_Transaction_unlocks(t) ==
    /\ At(t, "verify")
    /\ Goto(t, IF Affordable(t) THEN "buy" ELSE "denied") /\ Release(t)
    /\ UNCHANGED <<data, reducere_flag, stock_null, ghosts, locals, child,
                   handler, running>>

(* When the customer cannot pay the thread ends with both mutexes.         *)
verify_Transaction(t) ==
    /\ At(t, "verify")
    /\ IF Affordable(t) THEN Goto(t, "buy") /\ Release(t)
                        ELSE Goto(t, "denied") /\ Keep(t)
    /\ UNCHANGED <<data, reducere_flag, stock_null, ghosts, locals, child,
                   handler, running>>

Take(t) == /\ product_list' = [product_list EXCEPT ![index[t]].nr_bucati = @ - 1]
           /\ money' = [money EXCEPT ![request[t].user] =
                            @ - product_list[index[t]].price]

(* Variant: the post is made when the last piece but one is sold.          *)
BuyPostsEarly(t) ==
    /\ At(t, "buy")
    /\ Take(t)
    /\ stock_null' = stock_null +
                         (IF product_list[index[t]].nr_bucati = 2 THEN 1 ELSE 0)
    /\ Goto(t, "bought") /\ Release(t)
    /\ UNCHANGED <<current_products_Nr, reducere_flag, ghosts, locals, child,
                   handler, running>>

(* The index is the one found before, whatever has been deleted since, and *)
(* whatever the price and the number of pieces have become.                *)
Buy(t) ==
    /\ At(t, "buy")
    /\ Take(t)
    /\ stock_null' = stock_null +
                         (IF product_list[index[t]].nr_bucati = 1 THEN 1 ELSE 0)
    /\ Goto(t, "bought") /\ Release(t)
    /\ UNCHANGED <<current_products_Nr, reducere_flag, ghosts, locals, child,
                   handler, running>>

-----------------------------------------------------------------------------
(* The thread that deletes what is sold out.                               *)

WaitForStock == /\ At(Verifier, "wait")
                /\ stock_null > 0
                /\ stock_null' = stock_null - 1
                /\ Goto(Verifier, "delete")
                /\ UNCHANGED <<mutex, data, reducere_flag, ghosts, locals, child,
                               handler, running>>

(* The last entry without pieces goes; if there is none, the first does.   *)
delete_stock ==
    LET sold == {i \in Listed : product_list[i].nr_bucati = 0}
        gone == IF sold = {} THEN 0 ELSE Max(sold)
    IN  /\ At(Verifier, "delete")
        /\ product_list' = [i \in Entries |->
                               IF i \in gone .. current_products_Nr - 1
                               THEN product_list[i + 1] ELSE product_list[i]]
        /\ current_products_Nr' = current_products_Nr - 1
        /\ Goto(Verifier, "wait") /\ Release(Verifier)
        /\ UNCHANGED <<money, reducere_flag, stock_null, ghosts, locals, child,
                       handler, running>>

-----------------------------------------------------------------------------
(* The administrator.  A quantity goes to the entry with that index, not   *)
(* to the product with that ID.  A reduction is amount / 100, in integers, *)
(* of every price, and the one of the last product is remembered.          *)

Type == /\ At(Admin, "fgets")
        /\ typed < MaxCommands /\ typed' = typed + 1
        /\ \E c \in Commands :
              /\ command' = c
              /\ Goto(Admin, IF c.field = "cant" THEN "restock" ELSE "reduce")
        /\ UNCHANGED <<mutex, data, reducere_flag, stock_null, ghosts, request,
                       index, reducere, child, handler, running>>

Restock ==
    LET pieces == product_list[command.product].nr_bucati + command.amount
    IN  /\ At(Admin, "restock")
        /\ product_list' = [product_list EXCEPT ![command.product].nr_bucati = pieces]
        /\ refilled' = refilled + (IF pieces = 0 THEN 1 ELSE 0)
        /\ Goto(Admin, "fgets") /\ Release(Admin)
        /\ UNCHANGED <<current_products_Nr, money, reducere_flag, stock_null,
                       reduced, locals, child, handler, running>>

(* Division in C: towards zero.                                            *)
Hundreds(n) == IF n < 0 THEN -((-n) \div 100) ELSE n \div 100

Off(i) == Hundreds(command.amount) * product_list[i].price

Reduce == /\ At(Admin, "reduce")
          /\ product_list' = [i \in Entries |->
                                IF i \in Listed
                                THEN [product_list[i] EXCEPT !.price = @ - Off(i)]
                                ELSE product_list[i]]
          /\ reducere' = IF Listed = {} THEN 0 ELSE Off(Max(Listed))
          /\ reduced' = TRUE
          /\ Goto(Admin, "flag") /\ Release(Admin)
          /\ UNCHANGED <<current_products_Nr, money, reducere_flag, stock_null,
                         refilled, request, index, command, typed, child, handler,
                         running>>

Flag == /\ At(Admin, "flag")
        /\ reducere_flag' = reducere
        /\ Goto(Admin, "fgets") /\ Release(Admin)
        /\ UNCHANGED <<data, stock_null, ghosts, locals, child, handler, running>>

-----------------------------------------------------------------------------
(* The child and its signal.                                               *)

Ask == /\ child = "asleep"
       /\ \E p \in Polls : pc[p] = "absent"
       /\ child' = "asking"
       /\ UNCHANGED <<mutex, data, reducere_flag, stock_null, ghosts, pc, locals,
                      handler, running>>

Alive == {t \in Threads : pc[t] \notin Ended \cup {"absent"}}

(* The signal reaches any thread of the server.  One that is at a critical *)
(* section may already be inside, if the mutexes are free.                 *)
Signal(t) == /\ child = "kill" /\ t \in Alive
             /\ child' = "asleep"
             /\ handler' = [handler EXCEPT ![t] = "lock"]
             /\ \/ UNCHANGED mutex
                \/ /\ \A m \in Needs(t) : mutex[m] = None
                   /\ Keep(t)
             /\ UNCHANGED <<data, reducere_flag, stock_null, ghosts, pc, locals,
                            running>>

(* The end of the handler.  A call that it has interrupted fails: for main *)
(* (accept) and for a client's thread (recv) that is the end of the        *)
(* server; the Verifier (sem_wait) deletes a product as if there had been  *)
(* a post; for the administrator's thread fgets is simply called again.    *)
Return(t) == /\ handler' = [handler EXCEPT ![t] = "idle"]
             /\ \/ UNCHANGED <<pc, running>>
                \/ pc[t] \in {"accept", "recv"} /\ running' = FALSE /\ UNCHANGED pc
                \/ pc[t] = "wait" /\ Goto(t, "delete") /\ UNCHANGED running

(* Without a reduction to take back the handler keeps reducere_mutex.      *)
HandlerLock(t) == /\ handler[t] = "lock"
                  /\ mutex["reducere"] = None
                  /\ mutex' = [mutex EXCEPT !["reducere"] = t]
                  /\ IF reducere_flag # 0
                     THEN /\ handler' = [handler EXCEPT ![t] = "prices"]
                          /\ UNCHANGED <<pc, running>>
                     ELSE Return(t)
                  /\ UNCHANGED <<data, reducere_flag, stock_null, ghosts, locals,
                                 child>>

HandlerPrices(t) ==
    /\ handler[t] = "prices"
    /\ mutex["products"] = None
    /\ product_list' = [i \in Entries |->
                           IF i \in Listed
                           THEN [product_list[i] EXCEPT !.price = @ + reducere_flag]
                           ELSE product_list[i]]
    /\ reducere_flag' = 0
    /\ mutex' = [mutex EXCEPT !["reducere"] = None]
    /\ Return(t)
    /\ UNCHANGED <<current_products_Nr, money, stock_null, ghosts, locals, child>>

-----------------------------------------------------------------------------
ServingStep(t) == \/ Show(t) \/ Receive(t) \/ verify_stock(t)
                  \/ get_USER_By_ID(t) \/ get_PRODUCT_By_ID(t)
                  \/ verify_Transaction(t) \/ Buy(t)
VerifierStep   == WaitForStock \/ delete_stock
AdminStep      == Restock \/ Reduce \/ Flag
HandlerStep(t) == HandlerLock(t) \/ HandlerPrices(t)

Next == \/ running /\ \E t \in Serving : Accept(t) \/ ServingStep(t)
        \/ running /\ \E t \in Buyers : LosesClient(t)
        \/ running /\ VerifierStep
        \/ running /\ (Type \/ AdminStep)
        \/ running /\ Ask
        \/ running /\ \E t \in Threads : Signal(t) \/ HandlerStep(t)

Spec == Init /\ [][Next]_vars

(* Threads run when they can; nobody need type, connect or speak.          *)
FairSpec == /\ Spec
            /\ \A t \in Serving : WF_vars(running /\ pc[t] # "recv" /\ ServingStep(t))
            /\ WF_vars(running /\ VerifierStep)
            /\ WF_vars(running /\ AdminStep)
            /\ \A t \in Threads : WF_vars(running /\ HandlerStep(t))

-----------------------------------------------------------------------------
(* Every variable has its type; the number of listed products goes down    *)
(* once for every deletion, below zero included, and the array is only     *)
(* ever indexed where it has entries.                                      *)
TypeOK == /\ mutex \in [Mutexes -> Threads \cup {None}]
          /\ DOMAIN product_list = Entries
          /\ current_products_Nr \in Int /\ Listed \subseteq Entries
          /\ \A t \in Serving : index[t] \in Entries
          /\ stock_null \in Nat /\ refilled \in Nat /\ reduced \in BOOLEAN
          /\ child \in {"asleep", "asking", "kill"}
          /\ handler \in [Threads -> {"idle", "lock", "prices"}]
          /\ running \in BOOLEAN

(* After the first customer who cannot pay, nothing is sold, restocked,    *)
(* reduced or deleted any more: both mutexes stay with a thread that has   *)
(* ended, and nobody else is told that they cannot pay.                    *)
Denied == {t \in Serving : pc[t] = "denied"}
DenialEndsBusiness ==
    [][Denied # {} => UNCHANGED data /\ Denied' = Denied]_vars

(* A purchase leaves a customer with less than nothing only if what was    *)
(* checked has changed since: the product was deleted and another one is   *)
(* in its place, a reduction was given or taken back, or another thread    *)
(* has sold something to the same customer meanwhile.                      *)
OverdrawnOnlyIfChanged ==
    [][\A t \in Buyers : Buy(t) /\ money'[request[t].user] < 0 =>
          \/ product_list[index[t]].ID # request[t].product
          \/ reduced
          \/ \E u \in Buyers \ {t} :
                /\ pc[u] = "bought"
                /\ request[u].user = request[t].user]_vars

(* A product without pieces is announced to the thread that deletes it,    *)
(* however purchases overlap and wherever a stale index has led them: at   *)
(* most the entries that restocking has brought up to zero are missed.     *)
SoldOutAnnounced ==
    Cardinality({i \in Listed : product_list[i].nr_bucati = 0})
        <= stock_null + refilled + (IF pc[Verifier] = "delete" THEN 1 ELSE 0)

(* The ways in which a mutex is lost: kept by the thread of a customer who *)
(* cannot pay; wanted by a handler whose own thread has it; wanted by a    *)
(* handler when an earlier one has kept it; or two handlers on two threads *)
(* wait for each other, one of them on top of a thread inside a section.   *)
Jammed ==
    \/ Denied # {}
    \/ \E t, u \in Threads :
          \/ handler[t] = "prices" /\ mutex["products"] = t
          \/ handler[t] = "lock" /\ mutex["reducere"] = t
          \/ handler[t] = "lock" /\ mutex["reducere"] = u /\ handler[u] = "idle"
          \/ /\ handler[t] = "prices" /\ mutex["products"] = u
             /\ handler[u] = "lock"   /\ mutex["reducere"] = t

(* Every client that has connected is shown the lists, and gets an answer  *)
(* once its request is read: if one never does and the server has not      *)
(* exited (an interrupted accept or recv, a request it cannot read, or a    *)
(* client that is gone), a mutex is lost in one of these ways.             *)
EveryRequestAnswered ==
    <>[](running /\ (\E t \in Serving : pc[t] \notin Ended \cup {"absent", "recv"})
            => Jammed)
=============================================================================
