---------------------------- MODULE StoreProofs -----------------------------
(***************************************************************************)
(* Proofs about Store for every number of clients, every products file and *)
(* every list of commands.                                                 *)
(***************************************************************************)
EXTENDS Store, CountingLemmas

(* Where each thread may be.                                               *)
PollPlaces  == {"absent", "show customers", "show products", "recv", "sum",
                "told"}
BuyerPlaces == PollPlaces \cup Ended \cup
               {"find customer", "find product", "verify", "buy"}
AdminPlaces == {"fgets", "restock", "reduce", "flag"}
AllPlaces   == BuyerPlaces \cup AdminPlaces \cup {"wait", "delete", "accept"}

Control ==
    /\ pc \in [Threads -> AllPlaces]
    /\ \A t \in Buyers : pc[t] \in BuyerPlaces
    /\ \A t \in Polls  : pc[t] \in PollPlaces
    /\ pc[Verifier] \in {"wait", "delete"}
    /\ pc[Admin] \in AdminPlaces
    /\ pc[Main] = "accept"
    /\ mutex \in [Mutexes -> Threads \cup {None}]
    /\ child \in {"asleep", "asking", "kill"}
    /\ handler \in [Threads -> {"idle", "lock", "prices"}]
    /\ running \in BOOLEAN

(* Every step is one of these.                                             *)
LEMMA Steps ==
    ASSUME [Next]_vars
    PROVE  \/ \E t \in Serving :
                 \/ Accept(t) \/ Show(t) \/ Receive(t) \/ verify_stock(t)
                 \/ get_USER_By_ID(t) \/ get_PRODUCT_By_ID(t)
                 \/ verify_Transaction(t) \/ Buy(t)
           \/ WaitForStock \/ delete_stock
           \/ Type \/ Restock \/ Reduce \/ Flag \/ Ask
           \/ \E t \in Buyers : LosesClient(t)
           \/ \E t \in Threads : Signal(t) \/ HandlerLock(t) \/ HandlerPrices(t)
           \/ UNCHANGED vars
BY DEF Next, ServingStep, VerifierStep, AdminStep, HandlerStep

(* The initial state satisfies the control invariant.                      *)
LEMMA InitControl == Init => Control
<1> SUFFICES ASSUME Init PROVE Control
  OBVIOUS
<1>1. pc \in [Threads -> AllPlaces]
  BY DEF Init, AllPlaces, BuyerPlaces, PollPlaces, AdminPlaces
<1>2. /\ \A t \in Serving : pc[t] = "absent"
      /\ pc[Verifier] = "wait" /\ pc[Admin] = "fgets" /\ pc[Main] = "accept"
  BY StoreAssumption DEF Init, Threads, Serving
<1>3. /\ mutex \in [Mutexes -> Threads \cup {None}] /\ child = "asleep"
      /\ handler \in [Threads -> {"idle", "lock", "prices"}] /\ running = TRUE
  BY DEF Init
<1> QED BY <1>1, <1>2, <1>3
        DEF Control, Serving, BuyerPlaces, PollPlaces, AdminPlaces

(* A thread goes to a place of its own.                                    *)
LEMMA GotoKeepsPlaces ==
    ASSUME Control, NEW t \in Threads, NEW to, Goto(t, to),
           t \in Buyers => to \in BuyerPlaces,
           t \in Polls => to \in PollPlaces,
           t = Verifier => to \in {"wait", "delete"},
           t = Admin => to \in AdminPlaces,
           t = Main => to = "accept"
    PROVE  /\ pc' \in [Threads -> AllPlaces]
           /\ \A u \in Buyers : pc'[u] \in BuyerPlaces
           /\ \A u \in Polls  : pc'[u] \in PollPlaces
           /\ pc'[Verifier] \in {"wait", "delete"}
           /\ pc'[Admin] \in AdminPlaces
           /\ pc'[Main] = "accept"
<1>1. \/ t \in Buyers \/ t \in Polls \/ t = Verifier \/ t = Admin \/ t = Main
  BY DEF Threads, Serving
<1>2. to \in AllPlaces
  BY <1>1 DEF AllPlaces, BuyerPlaces
<1>3. \A u \in Threads : pc'[u] = IF u = t THEN to ELSE pc[u]
  BY DEF Goto, Control
<1>4. pc' \in [Threads -> AllPlaces]
  BY <1>2 DEF Goto, Control
<1>5. Buyers \cup Polls \cup {Verifier, Admin, Main} = Threads
  BY DEF Threads, Serving
<1> HIDE DEF Threads, BuyerPlaces, PollPlaces, AdminPlaces, AllPlaces
<1> QED BY <1>3, <1>4, <1>5, StoreAssumption DEF Control

(* What the sections do to the mutexes.                                    *)
LEMMA MutexTypes ==
    ASSUME Control, NEW t \in Threads
    PROVE  /\ Release(t) => mutex' \in [Mutexes -> Threads \cup {None}]
           /\ Keep(t) => mutex' \in [Mutexes -> Threads \cup {None}]
BY DEF Release, Keep, Control

(* Every step keeps it.                                                    *)
LEMMA NextKeepsControl == Control /\ [Next]_vars => Control'
<1> SUFFICES ASSUME Control, [Next]_vars PROVE Control'
  OBVIOUS
<1> DEFINE Kept == /\ pc' \in [Threads -> AllPlaces]
                   /\ \A u \in Buyers : pc'[u] \in BuyerPlaces
                   /\ \A u \in Polls  : pc'[u] \in PollPlaces
                   /\ pc'[Verifier] \in {"wait", "delete"}
                   /\ pc'[Admin] \in AdminPlaces
                   /\ pc'[Main] = "accept"
<1>1. ASSUME NEW t \in Serving, NEW to \in BuyerPlaces, Goto(t, to),
             t \in Polls => to \in PollPlaces
      PROVE  Kept
  BY <1>1, GotoKeepsPlaces, StoreAssumption DEF Threads, Serving
<1>2. ASSUME NEW t \in Serving, Accept(t) PROVE Control'
  <2>1. Kept
    BY <1>1, <1>2 DEF Accept, BuyerPlaces, PollPlaces
  <2> QED BY <1>2, <2>1 DEF Accept, Control
<1>3. ASSUME NEW t \in Serving, Show(t) PROVE Control'
  <2>1. Kept
    BY <1>1, <1>3 DEF Show, BuyerPlaces, PollPlaces
  <2> QED BY <1>3, <2>1, MutexTypes DEF Show, Control, Threads
<1>4. ASSUME NEW t \in Serving, Receive(t) PROVE Control'
  <2>1. Kept
    BY <1>1, <1>4 DEF Receive, BuyerPlaces, PollPlaces
  <2> QED BY <1>4, <2>1 DEF Receive, Control
<1>5. ASSUME NEW t \in Serving, verify_stock(t) PROVE Control'
  <2>1. Kept
    BY <1>1, <1>5 DEF verify_stock, BuyerPlaces, PollPlaces
  <2> QED BY <1>5, <2>1, MutexTypes DEF verify_stock, Control, Threads
<1>6. ASSUME NEW t \in Serving, get_USER_By_ID(t) PROVE Control'
  <2>1. pc[t] = "find customer" /\ t \notin Polls
    BY <1>6 DEF get_USER_By_ID, At, Control, PollPlaces
  <2>2. Kept
    BY <1>1, <1>6, <2>1 DEF get_USER_By_ID, BuyerPlaces, Ended
  <2> QED BY <1>6, <2>2, MutexTypes DEF get_USER_By_ID, Control, Threads
<1>7. ASSUME NEW t \in Serving, get_PRODUCT_By_ID(t) PROVE Control'
  <2>1. pc[t] = "find product" /\ t \notin Polls
    BY <1>7 DEF get_PRODUCT_By_ID, At, Control, PollPlaces
  <2>2. Kept
    BY <1>1, <1>7, <2>1 DEF get_PRODUCT_By_ID, BuyerPlaces, Ended
  <2> QED BY <1>7, <2>2, MutexTypes DEF get_PRODUCT_By_ID, Control, Threads
<1>8. ASSUME NEW t \in Serving, verify_Transaction(t) PROVE Control'
  <2>1. pc[t] = "verify" /\ t \notin Polls
    BY <1>8 DEF verify_Transaction, At, Control, PollPlaces
  <2>2. Kept
    BY <1>1, <1>8, <2>1 DEF verify_Transaction, BuyerPlaces, Ended
  <2> QED BY <1>8, <2>2, MutexTypes DEF verify_Transaction, Control, Threads
<1>9. ASSUME NEW t \in Serving, Buy(t) PROVE Control'
  <2>1. pc[t] = "buy" /\ t \notin Polls
    BY <1>9 DEF Buy, At, Control, PollPlaces
  <2>2. Kept
    BY <1>1, <1>9, <2>1 DEF Buy, BuyerPlaces, Ended
  <2> QED BY <1>9, <2>2, MutexTypes DEF Buy, Control, Threads
<1>10. ASSUME NEW to \in {"wait", "delete"}, Goto(Verifier, to) PROVE Kept
  BY <1>10, GotoKeepsPlaces, StoreAssumption DEF Threads, Serving
<1>11. CASE WaitForStock
  <2>1. Kept
    BY <1>10, <1>11 DEF WaitForStock
  <2> QED BY <1>11, <2>1 DEF WaitForStock, Control
<1>12. CASE delete_stock
  <2>1. Kept
    BY <1>10, <1>12 DEF delete_stock
  <2> QED BY <1>12, <2>1, MutexTypes DEF delete_stock, Control, Threads
<1>13. ASSUME NEW to \in AdminPlaces, Goto(Admin, to) PROVE Kept
  BY <1>13, GotoKeepsPlaces, StoreAssumption DEF Threads, Serving
<1>14. CASE Type
  <2>1. Kept
    BY <1>13, <1>14 DEF Type, AdminPlaces
  <2> QED BY <1>14, <2>1 DEF Type, Control
<1>15. CASE Restock \/ Reduce \/ Flag
  <2>1. Kept
    BY <1>13, <1>15 DEF Restock, Reduce, Flag, AdminPlaces
  <2>2. Release(Admin) /\ UNCHANGED <<child, handler, running>>
    BY <1>15 DEF Restock, Reduce, Flag, locals
  <2> QED BY <2>1, <2>2, MutexTypes DEF Control, Threads
<1>16. CASE Ask \/ (\E t \in Buyers : LosesClient(t)) \/ UNCHANGED vars
  BY <1>16 DEF Ask, LosesClient, NoRequest, AnswersNobody,
               vars, Control
<1>17. ASSUME NEW t \in Threads, Return(t)
       PROVE  /\ Kept /\ running' \in BOOLEAN
              /\ handler' \in [Threads -> {"idle", "lock", "prices"}]
  <2>1. CASE UNCHANGED pc
    BY <1>17, <2>1 DEF Return, Control
  <2>2. CASE pc[t] = "wait" /\ Goto(t, "delete") /\ UNCHANGED running
    <3>1. t = Verifier
      BY <2>2 DEF Threads, Serving, Control, BuyerPlaces, PollPlaces,
                  AdminPlaces, Ended
    <3> QED BY <1>10, <1>17, <2>2, <3>1 DEF Return, Control
  <2> QED BY <1>17, <2>1, <2>2 DEF Return
<1>18. ASSUME NEW t \in Threads, HandlerLock(t) PROVE Control'
  <2>1. Kept /\ running' \in BOOLEAN
        /\ handler' \in [Threads -> {"idle", "lock", "prices"}]
    BY <1>17, <1>18 DEF HandlerLock, Control
  <2> QED BY <1>18, <2>1 DEF HandlerLock, Control
<1>19. ASSUME NEW t \in Threads, HandlerPrices(t) PROVE Control'
  BY <1>17, <1>19 DEF HandlerPrices, Control
<1>20. ASSUME NEW t \in Threads, Signal(t) PROVE Control'
  <2>1. mutex' \in [Mutexes -> Threads \cup {None}]
    BY <1>20, MutexTypes DEF Signal, Control
  <2> QED BY <1>20, <2>1 DEF Signal, Control
<1> QED BY <1>2, <1>3, <1>4, <1>5, <1>6, <1>7, <1>8, <1>9, <1>11, <1>12, <1>14,
           <1>15, <1>16, <1>18, <1>19, <1>20, Steps

-----------------------------------------------------------------------------
(* Once a customer could not pay, products_mutex stays with the thread     *)
(* that has ended, and nobody passes a section that needs it.              *)
DenialInv == Control /\ (Denied # {} => mutex["products"] \in Denied)

(* While a thread that has ended holds it, no thread is in a section with  *)
(* products_mutex.                                                         *)
LEMMA Blocked ==
    ASSUME DenialInv, Denied # {}, NEW t \in Threads, NEW from,
           from # "denied", At(t, from)
    PROVE  "products" \notin Needs(t)
<1>1. mutex["products"] \in Threads /\ pc[mutex["products"]] = "denied"
  BY DEF DenialInv, Denied, Threads
<1>2. None \notin Threads
  BY StoreAssumption DEF Threads, Serving
<1>3. mutex["products"] # t /\ mutex["products"] # None
  BY <1>1, <1>2 DEF At
<1> QED BY <1>3 DEF At

(* After a denial a step leaves products_mutex, the data and the denied    *)
(* customers as they are.                                                  *)
LEMMA NothingAfterDenial ==
    ASSUME DenialInv, Denied # {}, [Next]_vars
    PROVE  /\ UNCHANGED data /\ Denied' = Denied
           /\ mutex'["products"] = mutex["products"]
<1> DEFINE Same == /\ UNCHANGED data /\ Denied' = Denied
                   /\ mutex'["products"] = mutex["products"]
<1>1. ASSUME NEW t \in Threads, NEW from, from # "denied", At(t, from),
             NEW to, to # "denied", Goto(t, to), Release(t), UNCHANGED data
      PROVE  Same
  <2>1. pc[t] # "denied" /\ pc'[t] # "denied"
        /\ \A u \in Threads : u # t => pc'[u] = pc[u]
    BY <1>1 DEF At, Goto, DenialInv, Control
  <2>2. mutex'["products"] = mutex["products"]
    BY <1>1, Blocked DEF Release, Mutexes
  <2> QED BY <1>1, <2>1, <2>2 DEF Denied, Threads
<1>2. ASSUME NEW t \in Threads, NEW from, At(t, from),
             from \in {"show products", "find product", "sum", "delete",
                       "restock", "reduce", "verify", "buy"}
      PROVE  FALSE
  <2>1. pc[t] = from /\ from # "denied"
    BY <1>2 DEF At
  <2>2. "products" \in Needs(t)
    BY <1>2, <2>1 DEF Needs
  <2> QED BY <1>2, <2>1, <2>2, Blocked
<1>3. ASSUME NEW t \in Threads, NEW to, to # "denied", Goto(t, to),
             pc[t] # "denied", UNCHANGED <<mutex, data>>
      PROVE  Same
  BY <1>3 DEF Goto, Denied, Threads, DenialInv, Control
<1>4. Serving \subseteq Threads /\ Admin \in Threads /\ Verifier \in Threads
  BY DEF Threads
<1>5. ASSUME NEW t \in Serving, Accept(t) \/ Receive(t) PROVE Same
  <2>1. pc[t] # "denied" /\ \E to : to # "denied" /\ Goto(t, to)
    BY <1>5 DEF Accept, Receive, At
  <2> QED BY <1>3, <1>4, <1>5, <2>1 DEF Accept, Receive
<1>6. ASSUME NEW t \in Serving, Show(t) PROVE Same
  <2>1. At(t, "show customers") /\ Goto(t, "show products") /\ Release(t)
    BY <1>2, <1>4, <1>6 DEF Show
  <2> QED BY <1>1, <1>4, <1>6, <2>1 DEF Show
<1>7. ASSUME NEW t \in Serving, get_USER_By_ID(t) PROVE Same
  <2>1. /\ At(t, "find customer") /\ Release(t) /\ UNCHANGED data
        /\ \E to : to # "denied" /\ Goto(t, to)
    BY <1>7 DEF get_USER_By_ID
  <2> QED BY <1>1, <1>4, <2>1
<1>8. ASSUME NEW t \in Serving,
             \/ verify_stock(t) \/ get_PRODUCT_By_ID(t)
             \/ verify_Transaction(t) \/ Buy(t)
      PROVE  FALSE
  BY <1>2, <1>4, <1>8
     DEF verify_stock, get_PRODUCT_By_ID, verify_Transaction, Buy
<1>9. CASE WaitForStock
  BY <1>3, <1>4, <1>9 DEF WaitForStock, At
<1>10. CASE delete_stock \/ Restock \/ Reduce
  BY <1>2, <1>4, <1>10 DEF delete_stock, Restock, Reduce
<1>11. CASE Type
  <2>1. pc[Admin] # "denied" /\ \E to : to # "denied" /\ Goto(Admin, to)
    BY <1>11 DEF Type, At
  <2> QED BY <1>3, <1>4, <1>11, <2>1 DEF Type
<1>12. CASE Flag
  BY <1>1, <1>4, <1>12 DEF Flag
<1>13. CASE Ask \/ (\E t \in Buyers : LosesClient(t)) \/ UNCHANGED vars
  BY <1>13 DEF Ask, LosesClient, NoRequest, AnswersNobody,
               vars, Denied
<1>14. ASSUME NEW t \in Threads, Signal(t) PROVE Same
  <2>1. mutex["products"] # None
    BY StoreAssumption DEF DenialInv, Denied, Serving
  <2>2. mutex'["products"] = mutex["products"]
    BY <1>14, <2>1 DEF Signal, Keep, Mutexes
  <2> QED BY <1>14, <2>2 DEF Signal, Denied
<1>15. ASSUME NEW t \in Threads, HandlerLock(t) PROVE Same
  <2>1. mutex'["products"] = mutex["products"]
    BY <1>15 DEF HandlerLock, DenialInv, Control, Mutexes
  <2>2. pc' = pc \/ (pc[t] = "wait" /\ Goto(t, "delete"))
    BY <1>15 DEF HandlerLock, Return
  <2>3. Denied' = Denied
    BY <2>2 DEF Goto, Denied, Threads, DenialInv, Control
  <2> QED BY <1>15, <2>1, <2>3 DEF HandlerLock
<1>16. ASSUME NEW t \in Threads, HandlerPrices(t) PROVE FALSE
  BY <1>16, StoreAssumption DEF HandlerPrices, DenialInv, Denied, Serving
<1> QED BY <1>5, <1>6, <1>7, <1>8, <1>9, <1>10, <1>11, <1>12, <1>13, <1>14,
           <1>15, <1>16, Steps

(* The first thread to be denied keeps products_mutex.                     *)
LEMMA FirstDenial ==
    ASSUME DenialInv, Denied = {}, [Next]_vars, Denied' # {}
    PROVE  mutex'["products"] \in Denied'
<1>1. PICK t \in Serving : pc'[t] = "denied" /\ pc[t] # "denied"
  BY DEF Denied
<1>2. \A u, to : Goto(u, to) => u = t /\ to = "denied"
  BY <1>1 DEF Goto, DenialInv, Control, Threads
<1>3. ASSUME NEW u \in Serving, verify_Transaction(u)
      PROVE  mutex'["products"] \in Denied'
  <2>0. ~ Goto(u, "buy")
    BY <1>2
  <2>1. u = t /\ At(u, "verify") /\ Keep(u)
    BY <1>2, <1>3, <2>0 DEF verify_Transaction
  <2>2. pc[u] = "verify"
    BY <2>1 DEF At
  <2>3. "products" \in Needs(u)
    BY <2>2 DEF Needs
  <2>4. mutex'["products"] = u
    BY <2>1, <2>3 DEF Keep, Mutexes
  <2> QED BY <1>1, <2>1, <2>4 DEF Denied
<1>4. pc' # pc
  BY <1>1
<1>5. ASSUME NEW u \in Serving,
             \/ Accept(u) \/ Show(u) \/ Receive(u) \/ verify_stock(u)
             \/ get_USER_By_ID(u) \/ get_PRODUCT_By_ID(u) \/ Buy(u)
      PROVE  FALSE
  <2>1. \E to : to # "denied" /\ Goto(u, to)
    BY <1>5 DEF Accept, Show, Receive, verify_stock, get_USER_By_ID,
                get_PRODUCT_By_ID, Buy
  <2> QED BY <1>2, <2>1
<1>6. ASSUME \/ WaitForStock \/ delete_stock \/ Type \/ Restock \/ Reduce
             \/ Flag \/ Ask \/ (\E b \in Buyers : LosesClient(b)) \/ UNCHANGED vars
      PROVE  FALSE
  <2>1. pc' = pc \/ \E u, to : to # "denied" /\ Goto(u, to)
    BY <1>6 DEF WaitForStock, delete_stock, Type, Restock, Reduce, Flag, Ask,
                LosesClient, NoRequest, AnswersNobody, vars
  <2> QED BY <1>2, <1>4, <2>1
<1>7. ASSUME NEW u \in Threads, Signal(u) \/ HandlerLock(u) \/ HandlerPrices(u)
      PROVE  FALSE
  <2>1. pc' = pc \/ Goto(u, "delete")
    BY <1>7 DEF Signal, HandlerLock, HandlerPrices, Return
  <2> QED BY <1>2, <1>4, <2>1
<1> QED BY <1>3, <1>5, <1>6, <1>7, Steps

(* The mutexes of a thread that was denied stay with it.                   *)
THEOREM DenialInvariant == Spec => []DenialInv
<1>1. Init => DenialInv
  <2>1. Init => Denied = {}
    BY DEF Init, Denied, Threads
  <2> QED BY <2>1, InitControl DEF DenialInv
<1>2. DenialInv /\ [Next]_vars => DenialInv'
  BY NextKeepsControl, NothingAfterDenial, FirstDenial DEF DenialInv
<1> QED BY <1>1, <1>2, PTL DEF Spec

(* One customer who cannot pay ends all business.                          *)
THEOREM DenialIsFinal == Spec => DenialEndsBusiness
<1>1. DenialInv /\ [Next]_vars =>
         [Denied # {} => UNCHANGED data /\ Denied' = Denied]_vars
  BY NothingAfterDenial
<1> QED BY <1>1, DenialInvariant, PTL DEF Spec, DenialEndsBusiness

-----------------------------------------------------------------------------
(* The data: prices and pieces are integers, an index always falls in the  *)
(* array, and what an action is about to use is there.                     *)
Product == [ID : Int, price : Int, nr_bucati : Int]

DataInv ==
    /\ product_list \in [Entries -> Product]
    /\ current_products_Nr \in Int /\ current_products_Nr < MaxItems
    /\ money \in [DOMAIN Wallet -> Int]
    /\ index \in [Serving -> Entries]
    /\ request \in [Serving -> Requests \cup {Stock, None}]
    /\ \A t \in Serving : pc[t] \in {"find product", "verify", "buy"} =>
                             request[t].user \in DOMAIN Wallet
    /\ pc[Admin] \in {"restock", "reduce"} => command \in Commands
    /\ reducere_flag \in Int /\ reducere \in Int
    /\ stock_null \in Nat /\ refilled \in Nat /\ reduced \in BOOLEAN

(* The listed entries are entries of the array.                            *)
LEMMA ListedInArray ==
    ASSUME DataInv PROVE /\ MaxItems \in Nat /\ Listed \subseteq Entries
                         /\ Listed \subseteq 0 .. current_products_Nr
                         /\ \A i \in Listed : i + 1 \in Entries
<1>1. /\ MaxItems \in Nat /\ current_products_Nr \in Int
      /\ current_products_Nr < MaxItems
  BY StoreAssumption DEF DataInv
<1>2. \A i \in Listed : /\ i \in Int /\ 0 <= i
                        /\ i <= current_products_Nr - 1
  BY <1>1 DEF Listed
<1>3. \A i \in Listed : /\ i \in Entries /\ i + 1 \in Entries
                        /\ i \in 0 .. current_products_Nr
  BY <1>1, <1>2 DEF Entries
<1> QED BY <1>1, <1>3

(* The initial state.                                                      *)
LEMMA InitData == Init => DataInv
<1> SUFFICES ASSUME Init PROVE DataInv
  OBVIOUS
<1>1. PICK shelf \in Shelves :
        /\ product_list = [i \in Entries |->
                             IF i + 1 \in DOMAIN shelf THEN shelf[i + 1]
                             ELSE [ID |-> 0, price |-> 0, nr_bucati |-> 0]]
        /\ current_products_Nr = Len(shelf)
  BY DEF Init
<1> DEFINE P == [ID : Nat \ {0}, price : Int, nr_bucati : Nat \ {0}]
<1>2. shelf \in Seq(P) /\ Len(shelf) < MaxItems /\ MaxItems \in Nat
  BY ShelvesAssumption, StoreAssumption
<1> HIDE DEF P
<1>3. Len(shelf) \in Nat /\ \A i \in DOMAIN shelf : shelf[i] \in P
  BY <1>2, LenProperties, ElementOfSeq
<1>4. /\ \A x \in P : x \in Product
      /\ [ID |-> 0, price |-> 0, nr_bucati |-> 0] \in Product
  BY DEF P, Product
<1>5. product_list \in [Entries -> Product]
  <2> HIDE DEF Product
  <2> QED BY <1>1, <1>3, <1>4
<1>6. 0 \in Entries
  BY <1>2, <1>3 DEF Entries
<1>7. /\ index \in [Serving -> Entries]
      /\ request \in [Serving -> Requests \cup {Stock, None}]
      /\ money \in [DOMAIN Wallet -> Int]
  BY <1>6, StoreAssumption DEF Init
<1>8. /\ \A t \in Serving : pc[t] = "absent"
      /\ pc[Admin] = "fgets"
  BY StoreAssumption DEF Init, Threads, Serving
<1>9. /\ reducere_flag = 0 /\ reducere = 0 /\ stock_null = 0
      /\ refilled = 0 /\ reduced = FALSE
  BY DEF Init
<1>10. current_products_Nr \in Int /\ current_products_Nr < MaxItems
  BY <1>1, <1>2, <1>3
<1>11. /\ reducere_flag \in Int /\ reducere \in Int
       /\ stock_null \in Nat /\ refilled \in Nat
  BY <1>9
<1>13. reduced \in BOOLEAN
  BY <1>9
<1>12. /\ \A t \in Serving : pc[t] \notin {"find product", "verify", "buy"}
       /\ pc[Admin] \notin {"restock", "reduce"}
  BY <1>8
<1> QED BY <1>5, <1>7, <1>10, <1>11, <1>12, <1>13 DEF DataInv

(* What moves when a thread of a client goes on.                           *)
LEMMA ServingMoves ==
    ASSUME Control, NEW t \in Serving, NEW to, Goto(t, to)
    PROVE  /\ \A u \in Serving : pc'[u] = IF u = t THEN to ELSE pc[u]
           /\ pc'[Admin] = pc[Admin] /\ pc'[Verifier] = pc[Verifier]
BY StoreAssumption DEF Goto, Control, Threads, Serving

(* And when one of the other threads does.                                 *)
LEMMA OthersMove ==
    ASSUME Control, NEW t \in {Verifier, Admin}, NEW to, Goto(t, to)
    PROVE  /\ \A u \in Serving : pc'[u] = pc[u]
           /\ \A u \in {Verifier, Admin} : pc'[u] = IF u = t THEN to ELSE pc[u]
BY StoreAssumption DEF Goto, Control, Threads, Serving

(* The steps of a client that do not touch the data.                       *)
LEMMA ServingKeepsData ==
    ASSUME Control, DataInv, NEW t \in Serving,
           \/ Accept(t) \/ Show(t) \/ Receive(t) \/ verify_stock(t)
           \/ get_USER_By_ID(t) \/ get_PRODUCT_By_ID(t) \/ verify_Transaction(t)
    PROVE  DataInv'
<1> USE DEF data, locals, ghosts
<1>1. CASE Accept(t)
  <2>1. Goto(t, "show customers")
    BY <1>1 DEF Accept
  <2>2. /\ \A u \in Serving : pc'[u] \in {"find product", "verify", "buy"} =>
              pc[u] \in {"find product", "verify", "buy"}
        /\ pc'[Admin] = pc[Admin]
    BY <2>1, ServingMoves
  <2> QED BY <1>1, <2>2 DEF Accept, DataInv
<1>2. CASE Show(t)
  <2>1. Goto(t, "show products") \/ Goto(t, "recv")
    BY <1>2 DEF Show
  <2>2. /\ \A u \in Serving : pc'[u] \in {"find product", "verify", "buy"} =>
              pc[u] \in {"find product", "verify", "buy"}
        /\ pc'[Admin] = pc[Admin]
    BY <2>1, ServingMoves
  <2> QED BY <1>2, <2>2 DEF Show, DataInv
<1>3. CASE Receive(t)
  <2>1. PICK r \in Requests \cup {Stock}, to \in {"sum", "find customer"} :
              request' = [request EXCEPT ![t] = r] /\ Goto(t, to)
    BY <1>3 DEF Receive
  <2>2. /\ \A u \in Serving : pc'[u] \in {"find product", "verify", "buy"} =>
              pc[u] \in {"find product", "verify", "buy"} /\ u # t
        /\ pc'[Admin] = pc[Admin]
    BY <2>1, ServingMoves
  <2>3. /\ request' \in [Serving -> Requests \cup {Stock, None}]
        /\ \A u \in Serving : u # t => request'[u] = request[u]
    BY <2>1 DEF DataInv
  <2> QED BY <1>3, <2>2, <2>3 DEF Receive, DataInv
<1>4. CASE verify_stock(t)
  <2>1. Goto(t, "told")
    BY <1>4 DEF verify_stock
  <2>2. /\ \A u \in Serving : pc'[u] \in {"find product", "verify", "buy"} =>
              pc[u] \in {"find product", "verify", "buy"}
        /\ pc'[Admin] = pc[Admin]
    BY <2>1, ServingMoves
  <2> QED BY <1>4, <2>2 DEF verify_stock, DataInv
<1>5. CASE get_USER_By_ID(t)
  <2>1. Goto(t, IF request[t].user \in DOMAIN money
               THEN "find product" ELSE "wrong customer")
    BY <1>5 DEF get_USER_By_ID
  <2>2. /\ \A u \in Serving : pc'[u] \in {"find product", "verify", "buy"} =>
              \/ pc[u] \in {"find product", "verify", "buy"}
              \/ request[u].user \in DOMAIN money
        /\ pc'[Admin] = pc[Admin]
    BY <2>1, ServingMoves
  <2> QED BY <1>5, <2>2 DEF get_USER_By_ID, DataInv
<1>6. CASE get_PRODUCT_By_ID(t)
  <2> DEFINE found == {i \in Listed : product_list[i].ID = request[t].product}
  <2>1. Goto(t, IF found = {} THEN "wrong product" ELSE "verify")
        /\ At(t, "find product")
    BY <1>6 DEF get_PRODUCT_By_ID
  <2>2. /\ \A u \in Serving : pc'[u] \in {"find product", "verify", "buy"} =>
              pc[u] \in {"find product", "verify", "buy"}
        /\ pc'[Admin] = pc[Admin]
    BY <2>1, ServingMoves DEF At
  <2>3. index' \in [Serving -> Entries]
    <3>1. CASE found = {}
      BY <1>6, <3>1 DEF get_PRODUCT_By_ID, DataInv
    <3>2. CASE found # {}
      <4>1. found \in SUBSET Nat
        BY DEF Listed
      <4>2. Min(found) \in found
        BY <3>2, <4>1, MinIsLeast
      <4>3. Min(found) \in Entries
        BY <4>2, ListedInArray
      <4>4. index' = [index EXCEPT ![t] = Min(found)]
        BY <1>6, <3>2 DEF get_PRODUCT_By_ID
      <4> HIDE DEF found
      <4> QED BY <4>3, <4>4 DEF DataInv
    <3> QED BY <3>1, <3>2
  <2> QED BY <1>6, <2>2, <2>3 DEF get_PRODUCT_By_ID, DataInv
<1>7. CASE verify_Transaction(t)
  <2>1. Goto(t, IF Affordable(t) THEN "buy" ELSE "denied") /\ At(t, "verify")
    BY <1>7 DEF verify_Transaction
  <2>2. /\ \A u \in Serving : pc'[u] \in {"find product", "verify", "buy"} =>
              pc[u] \in {"find product", "verify", "buy"}
        /\ pc'[Admin] = pc[Admin]
    BY <2>1, ServingMoves DEF At
  <2> QED BY <1>7, <2>2 DEF verify_Transaction, DataInv
<1> QED BY <1>1, <1>2, <1>3, <1>4, <1>5, <1>6, <1>7

(* A purchase lowers the pieces of one entry and the money of one customer.*)
LEMMA BuyKeepsData ==
    ASSUME Control, DataInv, NEW t \in Serving, Buy(t)
    PROVE  DataInv'
<1> DEFINE i == index[t]
           c == request[t].user
<1>1. pc[t] = "buy" /\ i \in Entries /\ c \in DOMAIN Wallet
  BY DEF Buy, At, DataInv
<1>2. /\ product_list' = [product_list EXCEPT ![i].nr_bucati = @ - 1]
      /\ money' = [money EXCEPT ![c] = @ - product_list[i].price]
      /\ stock_null' = stock_null +
                         (IF product_list[i].nr_bucati = 1 THEN 1 ELSE 0)
      /\ Goto(t, "bought")
      /\ UNCHANGED <<current_products_Nr, reducere_flag, ghosts, locals>>
  BY DEF Buy, Take
<1> HIDE DEF i, c
<1>3. product_list[i] \in Product /\ money[c] \in Int
  BY <1>1 DEF DataInv
<1>4. product_list' \in [Entries -> Product]
  <2> DEFINE p == [product_list[i] EXCEPT !.nr_bucati = @ - 1]
  <2>1. p \in Product
    BY <1>3 DEF Product
  <2>2. product_list' = [product_list EXCEPT ![i] = p]
    BY <1>2
  <2> HIDE DEF p
  <2> QED BY <2>1, <2>2 DEF DataInv
<1>5. money' \in [DOMAIN Wallet -> Int]
  <2>1. product_list[i].price \in Int
    BY <1>3 DEF Product
  <2>2. money[c] - product_list[i].price \in Int
    BY <1>3, <2>1
  <2> QED BY <1>2, <2>2 DEF DataInv
<1>6. stock_null' \in Nat
  <2>1. stock_null \in Nat
    BY DEF DataInv
  <2> QED BY <1>2, <2>1
<1>7. /\ \A u \in Serving : pc'[u] \in {"find product", "verify", "buy"} =>
            pc[u] \in {"find product", "verify", "buy"}
      /\ pc'[Admin] = pc[Admin]
  BY <1>2, ServingMoves
<1> QED BY <1>2, <1>4, <1>5, <1>6, <1>7 DEF DataInv, ghosts, locals

(* The Verifier deletes an entry by moving those behind it.                *)
LEMMA DeleteKeepsData ==
    ASSUME Control, DataInv, delete_stock
    PROVE  DataInv'
<1> DEFINE sold == {i \in Listed : product_list[i].nr_bucati = 0}
           gone == IF sold = {} THEN 0 ELSE Max(sold)
           n == current_products_Nr
<1>1. /\ product_list' = [i \in Entries |->
                            IF i \in gone .. n - 1
                            THEN product_list[i + 1] ELSE product_list[i]]
      /\ current_products_Nr' = n - 1
      /\ Goto(Verifier, "wait")
      /\ UNCHANGED <<money, reducere_flag, stock_null, ghosts, locals>>
  BY DEF delete_stock
<1>2. gone \in Nat
  <2>1. CASE sold # {}
    <3>1. sold \in SUBSET (0 .. n) /\ n \in Int
      BY ListedInArray DEF DataInv
    <3>2. Max(sold) \in sold
      BY <2>1, <3>1, MaxIsGreatest, Zenon
    <3> QED BY <2>1, <3>1, <3>2
  <2> QED BY <2>1
<1> HIDE DEF gone
<1>3. \A i \in Entries : i \in gone .. n - 1 => i + 1 \in Entries
  <2>1. MaxItems \in Nat /\ n \in Int /\ n < MaxItems
    BY ListedInArray DEF DataInv
  <2> QED BY <1>2, <2>1 DEF Entries
<1>4. product_list' \in [Entries -> Product]
  <2>1. \A j \in Entries : product_list[j] \in Product
    BY DEF DataInv
  <2> QED BY <1>1, <1>3, <2>1
<1>5. n - 1 \in Int /\ n - 1 < MaxItems
  <2>1. MaxItems \in Nat /\ n \in Int /\ n < MaxItems
    BY ListedInArray DEF DataInv
  <2> QED BY <2>1
<1>6. /\ \A u \in Serving : pc'[u] = pc[u]
      /\ pc'[Admin] = pc[Admin]
  BY <1>1, OthersMove, StoreAssumption
<1> QED BY <1>1, <1>4, <1>5, <1>6 DEF DataInv, ghosts, locals

(* The administrator's commands.                                           *)
LEMMA AdminKeepsData ==
    ASSUME Control, DataInv, Type \/ Restock \/ Reduce \/ Flag
    PROVE  DataInv'
<1>1. CASE Type
  <2>1. PICK c \in Commands, to \in {"restock", "reduce"} :
              command' = c /\ Goto(Admin, to)
    BY <1>1 DEF Type
  <2>2. \A u \in Serving : pc'[u] = pc[u]
    BY <2>1, OthersMove
  <2> QED BY <1>1, <2>1, <2>2 DEF Type, DataInv, data, ghosts
<1>2. CASE Restock
  <2> DEFINE p == command.product
             pieces == product_list[p].nr_bucati + command.amount
  <2>1. pc[Admin] = "restock" /\ command \in Commands
    BY <1>2 DEF Restock, At, DataInv
  <2>2. p \in Entries /\ command.amount \in Int
    BY <2>1, CommandsAssumption DEF Entries
  <2>3. product_list[p] \in Product
    BY <2>2 DEF DataInv
  <2>4. pieces \in Int
    BY <2>2, <2>3 DEF Product
  <2>5. /\ product_list' = [product_list EXCEPT ![p].nr_bucati = pieces]
        /\ refilled' = refilled + (IF pieces = 0 THEN 1 ELSE 0)
        /\ Goto(Admin, "fgets")
        /\ UNCHANGED <<current_products_Nr, money, reducere_flag, stock_null,
                       reduced, locals>>
    BY <1>2 DEF Restock
  <2> HIDE DEF p, pieces
  <2>6. product_list' \in [Entries -> Product]
    <3> DEFINE q == [product_list[p] EXCEPT !.nr_bucati = pieces]
    <3>1. q \in Product
      BY <2>3, <2>4 DEF Product
    <3>2. product_list' = [product_list EXCEPT ![p] = q]
      BY <2>5
    <3> HIDE DEF q
    <3> QED BY <3>1, <3>2 DEF DataInv
  <2>7. refilled' \in Nat
    <3>1. refilled \in Nat
      BY DEF DataInv
    <3> QED BY <2>5, <3>1
  <2>8. (\A u \in Serving : pc'[u] = pc[u]) /\ pc'[Admin] = "fgets"
    BY <2>5, OthersMove
  <2> QED BY <2>5, <2>6, <2>7, <2>8 DEF DataInv, locals
<1>3. CASE Reduce
  <2>1. pc[Admin] = "reduce" /\ command.amount \in Int
    BY <1>3, CommandsAssumption DEF Reduce, At, DataInv
  <2>2. \A i \in Entries : product_list[i] \in Product /\ Off(i) \in Int
    <3>1. \A x, y \in Int : x * y \in Int
      OBVIOUS
    <3>2. Hundreds(command.amount) \in Int
      BY <2>1 DEF Hundreds
    <3>3. \A i \in Entries : product_list[i] \in Product
      BY DEF DataInv
    <3>4. \A i \in Entries : product_list[i].price \in Int
      BY <3>3 DEF Product
    <3> QED BY <3>1, <3>2, <3>3, <3>4 DEF Off
  <2>3. /\ product_list' = [i \in Entries |->
                              IF i \in Listed
                              THEN [product_list[i] EXCEPT !.price = @ - Off(i)]
                              ELSE product_list[i]]
        /\ reducere' = IF Listed = {} THEN 0 ELSE Off(Max(Listed))
        /\ reduced' = TRUE /\ Goto(Admin, "flag")
        /\ UNCHANGED <<current_products_Nr, money, reducere_flag, stock_null,
                       refilled, request, index, command>>
    BY <1>3 DEF Reduce
  <2>4. product_list' \in [Entries -> Product]
    BY <2>2, <2>3 DEF Product
  <2>5. reducere' \in Int
    <3>1. CASE Listed # {}
      <4>1. Max(Listed) \in Listed
        BY <3>1, ListedInArray, MaxIsGreatest DEF DataInv
      <4>2. Max(Listed) \in Entries
        BY <4>1, ListedInArray
      <4> QED BY <2>2, <2>3, <3>1, <4>2
    <3> QED BY <2>3, <3>1
  <2>6. (\A u \in Serving : pc'[u] = pc[u]) /\ pc'[Admin] = "flag"
    BY <2>3, OthersMove
  <2> QED BY <2>3, <2>4, <2>5, <2>6 DEF DataInv
<1>4. CASE Flag
  <2>1. (\A u \in Serving : pc'[u] = pc[u]) /\ pc'[Admin] = "fgets"
    BY <1>4, OthersMove DEF Flag
  <2> QED BY <1>4, <2>1 DEF Flag, DataInv, data, ghosts, locals
<1> QED BY <1>1, <1>2, <1>3, <1>4

(* The signal's handler.                                                   *)
LEMMA HandlerKeepsData ==
    ASSUME Control, DataInv, NEW t \in Threads,
           Signal(t) \/ HandlerLock(t) \/ HandlerPrices(t)
    PROVE  DataInv'
<1>1. (\A u \in Serving : pc'[u] = pc[u]) /\ pc'[Admin] = pc[Admin]
  <2>1. pc' = pc \/ (pc[t] = "wait" /\ Goto(t, "delete"))
    BY DEF Signal, HandlerLock, HandlerPrices, Return
  <2>2. pc[t] = "wait" => t = Verifier
    BY DEF Threads, Serving, Control, BuyerPlaces, PollPlaces, AdminPlaces,
           Ended
  <2> QED BY <2>1, <2>2, OthersMove, StoreAssumption
<1>2. CASE Signal(t) \/ HandlerLock(t)
  BY <1>1, <1>2 DEF Signal, HandlerLock, DataInv, data, ghosts, locals
<1>3. CASE HandlerPrices(t)
  <2>1. product_list' \in [Entries -> Product]
    <3>1. /\ \A i \in Entries : product_list[i] \in Product
          /\ reducere_flag \in Int
      BY DEF DataInv
    <3> DEFINE q(i) == [product_list[i] EXCEPT !.price = @ + reducere_flag]
    <3>2. \A i \in Entries : q(i) \in Product
      BY <3>1 DEF Product
    <3>3. product_list' = [i \in Entries |->
                             IF i \in Listed THEN q(i) ELSE product_list[i]]
      BY <1>3 DEF HandlerPrices
    <3> HIDE DEF q
    <3> QED BY <3>1, <3>2, <3>3
  <2>2. /\ reducere_flag' = 0
        /\ UNCHANGED <<current_products_Nr, money, stock_null, ghosts, locals>>
    BY <1>3 DEF HandlerPrices
  <2>3. reducere_flag' \in Int
    BY <2>2
  <2> QED BY <1>1, <2>1, <2>2, <2>3 DEF DataInv, ghosts, locals
<1> QED BY <1>2, <1>3

(* Every step keeps it.                                                    *)
LEMMA NextKeepsData == Control /\ DataInv /\ [Next]_vars => DataInv'
<1> SUFFICES ASSUME Control, DataInv, [Next]_vars PROVE DataInv'
  OBVIOUS
<1>1. CASE WaitForStock
  <2>1. (\A u \in Serving : pc'[u] = pc[u]) /\ pc'[Admin] = pc[Admin]
    BY <1>1, OthersMove, StoreAssumption DEF WaitForStock
  <2>2. stock_null' \in Nat
    <3>1. stock_null \in Nat
      BY DEF DataInv
    <3> QED BY <1>1, <3>1 DEF WaitForStock
  <2> QED BY <1>1, <2>1, <2>2 DEF WaitForStock, DataInv, data, ghosts, locals
<1>2. CASE Ask \/ (\E t \in Buyers : LosesClient(t)) \/ UNCHANGED vars
  BY <1>2 DEF Ask, LosesClient, NoRequest, AnswersNobody,
              vars, DataInv, data, ghosts, locals
<1> QED BY <1>1, <1>2, ServingKeepsData, BuyKeepsData, DeleteKeepsData,
           AdminKeepsData, HandlerKeepsData, Steps

(* The data are always usable.                                             *)
THEOREM DataInvariant == Spec => [](Control /\ DataInv)
<1>1. Init => Control /\ DataInv
  BY InitControl, InitData
<1>2. Control /\ DataInv /\ [Next]_vars => (Control /\ DataInv)'
  BY NextKeepsControl, NextKeepsData
<1> QED BY <1>1, <1>2, PTL DEF Spec

(* Every variable has its type, and the array is only indexed where it has *)
(* entries.                                                                *)
THEOREM StoreTypeCorrect == Spec => []TypeOK
<1>1. Control /\ DataInv => TypeOK
  BY ListedInArray DEF Control, DataInv, TypeOK
<1> QED BY <1>1, DataInvariant, PTL

-----------------------------------------------------------------------------
(* What is sold out is announced: one post, one step of the deletion or    *)
(* one noted restocking for every listed entry without pieces.             *)
Zero  == {i \in Listed : product_list[i].nr_bucati = 0}
Bound == stock_null + refilled + (IF pc[Verifier] = "delete" THEN 1 ELSE 0)

(* Sets of entries are finite.                                             *)
LEMMA ZeroFinite ==
    ASSUME DataInv
    PROVE  /\ IsFiniteSet(Entries) /\ Zero \in SUBSET Entries
           /\ Cardinality(Zero) \in Nat
<1>1. IsFiniteSet(Entries)
  BY FS_Interval, ListedInArray DEF Entries
<1>2. Zero \in SUBSET Entries
  BY ListedInArray DEF Zero
<1> QED BY <1>1, <1>2, FS_Subset, FS_CardinalityType

(* When the pieces of one entry change there is at most one more without   *)
(* pieces, and only if none are left.                                      *)
LEMMA OneEntry ==
    ASSUME DataInv, DataInv', NEW i \in Entries, NEW v \in Int,
           product_list' = [product_list EXCEPT ![i].nr_bucati = v],
           current_products_Nr' = current_products_Nr
    PROVE  /\ Cardinality(Zero') \in Nat
           /\ Cardinality(Zero') <= Cardinality(Zero) + (IF v = 0 THEN 1 ELSE 0)
<1>1. /\ IsFiniteSet(Entries) /\ Zero \in SUBSET Entries
      /\ Zero' \in SUBSET Entries
  BY ZeroFinite, ListedInArray DEF Zero, Listed
<1>2. /\ \A j \in Entries : product_list[j] \in Product
      /\ \A j \in Entries : j # i => product_list'[j] = product_list[j]
      /\ product_list'[i].nr_bucati = v
  BY DEF DataInv, Product
<1>3. Listed' = Listed
  BY DEF Listed
<1>4. \A j \in Entries : j # i => (j \in Zero <=> j \in Zero')
  BY <1>2, <1>3 DEF Zero
<1>5. i \in Zero' => v = 0
  BY <1>2 DEF Zero
<1> HIDE DEF Zero
<1>6. /\ Cardinality(Zero) \in Nat /\ Cardinality(Zero') \in Nat
      /\ Cardinality(Zero') = Cardinality(Zero)
           + (IF i \in Zero' THEN 1 ELSE 0) - (IF i \in Zero THEN 1 ELSE 0)
  BY <1>1, <1>4, MovedSize
<1> QED BY <1>5, <1>6

(* A deletion takes an entry without pieces away, if there is one.         *)
LEMMA DeletionTakesOne ==
    ASSUME DataInv, DataInv', delete_stock
    PROVE  \/ Cardinality(Zero') = 0
           \/ Cardinality(Zero') = Cardinality(Zero) - 1
<1> DEFINE gone == IF Zero = {} THEN 0 ELSE Max(Zero)
           n == current_products_Nr
<1>1. /\ product_list' = [i \in Entries |->
                            IF i \in gone .. n - 1
                            THEN product_list[i + 1] ELSE product_list[i]]
      /\ current_products_Nr' = n - 1
  BY DEF delete_stock, Zero
<1>2. n \in Int /\ Zero \in SUBSET (0 .. n) /\ Listed' = 0 .. n - 2
  <2>1. n \in Int
    BY DEF DataInv
  <2>2. Zero \in SUBSET (0 .. n)
    BY ListedInArray DEF Zero
  <2>3. Listed' = 0 .. n - 2
    BY <1>1, <2>1 DEF Listed
  <2> QED BY <2>1, <2>2, <2>3
<1>3. Listed' \subseteq Entries /\ \A i \in Listed' : i \in Listed
  <2>1. \A i \in 0 .. n - 2 : i \in 0 .. n - 1 /\ i + 1 \in 0 .. n - 1
    BY <1>2
  <2> QED BY <1>2, <2>1, ListedInArray DEF Listed
<1>4. CASE Zero = {}
  <2>1. \A i \in Listed' : i + 1 \in Listed
    <3>1. \A i \in 0 .. n - 2 : i + 1 \in 0 .. n - 1
      BY <1>2
    <3> QED BY <1>2, <3>1 DEF Listed
  <2>2. \A i \in Listed' : product_list'[i] = product_list[i + 1]
    BY <1>1, <1>2, <1>3, <1>4
  <2>3. Zero' = {}
    BY <1>4, <2>1, <2>2 DEF Zero
  <2> QED BY <2>3, FS_EmptySet
<1>5. CASE Zero # {}
  <2>1. gone \in Zero /\ \A y \in Zero : y <= gone
    BY <1>2, <1>5, MaxIsGreatest
  <2> HIDE DEF gone
  <2>2. gone \in 0 .. n - 1 /\ \A i \in Zero : i \in 0 .. n - 1
    BY <2>1 DEF Zero, Listed
  <2>3. \A i \in Listed' : i < gone => product_list'[i] = product_list[i]
    BY <1>1, <1>2, <1>3, <2>2
  <2>4. \A i \in Listed' : ~ (i < gone) =>
           product_list'[i] = product_list[i + 1] /\ i + 1 \in Listed
    BY <1>1, <1>2, <1>3, <2>2 DEF Listed
  <2>5. \A i \in Listed' : ~ (i < gone) => i + 1 \notin Zero
    BY <1>2, <2>1, <2>2
  <2>6. \A i \in Listed' : i \in Zero' <=> i \in Zero /\ i < gone
    <3>1. ASSUME NEW i \in Listed', i < gone PROVE i \in Zero' <=> i \in Zero
      BY <1>3, <2>3, <3>1 DEF Zero
    <3>2. ASSUME NEW i \in Listed', ~ (i < gone) PROVE i \notin Zero'
      BY <2>4, <2>5, <3>2 DEF Zero
    <3> QED BY <3>1, <3>2
  <2>7. \A i \in Zero : i # gone => i < gone /\ i \in Listed'
    BY <1>2, <2>1, <2>2
  <2>8. Zero' \subseteq Listed'
    BY DEF Zero
  <2>9. gone \notin Zero'
    BY <2>2, <2>6, <2>8
  <2>10. Zero' = Zero \ {gone}
    BY <2>6, <2>7, <2>8, <2>9
  <2>11. IsFiniteSet(Zero) /\ Cardinality(Zero) \in Nat
    BY ZeroFinite, FS_Subset
  <2> HIDE DEF Zero
  <2> QED BY <2>1, <2>10, <2>11, FS_RemoveElement
<1> QED BY <1>4, <1>5

(* Every step keeps the bound.                                             *)
LEMMA NextKeepsAnnounced ==
    ASSUME Control, DataInv, Control', DataInv', [Next]_vars,
           Cardinality(Zero) <= Bound
    PROVE  Cardinality(Zero') <= Bound'
<1>1. /\ Cardinality(Zero) \in Nat /\ stock_null \in Nat /\ refilled \in Nat
      /\ stock_null' \in Nat /\ refilled' \in Nat
  BY ZeroFinite DEF DataInv
<1>2. ASSUME Zero' = Zero, UNCHANGED <<stock_null, refilled>>,
             pc[Verifier] = "delete" => pc'[Verifier] = "delete"
      PROVE  Cardinality(Zero') <= Bound'
  BY <1>1, <1>2 DEF Bound
<1>3. ASSUME UNCHANGED data PROVE Zero' = Zero
  BY <1>3 DEF Zero, Listed, data
<1>4. ASSUME NEW t \in Serving,
             \/ Accept(t) \/ Show(t) \/ Receive(t) \/ verify_stock(t)
             \/ get_USER_By_ID(t) \/ get_PRODUCT_By_ID(t)
             \/ verify_Transaction(t)
      PROVE  Cardinality(Zero') <= Bound'
  <2>1. UNCHANGED data /\ UNCHANGED <<stock_null, refilled>>
    BY <1>4 DEF Accept, Show, Receive, verify_stock, get_USER_By_ID,
                get_PRODUCT_By_ID, verify_Transaction, ghosts
  <2>2. \E to : Goto(t, to)
    BY <1>4 DEF Accept, Show, Receive, verify_stock, get_USER_By_ID,
                get_PRODUCT_By_ID, verify_Transaction
  <2> QED BY <1>2, <1>3, <2>1, <2>2, ServingMoves
<1>5. ASSUME NEW t \in Serving, Buy(t) PROVE Cardinality(Zero') <= Bound'
  <2>0. index[t] \in Entries /\ product_list[index[t]].nr_bucati \in Int
    BY DEF DataInv, Product
  <2>2. PICK i \in Entries, v \in Int :
          i = index[t] /\ v = product_list[i].nr_bucati - 1
    BY <2>0
  <2>1. /\ product_list' = [product_list EXCEPT ![i].nr_bucati = v]
        /\ current_products_Nr' = current_products_Nr
        /\ stock_null' = stock_null +
                           (IF product_list[i].nr_bucati = 1 THEN 1 ELSE 0)
        /\ refilled' = refilled /\ Goto(t, "bought")
    BY <1>5, <2>2 DEF Buy, Take, ghosts
  <2>3. v = 0 <=> product_list[i].nr_bucati = 1
    BY <2>0, <2>2
  <2>4. pc'[Verifier] = pc[Verifier]
    BY <2>1, ServingMoves
  <2>5. /\ Cardinality(Zero') \in Nat
        /\ Cardinality(Zero') <= Cardinality(Zero) + (IF v = 0 THEN 1 ELSE 0)
    BY <2>1, OneEntry
  <2> QED BY <1>1, <2>1, <2>3, <2>4, <2>5 DEF Bound
<1>6. CASE WaitForStock
  <2>1. UNCHANGED data /\ refilled' = refilled /\ stock_null' = stock_null - 1
        /\ pc[Verifier] = "wait" /\ Goto(Verifier, "delete")
    BY <1>6 DEF WaitForStock, At, ghosts
  <2>2. pc'[Verifier] = "delete"
    BY <2>1, OthersMove
  <2> QED BY <1>1, <1>3, <2>1, <2>2 DEF Bound
<1>7. CASE delete_stock
  <2>1. /\ UNCHANGED <<stock_null, refilled>>
        /\ pc[Verifier] = "delete" /\ Goto(Verifier, "wait")
    BY <1>7 DEF delete_stock, At, ghosts
  <2>2. pc'[Verifier] = "wait"
    BY <2>1, OthersMove
  <2>3. \/ Cardinality(Zero') = 0
        \/ Cardinality(Zero') = Cardinality(Zero) - 1
    BY <1>7, DeletionTakesOne
  <2> QED BY <1>1, <2>1, <2>2, <2>3 DEF Bound
<1>8. CASE Type \/ Flag
  <2>1. UNCHANGED data /\ UNCHANGED <<stock_null, refilled>>
        /\ \E to : Goto(Admin, to)
    BY <1>8 DEF Type, Flag, ghosts
  <2> QED BY <1>2, <1>3, <2>1, OthersMove, StoreAssumption
<1>9. CASE Restock
  <2>0. /\ command.product \in Entries /\ command.amount \in Int
        /\ product_list[command.product].nr_bucati \in Int
    <3>1. command.product \in Entries /\ command.amount \in Int
      BY <1>9, CommandsAssumption DEF Restock, At, DataInv, Entries
    <3> QED BY <3>1 DEF DataInv, Product
  <2>2. PICK p \in Entries, v \in Int :
          /\ p = command.product
          /\ v = product_list[p].nr_bucati + command.amount
    BY <2>0
  <2>1. /\ product_list' = [product_list EXCEPT ![p].nr_bucati = v]
        /\ current_products_Nr' = current_products_Nr
        /\ refilled' = refilled + (IF v = 0 THEN 1 ELSE 0)
        /\ stock_null' = stock_null /\ Goto(Admin, "fgets")
        /\ pc[Admin] = "restock"
    BY <1>9, <2>2 DEF Restock, At
  <2>4. pc'[Verifier] = pc[Verifier]
    BY <2>1, OthersMove, StoreAssumption
  <2>5. /\ Cardinality(Zero') \in Nat
        /\ Cardinality(Zero') <= Cardinality(Zero) + (IF v = 0 THEN 1 ELSE 0)
    BY <2>1, OneEntry
  <2> QED BY <1>1, <2>1, <2>4, <2>5 DEF Bound
<1>10. ASSUME current_products_Nr' = current_products_Nr,
              \A i \in Listed : product_list'[i].nr_bucati
                                    = product_list[i].nr_bucati
       PROVE  Zero' = Zero
  BY <1>10 DEF Zero, Listed
<1>11. CASE Reduce
  <2>1. /\ \A i \in Entries : product_list[i] \in Product
        /\ current_products_Nr' = current_products_Nr
        /\ UNCHANGED <<stock_null, refilled>> /\ Goto(Admin, "flag")
        /\ product_list' = [i \in Entries |->
                              IF i \in Listed
                              THEN [product_list[i] EXCEPT !.price = @ - Off(i)]
                              ELSE product_list[i]]
    BY <1>11 DEF Reduce, DataInv
  <2>2. \A i \in Listed : product_list'[i].nr_bucati = product_list[i].nr_bucati
    BY <2>1, ListedInArray DEF Product
  <2> QED BY <1>2, <1>10, <2>1, <2>2, OthersMove, StoreAssumption
<1>12. CASE Ask \/ (\E t \in Buyers : LosesClient(t)) \/ UNCHANGED vars
  BY <1>2, <1>3, <1>12 DEF Ask, LosesClient, NoRequest, AnswersNobody,
                           vars, ghosts
<1>13. ASSUME NEW t \in Threads,
              Signal(t) \/ HandlerLock(t) \/ HandlerPrices(t)
       PROVE  Cardinality(Zero') <= Bound'
  <2>1. pc' = pc \/ (pc[t] = "wait" /\ Goto(t, "delete"))
    BY <1>13 DEF Signal, HandlerLock, HandlerPrices, Return
  <2>2. pc[Verifier] = "delete" => pc'[Verifier] = "delete"
    BY <2>1 DEF Goto, Control, Threads
  <2>3. UNCHANGED <<stock_null, refilled>>
    BY <1>13 DEF Signal, HandlerLock, HandlerPrices, ghosts
  <2>4. CASE Signal(t) \/ HandlerLock(t)
    BY <1>2, <1>3, <2>2, <2>3, <2>4 DEF Signal, HandlerLock
  <2>5. CASE HandlerPrices(t)
    <3>1. /\ \A i \in Entries : product_list[i] \in Product
          /\ current_products_Nr' = current_products_Nr
          /\ product_list' = [i \in Entries |->
                IF i \in Listed
                THEN [product_list[i] EXCEPT !.price = @ + reducere_flag]
                ELSE product_list[i]]
      BY <2>5 DEF HandlerPrices, DataInv
    <3>2. \A i \in Listed :
             product_list'[i].nr_bucati = product_list[i].nr_bucati
      BY <3>1, ListedInArray DEF Product
    <3> QED BY <1>2, <1>10, <2>2, <2>3, <3>1, <3>2
  <2> QED BY <1>13, <2>4, <2>5
<1> QED BY <1>4, <1>5, <1>6, <1>7, <1>8, <1>9, <1>11, <1>12, <1>13, Steps

(* Products without pieces are announced to the thread that deletes them.  *)
THEOREM SoldOutIsAnnounced == Spec => []SoldOutAnnounced
<1> DEFINE Inv == Control /\ DataInv /\ Cardinality(Zero) <= Bound
<1>1. Init => Inv
  <2> SUFFICES ASSUME Init PROVE Inv
    OBVIOUS
  <2>1. Control /\ DataInv
    BY InitControl, InitData
  <2>2. Zero = {}
    <3>1. PICK shelf \in Shelves :
            /\ product_list = [i \in Entries |->
                  IF i + 1 \in DOMAIN shelf THEN shelf[i + 1]
                  ELSE [ID |-> 0, price |-> 0, nr_bucati |-> 0]]
            /\ current_products_Nr = Len(shelf)
      BY DEF Init
    <3> DEFINE P == [ID : Nat \ {0}, price : Int, nr_bucati : Nat \ {0}]
    <3>2. shelf \in Seq(P)
      BY ShelvesAssumption
    <3> HIDE DEF P
    <3>3. DOMAIN shelf = 1 .. Len(shelf) /\ Len(shelf) \in Nat
          /\ \A i \in 1 .. Len(shelf) : shelf[i] \in P
      BY <3>2, LenProperties, ElementOfSeq
    <3>4. \A x \in P : x.nr_bucati # 0
      BY DEF P
    <3>5. \A i \in Listed : i \in Entries /\ i + 1 \in 1 .. Len(shelf)
      BY <2>1, <3>1, <3>3, ListedInArray DEF Listed
    <3>6. \A i \in Listed : product_list[i].nr_bucati # 0
      BY <3>1, <3>3, <3>4, <3>5
    <3> QED BY <3>6 DEF Zero
  <2>3. Cardinality(Zero) = 0
    BY <2>2, FS_EmptySet
  <2>4. stock_null \in Nat /\ refilled \in Nat
    BY <2>1 DEF DataInv
  <2>5. Cardinality(Zero) <= Bound
    BY <2>3, <2>4 DEF Bound
  <2> QED BY <2>1, <2>5
<1>2. Inv /\ [Next]_vars => Inv'
  BY NextKeepsControl, NextKeepsData, NextKeepsAnnounced
<1>3. Inv => SoldOutAnnounced
  BY DEF SoldOutAnnounced, Zero, Bound
<1> HIDE DEF Inv
<1> QED BY <1>1, <1>2, <1>3, PTL DEF Spec

-----------------------------------------------------------------------------
(* A customer overdrawn.  Listed products are told apart by their IDs, and *)
(* deletions only move products to smaller indices: one that is not at the *)
(* index where it was found is not behind it either, so that it cannot     *)
(* come to that index again.  While it stays there and prices and the      *)
(* customer's money stay, what was checked still holds.                    *)
IDs == /\ \A i \in Entries : product_list[i].ID # 0 <=> i \in Listed
       /\ \A i, j \in Listed : product_list[i].ID = product_list[j].ID => i = j

Reductions == (reducere # 0 => reduced) /\ (reducere_flag # 0 => reduced)

NotBehind(t) ==
    \A j \in Entries : j > index[t] => product_list[j].ID # request[t].product

SoldToSame(t) == \E u \in Buyers \ {t} : /\ pc[u] = "bought"
                                         /\ request[u].user = request[t].user

Covered(t) == \/ product_list[index[t]].ID # request[t].product
              \/ reduced
              \/ SoldToSame(t)
              \/ Affordable(t)

BuyerOK(t) == /\ pc[t] \in {"verify", "buy"} => NotBehind(t)
              /\ pc[t] = "buy" => Covered(t)

CheckInv == IDs /\ Reductions /\ \A t \in Buyers : BuyerOK(t)

(* What a buyer relies on survives every step that leaves its index, its   *)
(* request and the IDs alone, and covers a change of money or price.       *)
LEMMA BuyerKept ==
    ASSUME DataInv, DataInv', NEW t \in Buyers, BuyerOK(t),
           UNCHANGED <<pc[t], index[t], request[t]>>,
           \A j \in Entries : product_list'[j].ID = product_list[j].ID,
           reduced => reduced',
           \A u \in Buyers : pc[u] = "bought" =>
                                UNCHANGED <<pc[u], request[u]>>,
           pc[t] = "buy" =>
              \/ reduced'
              \/ \E u \in Buyers \ {t} :
                    pc'[u] = "bought" /\ request'[u].user = request[t].user
              \/ /\ money'[request[t].user] = money[request[t].user]
                 /\ product_list'[index[t]].price = product_list[index[t]].price
    PROVE  BuyerOK(t)'
<1>1. index[t] \in Entries
  BY DEF DataInv, Serving
<1>2. NotBehind(t) => NotBehind(t)'
  BY DEF NotBehind
<1>3. SoldToSame(t) => SoldToSame(t)'
  BY DEF SoldToSame
<1>4. ASSUME pc[t] = "buy" PROVE Covered(t)'
  <2>1. Covered(t)
    BY <1>4 DEF BuyerOK
  <2>2. CASE product_list[index[t]].ID # request[t].product
    BY <1>1, <2>2 DEF Covered
  <2>3. CASE reduced \/ reduced'
    BY <2>3 DEF Covered
  <2>4. CASE SoldToSame(t)
    BY <1>3, <2>4 DEF Covered
  <2>5. CASE \E u \in Buyers \ {t} :
                pc'[u] = "bought" /\ request'[u].user = request[t].user
    BY <2>5 DEF Covered, SoldToSame
  <2>6. CASE /\ money'[request[t].user] = money[request[t].user]
             /\ product_list'[index[t]].price = product_list[index[t]].price
             /\ Affordable(t)
    BY <2>6 DEF Covered, Affordable
  <2> QED BY <1>4, <2>1, <2>2, <2>3, <2>4, <2>5, <2>6 DEF Covered
<1> QED BY <1>2, <1>4 DEF BuyerOK

(* The IDs survive every step that leaves them and the number of products. *)
LEMMA IDsKept ==
    ASSUME IDs, current_products_Nr' = current_products_Nr, DataInv,
           \A j \in Entries : product_list'[j].ID = product_list[j].ID
    PROVE  IDs'
<1>1. Listed' = Listed /\ Listed \subseteq Entries
  BY ListedInArray DEF Listed
<1> QED BY <1>1 DEF IDs

(* A deletion moves entries one to the left, from some place on.           *)
LEMMA DeletionMoves ==
    ASSUME Control, DataInv, delete_stock
    PROVE  \E gone \in Nat :
              LET n == current_products_Nr
              IN  /\ n > 0 => gone < n
                  /\ product_list' = [i \in Entries |->
                        IF i \in gone .. n - 1 THEN product_list[i + 1]
                                               ELSE product_list[i]]
                  /\ current_products_Nr' = n - 1
<1> DEFINE gone == IF Zero = {} THEN 0 ELSE Max(Zero)
           n == current_products_Nr
<1>1. n \in Int
  BY DEF DataInv
<1>2. gone \in Nat /\ (n > 0 => gone < n)
  <2>1. CASE Zero # {}
    <3>1. Zero \in SUBSET (0 .. n)
      BY ListedInArray DEF Zero
    <3>2. Max(Zero) \in Zero
      BY <1>1, <2>1, <3>1, MaxIsGreatest, Zenon
    <3>3. Max(Zero) \in 0 .. n - 1
      BY <3>2 DEF Zero, Listed
    <3> QED BY <1>1, <2>1, <3>3
  <2> QED BY <1>1, <2>1
<1>3. /\ product_list' = [i \in Entries |->
                            IF i \in gone .. n - 1
                            THEN product_list[i + 1] ELSE product_list[i]]
      /\ current_products_Nr' = n - 1
  BY DEF delete_stock, Zero
<1> HIDE DEF gone
<1> QED BY <1>2, <1>3

(* A deletion keeps the IDs apart and what buyers rely on.                 *)
LEMMA DeleteKeepsCheck ==
    ASSUME Control, DataInv, CheckInv, DataInv', delete_stock
    PROVE  CheckInv'
<1> DEFINE n == current_products_Nr
<1>1. PICK gone \in Nat :
        /\ n > 0 => gone < n
        /\ product_list' = [i \in Entries |->
              IF i \in gone .. n - 1 THEN product_list[i + 1]
                                     ELSE product_list[i]]
        /\ current_products_Nr' = n - 1
  BY DeletionMoves
<1>2. n \in Int /\ n < MaxItems /\ MaxItems \in Nat
  BY ListedInArray DEF DataInv
<1>3. /\ \A i \in Entries : i \in Listed <=> i < n
      /\ \A i \in Entries : i \in Listed' <=> i < n - 1
      /\ Listed \subseteq Entries /\ Listed' \subseteq Entries
      /\ Entries \subseteq Nat
  BY <1>1, <1>2 DEF Listed, Entries
<1>4. \A i \in Entries :
         \/ i < gone \/ i >= n
         \/ i + 1 \in Entries /\ product_list'[i] = product_list[i + 1]
  BY <1>1, <1>2, <1>3 DEF Entries
<1>5. \A i \in Entries :
         i < gone \/ i >= n => product_list'[i] = product_list[i]
  BY <1>1, <1>2, <1>3
<1> DEFINE g(i) == IF i < gone \/ i >= n THEN i ELSE i + 1
<1>6. \A i \in Entries : /\ g(i) \in Entries /\ g(i) >= i
                         /\ product_list'[i] = product_list[g(i)]
  <2>1. ASSUME NEW i \in Entries, i < gone \/ i >= n
        PROVE  g(i) = i
    BY <2>1
  <2>2. ASSUME NEW i \in Entries, ~(i < gone \/ i >= n)
        PROVE  g(i) = i + 1
    BY <2>2
  <2>3. \A i \in Entries : i \in Nat /\ i >= i /\ i + 1 >= i
    BY <1>3
  <2> HIDE DEF g
  <2> QED BY <1>4, <1>5, <2>1, <2>2, <2>3
<1>7. \A i \in Entries : g(i) \in Listed <=> i \in Listed'
  <2>1. \A i \in Entries : g(i) < n <=> i < n - 1
    BY <1>1, <1>2, <1>3
  <2> QED BY <1>3, <1>6, <2>1
<1>8. \A i, j \in Listed' : g(i) = g(j) => i = j
  BY <1>1, <1>2, <1>3
<1> HIDE DEF g
<1>9. IDs'
  <2>1. \A i \in Entries : product_list'[i].ID # 0 <=> i \in Listed'
    BY <1>6, <1>7 DEF CheckInv, IDs
  <2>2. ASSUME NEW i \in Listed', NEW j \in Listed',
               product_list'[i].ID = product_list'[j].ID
        PROVE  i = j
    <3>1. i \in Entries /\ j \in Entries
      BY <1>3
    <3>2. g(i) \in Listed /\ g(j) \in Listed
      BY <1>7, <3>1
    <3>3. product_list[g(i)].ID = product_list[g(j)].ID
      BY <1>6, <2>2, <3>1
    <3>4. g(i) = g(j)
      BY <3>2, <3>3 DEF CheckInv, IDs
    <3> QED BY <1>8, <3>4
  <2> QED BY <2>1, <2>2 DEF IDs
<1>10. /\ UNCHANGED <<money, reducere_flag, reduced, request, index, reducere>>
       /\ \A u \in Serving : pc'[u] = pc[u]
  <2>1. UNCHANGED <<money, reducere_flag, ghosts, locals>> /\ Goto(Verifier, "wait")
    BY DEF delete_stock
  <2> QED BY <2>1, OthersMove DEF ghosts, locals
<1>11. Reductions'
  BY <1>10 DEF CheckInv, Reductions
<1>12. ASSUME NEW t \in Buyers PROVE BuyerOK(t)'
  <2>1. BuyerOK(t) /\ index[t] \in Entries /\ pc'[t] = pc[t]
    BY <1>10 DEF CheckInv, DataInv, Serving
  <2>2. ASSUME NotBehind(t)
        PROVE  /\ NotBehind(t)'
               /\ \/ product_list'[index[t]] = product_list[index[t]]
                  \/ product_list'[index[t]].ID # request[t].product
    <3>0. \A i, j, k \in Nat : (j > i /\ k >= j => k > i)
                              /\ (k >= i => k = i \/ k > i)
      OBVIOUS
    <3>1. \A j \in Entries : j > index[t] => g(j) > index[t]
      <4>1. TAKE j \in Entries
      <4>2. j \in Nat /\ index[t] \in Nat /\ g(j) \in Nat /\ g(j) >= j
        BY <1>3, <1>6, <2>1
      <4> QED BY <3>0, <4>2
    <3>2. NotBehind(t)'
      BY <1>6, <1>10, <2>2, <3>1 DEF NotBehind
    <3>3. g(index[t]) = index[t] \/ g(index[t]) > index[t]
      <4>1. index[t] \in Nat /\ g(index[t]) \in Nat /\ g(index[t]) >= index[t]
        BY <1>3, <1>6, <2>1
      <4> QED BY <3>0, <4>1
    <3>4. /\ g(index[t]) \in Entries
          /\ product_list'[index[t]] = product_list[g(index[t])]
      BY <1>6, <2>1
    <3>5. g(index[t]) > index[t]
             => product_list[g(index[t])].ID # request[t].product
      BY <2>2, <3>4 DEF NotBehind
    <3> QED BY <3>2, <3>3, <3>4, <3>5
  <2>3. ASSUME pc[t] = "buy" PROVE Covered(t)'
    <3>1. Covered(t) /\ NotBehind(t)
      BY <2>1, <2>3 DEF BuyerOK
    <3>2. SoldToSame(t)' <=> SoldToSame(t)
      BY <1>10 DEF SoldToSame, Serving
    <3> QED BY <1>10, <2>2, <3>1, <3>2 DEF Covered, Affordable
  <2> QED BY <2>1, <2>2, <2>3 DEF BuyerOK
<1> QED BY <1>9, <1>11, <1>12 DEF CheckInv

(* Initially nobody has checked anything and the products have their IDs.  *)
LEMMA InitCheck == Init => CheckInv
<1> SUFFICES ASSUME Init PROVE CheckInv
  OBVIOUS
<1>1. PICK shelf \in Shelves :
        /\ product_list = [i \in Entries |->
              IF i + 1 \in DOMAIN shelf THEN shelf[i + 1]
              ELSE [ID |-> 0, price |-> 0, nr_bucati |-> 0]]
        /\ current_products_Nr = Len(shelf)
  BY DEF Init
<1> DEFINE P == [ID : Nat \ {0}, price : Int, nr_bucati : Nat \ {0}]
<1>2. shelf \in Seq(P) /\ Len(shelf) < MaxItems /\ MaxItems \in Nat
      /\ \A i, j \in 1 .. Len(shelf) : shelf[i].ID = shelf[j].ID => i = j
  BY ShelvesAssumption, StoreAssumption
<1> HIDE DEF P
<1>3. DOMAIN shelf = 1 .. Len(shelf) /\ Len(shelf) \in Nat
      /\ \A i \in 1 .. Len(shelf) : shelf[i] \in P
  BY <1>2, LenProperties, ElementOfSeq
<1>4. \A x \in P : x.ID # 0
  BY DEF P
<1>5. \A i \in Entries : /\ i \in Listed <=> i + 1 \in 1 .. Len(shelf)
                         /\ i \in Nat
  BY <1>1, <1>2, <1>3 DEF Listed, Entries
<1>6. \A i \in Entries :
         /\ i \in Listed => product_list[i] = shelf[i + 1]
         /\ i \notin Listed => product_list[i].ID = 0
  BY <1>1, <1>3, <1>5
<1>7. \A i \in Listed : i \in Entries /\ i \in Int
  BY <1>1, <1>2, <1>3 DEF Listed, Entries
<1>8. \A i \in Entries : product_list[i].ID # 0 <=> i \in Listed
  BY <1>3, <1>4, <1>5, <1>6
<1>9. ASSUME NEW i \in Listed, NEW j \in Listed,
             product_list[i].ID = product_list[j].ID
      PROVE  i = j
  <2>1. shelf[i + 1].ID = shelf[j + 1].ID
    BY <1>6, <1>7, <1>9
  <2>2. i + 1 \in 1 .. Len(shelf) /\ j + 1 \in 1 .. Len(shelf)
    BY <1>5, <1>7
  <2>3. i + 1 = j + 1
    BY <1>2, <2>1, <2>2
  <2> QED BY <1>7, <2>3
<1>10. Reductions
  BY DEF Init, Reductions
<1>11. \A t \in Buyers : pc[t] = "absent"
  BY DEF Init, Threads, Serving
<1> QED BY <1>8, <1>9, <1>10, <1>11 DEF CheckInv, IDs, BuyerOK

(* A step of a client that changes neither IDs nor, but for the customer   *)
(* it sells to, money and prices keeps what the other buyers rely on.      *)
LEMMA ServingStepKeepsCheck ==
    ASSUME Control, DataInv, DataInv', CheckInv,
           NEW t \in Serving, NEW to, Goto(t, to), pc[t] # "bought",
           current_products_Nr' = current_products_Nr,
           UNCHANGED <<reducere, reducere_flag, reduced>>,
           \A j \in Entries : product_list'[j].ID = product_list[j].ID,
           \A u \in Serving \ {t} : UNCHANGED <<index[u], request[u]>>,
           \A u \in Buyers \ {t} : pc[u] = "buy" =>
              \/ t \in Buyers /\ to = "bought"
                 /\ request'[t].user = request[u].user
              \/ /\ money'[request[u].user] = money[request[u].user]
                 /\ product_list'[index[u]].price = product_list[index[u]].price,
           t \in Buyers => BuyerOK(t)'
    PROVE  CheckInv'
<1>1. IDs' /\ Reductions'
  BY IDsKept DEF CheckInv, Reductions
<1>2. \A u \in Serving : pc'[u] = IF u = t THEN to ELSE pc[u]
  BY ServingMoves
<1>3. ASSUME NEW u \in Buyers, u # t PROVE BuyerOK(u)'
  <2>1. BuyerOK(u) /\ UNCHANGED <<pc[u], index[u], request[u]>>
    BY <1>2, <1>3 DEF CheckInv, Serving
  <2>2. \A v \in Buyers : pc[v] = "bought" => UNCHANGED <<pc[v], request[v]>>
    BY <1>2 DEF Serving
  <2>3. pc[u] = "buy" =>
          \/ \E v \in Buyers \ {u} :
                pc'[v] = "bought" /\ request'[v].user = request[u].user
          \/ /\ money'[request[u].user] = money[request[u].user]
             /\ product_list'[index[u]].price = product_list[index[u]].price
    BY <1>2, <1>3
  <2> QED BY <2>1, <2>2, <2>3, BuyerKept
<1> QED BY <1>1, <1>3 DEF CheckInv

(* A step of the other threads that leaves IDs and money, and prices       *)
(* unless they have been reduced.                                          *)
LEMMA OtherStepKeepsCheck ==
    ASSUME DataInv, DataInv', CheckInv, Reductions',
           \A u \in Serving : pc'[u] = pc[u],
           UNCHANGED <<index, request, money, current_products_Nr>>,
           \A j \in Entries : product_list'[j].ID = product_list[j].ID,
           reduced => reduced',
           \/ reduced'
           \/ \A j \in Entries : product_list'[j].price = product_list[j].price
    PROVE  CheckInv'
<1>1. IDs'
  BY IDsKept DEF CheckInv
<1>2. ASSUME NEW u \in Buyers PROVE BuyerOK(u)'
  <2>1. BuyerOK(u) /\ UNCHANGED <<pc[u], index[u], request[u]>>
        /\ index[u] \in Entries
    BY DEF CheckInv, Serving, DataInv
  <2>2. \A v \in Buyers : pc[v] = "bought" => UNCHANGED <<pc[v], request[v]>>
    BY DEF Serving
  <2> QED BY <2>1, <2>2, BuyerKept
<1> QED BY <1>1, <1>2 DEF CheckInv

(* The product that is found is not behind the index where it is found.    *)
LEMMA FoundIsNotBehind ==
    ASSUME Control, DataInv, DataInv', CheckInv, NEW t \in Serving,
           get_PRODUCT_By_ID(t)
    PROVE  CheckInv'
<1> DEFINE wanted == request[t].product
           found == {i \in Listed : product_list[i].ID = wanted}
<1>1. /\ pc[t] = "find product" /\ UNCHANGED data
      /\ UNCHANGED <<reducere_flag, ghosts, request, reducere>>
  BY DEF get_PRODUCT_By_ID, At
<1>2. /\ index \in [Serving -> Entries] /\ Listed \subseteq Entries
      /\ UNCHANGED <<money, product_list, current_products_Nr, reduced>>
  BY <1>1, ListedInArray DEF DataInv, data, ghosts
<1>3. CASE found = {}
  <2>1. Goto(t, "wrong product") /\ UNCHANGED index
    BY <1>3 DEF get_PRODUCT_By_ID
  <2>2. pc'[t] = "wrong product"
    BY <2>1, ServingMoves
  <2>3. BuyerOK(t)'
    BY <2>2 DEF BuyerOK
  <2> QED BY <1>1, <1>2, <2>1, <2>3, ServingStepKeepsCheck
<1>4. CASE found # {}
  <2>1. Goto(t, "verify") /\ index' = [index EXCEPT ![t] = Min(found)]
    BY <1>4 DEF get_PRODUCT_By_ID
  <2>2. pc'[t] = "verify" /\ index'[t] = Min(found)
        /\ \A u \in Serving \ {t} : index'[u] = index[u]
    BY <1>2, <2>1, ServingMoves
  <2>3. Min(found) \in found
    <3>1. found \in SUBSET Nat
      <4>1. MaxItems \in Nat
        BY StoreAssumption
      <4>2. \A i \in Entries : i \in Nat
        BY <4>1 DEF Entries
      <4>3. \A i \in found : i \in Nat
        BY <1>2, <4>2
      <4> QED BY <4>3
    <3>2. PICK F \in SUBSET Nat : F = found
      BY <3>1
    <3>3. F # {}
      BY <1>4, <3>2
    <3>4. Min(F) \in F
      BY <3>3, MinIsLeast, Zenon
    <3> QED BY <3>2, <3>4
  <2>4. PICK m \in Listed : m = Min(found) /\ product_list[m].ID = wanted
    BY <2>3
  <2>5. \A j \in Entries : j # m => product_list[j].ID # wanted
    BY <1>2, <2>4 DEF CheckInv, IDs
  <2>6. \A j \in Entries : j > m => product_list[j].ID # wanted
    BY <1>2, <2>4, <2>5 DEF Entries
  <2>7. NotBehind(t)'
    BY <1>1, <1>2, <2>2, <2>4, <2>6 DEF NotBehind
  <2>8. BuyerOK(t)'
    BY <2>2, <2>7 DEF BuyerOK
  <2> QED BY <1>1, <1>2, <2>1, <2>2, <2>8, ServingStepKeepsCheck
<1> QED BY <1>3, <1>4

(* Who goes on to buy has been checked.                                    *)
LEMMA CheckedIsCovered ==
    ASSUME Control, DataInv, DataInv', CheckInv, NEW t \in Serving,
           verify_Transaction(t)
    PROVE  CheckInv'
<1>1. /\ pc[t] = "verify" /\ UNCHANGED data
      /\ UNCHANGED <<reducere_flag, ghosts, locals>>
  BY DEF verify_Transaction, At
<1>2. UNCHANGED <<money, product_list, current_products_Nr, reduced, request,
                  index, reducere>>
  BY <1>1 DEF data, ghosts, locals
<1>3. PICK to \in {"buy", "denied"} :
        Goto(t, to) /\ (to = "buy" => Affordable(t))
  BY DEF verify_Transaction
<1>4. pc'[t] = to
  BY <1>3, ServingMoves
<1>5. ASSUME t \in Buyers PROVE BuyerOK(t)'
  <2>1. NotBehind(t)
    BY <1>1, <1>5 DEF CheckInv, BuyerOK
  <2>2. NotBehind(t)'
    BY <1>2, <2>1 DEF NotBehind
  <2>3. to = "buy" => Covered(t)'
    BY <1>2, <1>3 DEF Covered, Affordable
  <2> QED BY <1>4, <2>2, <2>3 DEF BuyerOK
<1> QED BY <1>1, <1>2, <1>3, <1>5, ServingStepKeepsCheck

(* A purchase takes money from one customer, and leaves all prices.        *)
LEMMA BuyKeepsCheck ==
    ASSUME Control, DataInv, DataInv', CheckInv, NEW t \in Serving, Buy(t)
    PROVE  CheckInv'
<1> DEFINE i == index[t]
           c == request[t].user
           p == product_list[i].price
<1>1. /\ pc[t] = "buy" /\ i \in Entries /\ c \in DOMAIN Wallet
      /\ money \in [DOMAIN Wallet -> Int]
      /\ \A j \in Entries : product_list[j] \in Product
      /\ product_list \in [Entries -> Product]
  BY DEF Buy, At, DataInv
<1>2. /\ product_list' = [product_list EXCEPT ![i].nr_bucati = @ - 1]
      /\ money' = [money EXCEPT ![c] = @ - p]
      /\ Goto(t, "bought")
      /\ UNCHANGED <<current_products_Nr, reducere_flag, ghosts, locals>>
  BY DEF Buy, Take
<1>3. UNCHANGED <<reduced, request, index, reducere>>
  BY <1>2 DEF ghosts, locals
<1>4. t \in Buyers
  BY <1>1 DEF Control, PollPlaces, Serving
<1> HIDE DEF i, c, p
<1>5. \A j \in Entries : /\ product_list'[j].ID = product_list[j].ID
                         /\ product_list'[j].price = product_list[j].price
  BY <1>1, <1>2 DEF Product
<1>6. \A d : d # c => money'[d] = money[d]
  BY <1>1, <1>2
<1>7. pc'[t] = "bought"
  BY <1>2, ServingMoves
<1>8. BuyerOK(t)'
  BY <1>7 DEF BuyerOK
<1>9. \A u \in Buyers \ {t} :
         \/ request'[t].user = request[u].user
         \/ /\ money'[request[u].user] = money[request[u].user]
            /\ product_list'[index[u]].price = product_list[index[u]].price
  <2>1. TAKE u \in Buyers \ {t}
  <2>2. index[u] \in Entries
    BY DEF DataInv, Serving
  <2> QED BY <1>3, <1>5, <1>6, <2>2 DEF c
<1> QED BY <1>1, <1>2, <1>3, <1>4, <1>5, <1>8, <1>9, ServingStepKeepsCheck

(* Every step keeps what buyers rely on.                                   *)
LEMMA NextKeepsCheck ==
    ASSUME Control, DataInv, Control', DataInv', CheckInv, [Next]_vars
    PROVE  CheckInv'
<1>1. ASSUME NEW t \in Serving,
             \/ Accept(t) \/ Show(t) \/ Receive(t) \/ verify_stock(t)
             \/ get_USER_By_ID(t)
      PROVE  CheckInv'
  <2>1. /\ UNCHANGED data /\ UNCHANGED <<reducere_flag, ghosts>>
        /\ UNCHANGED <<index, reducere>>
        /\ pc[t] # "bought"
        /\ \E to : to \notin {"verify", "buy"} /\ Goto(t, to)
    BY <1>1 DEF Accept, Show, Receive, verify_stock, get_USER_By_ID, At, locals
  <2>2. UNCHANGED <<money, product_list, current_products_Nr, reduced>>
    BY <2>1 DEF data, ghosts
  <2>3. PICK to : to \notin {"verify", "buy"} /\ Goto(t, to)
    BY <2>1
  <2>4. pc'[t] = to
    BY <2>3, ServingMoves
  <2>5. BuyerOK(t)'
    BY <2>3, <2>4 DEF BuyerOK
  <2>6. \A u \in Serving \ {t} : UNCHANGED <<index[u], request[u]>>
    <3>1. request' = request \/ \E r : request' = [request EXCEPT ![t] = r]
      BY <1>1 DEF Accept, Show, Receive, verify_stock, get_USER_By_ID, locals
    <3> QED BY <2>1, <3>1 DEF DataInv
  <2> QED BY <2>1, <2>2, <2>3, <2>5, <2>6, ServingStepKeepsCheck
<1>2. CASE WaitForStock \/ Ask \/ (\E t \in Buyers : LosesClient(t)) \/ UNCHANGED vars
  <2>1. /\ UNCHANGED data /\ UNCHANGED <<reducere_flag, ghosts, locals>>
        /\ \/ pc' = pc
           \/ Goto(Verifier, "delete")
    BY <1>2 DEF WaitForStock, Ask, LosesClient, NoRequest, AnswersNobody,
                vars
  <2>2. \A u \in Serving : pc'[u] = pc[u]
    BY <2>1, OthersMove
  <2>3. UNCHANGED <<index, request, money, product_list, current_products_Nr,
                    reduced, reducere, reducere_flag>>
    BY <2>1 DEF data, ghosts, locals
  <2>4. Reductions'
    BY <2>3 DEF CheckInv, Reductions
  <2> QED BY <2>2, <2>3, <2>4, OtherStepKeepsCheck
<1>3. CASE Type \/ Flag
  <2>1. /\ UNCHANGED <<data, ghosts, request, index, reducere>>
        /\ reducere_flag' \in {reducere_flag, reducere}
        /\ \E to : Goto(Admin, to)
    BY <1>3 DEF Type, Flag, locals
  <2>2. \A u \in Serving : pc'[u] = pc[u]
    BY <2>1, OthersMove
  <2>3. UNCHANGED <<money, product_list, current_products_Nr, reduced>>
    BY <2>1 DEF data, ghosts
  <2>4. Reductions'
    BY <2>1, <2>3 DEF CheckInv, Reductions
  <2> QED BY <2>1, <2>2, <2>3, <2>4, OtherStepKeepsCheck
<1>4. CASE Restock
  <2>1. /\ pc[Admin] = "restock"
        /\ \A j \in Entries : product_list[j] \in Product
        /\ product_list \in [Entries -> Product]
    BY <1>4 DEF Restock, At, DataInv
  <2>2. command.product \in Entries
    BY <2>1, CommandsAssumption DEF DataInv, Entries
  <2>3. /\ \E v : product_list' =
                    [product_list EXCEPT ![command.product].nr_bucati = v]
        /\ Goto(Admin, "fgets")
        /\ UNCHANGED <<current_products_Nr, money, reducere_flag, reduced,
                       locals>>
    BY <1>4 DEF Restock
  <2>4. \A j \in Entries : /\ product_list'[j].ID = product_list[j].ID
                           /\ product_list'[j].price = product_list[j].price
    BY <2>1, <2>2, <2>3 DEF Product
  <2>5. \A u \in Serving : pc'[u] = pc[u]
    BY <2>3, OthersMove
  <2>6. UNCHANGED <<index, request, reducere>>
    BY <2>3 DEF locals
  <2>7. Reductions'
    BY <2>3, <2>6 DEF CheckInv, Reductions
  <2> QED BY <2>3, <2>4, <2>5, <2>6, <2>7, OtherStepKeepsCheck
<1>5. CASE Reduce
  <2>1. /\ \A j \in Entries : product_list[j] \in Product
        /\ product_list' = [i \in Entries |->
              IF i \in Listed
              THEN [product_list[i] EXCEPT !.price = @ - Off(i)]
              ELSE product_list[i]]
        /\ Goto(Admin, "flag") /\ reduced' = TRUE
        /\ UNCHANGED <<current_products_Nr, money, reducere_flag, request,
                       index>>
    BY <1>5 DEF Reduce, DataInv
  <2>2. \A j \in Entries : product_list'[j].ID = product_list[j].ID
    BY <2>1 DEF Product
  <2>3. \A u \in Serving : pc'[u] = pc[u]
    BY <2>1, OthersMove
  <2>4. Reductions'
    BY <2>1 DEF Reductions
  <2> QED BY <2>1, <2>2, <2>3, <2>4, OtherStepKeepsCheck
<1>6. ASSUME NEW t \in Threads,
             Signal(t) \/ HandlerLock(t) \/ HandlerPrices(t)
      PROVE  CheckInv'
  <2>1. \A u \in Serving : pc'[u] = pc[u]
    <3>1. pc' = pc \/ (pc[t] = "wait" /\ Goto(t, "delete"))
      BY <1>6 DEF Signal, HandlerLock, HandlerPrices, Return
    <3>2. pc[t] = "wait" => t = Verifier
      BY DEF Threads, Serving, Control, BuyerPlaces, PollPlaces, AdminPlaces,
             Ended
    <3> QED BY <3>1, <3>2, OthersMove
  <2>2. UNCHANGED <<index, request, money, current_products_Nr, reduced,
                    reducere>>
    BY <1>6 DEF Signal, HandlerLock, HandlerPrices, data, ghosts, locals
  <2>3. CASE Signal(t) \/ HandlerLock(t)
    <3>1. UNCHANGED <<product_list, reducere_flag>>
      BY <2>3 DEF Signal, HandlerLock, data
    <3>2. Reductions'
      BY <2>2, <3>1 DEF CheckInv, Reductions
    <3> QED BY <2>1, <2>2, <3>1, <3>2, OtherStepKeepsCheck
  <2>4. CASE HandlerPrices(t)
    <3>1. /\ \A j \in Entries : product_list[j] \in Product
          /\ reducere_flag' = 0
          /\ product_list' = [i \in Entries |->
                IF i \in Listed
                THEN [product_list[i] EXCEPT !.price = @ + reducere_flag]
                ELSE product_list[i]]
      BY <2>4 DEF HandlerPrices, DataInv
    <3>2. \A j \in Entries : product_list'[j].ID = product_list[j].ID
      BY <3>1 DEF Product
    <3>3. Reductions'
      BY <2>2, <3>1 DEF CheckInv, Reductions
    <3>4. ASSUME ~ reduced
          PROVE  \A j \in Entries :
                    product_list'[j].price = product_list[j].price
      <4>1. reducere_flag = 0
        BY <3>4 DEF CheckInv, Reductions
      <4>2. \A j \in Entries : product_list[j].price \in Int
        BY <3>1 DEF Product
      <4> QED BY <3>1, <4>1, <4>2 DEF Product
    <3> QED BY <2>1, <2>2, <3>2, <3>3, <3>4, OtherStepKeepsCheck
  <2> QED BY <1>6, <2>3, <2>4
<1> QED BY <1>1, <1>2, <1>3, <1>4, <1>5, <1>6, Steps, FoundIsNotBehind,
           CheckedIsCovered, BuyKeepsCheck, DeleteKeepsCheck

(* A purchase overdraws a customer only if the product, a price or the     *)
(* customer's money has changed since the check.                           *)
THEOREM OverdrawnOnlyByChange == Spec => OverdrawnOnlyIfChanged
<1> DEFINE Inv == Control /\ DataInv /\ CheckInv
<1>1. Init => Inv
  BY InitControl, InitData, InitCheck
<1>2. Inv /\ [Next]_vars => Inv'
  BY NextKeepsControl, NextKeepsData, NextKeepsCheck
<1>3. ASSUME Inv, NEW t \in Buyers, Buy(t), money'[request[t].user] < 0
      PROVE  \/ product_list[index[t]].ID # request[t].product
             \/ reduced \/ SoldToSame(t)
  <2>1. /\ pc[t] = "buy" /\ index[t] \in Entries
        /\ request[t].user \in DOMAIN Wallet
        /\ money \in [DOMAIN Wallet -> Int]
    BY <1>3 DEF Buy, At, DataInv, Serving
  <2>2. PICK i \in Entries, c \in DOMAIN Wallet :
          i = index[t] /\ c = request[t].user
    BY <2>1
  <2>3. PICK p \in Int : p = product_list[i].price
    BY <1>3 DEF DataInv, Product
  <2>4. money' = [money EXCEPT ![c] = @ - p]
    BY <1>3, <2>2, <2>3 DEF Buy, Take
  <2>5. money[c] \in Int /\ money[c] - p < 0
    BY <1>3, <2>1, <2>2, <2>4
  <2>6. ~ (money[c] >= p)
    BY <2>5
  <2>7. ~ Affordable(t)
    BY <2>2, <2>3, <2>6 DEF Affordable
  <2> QED BY <1>3, <2>1, <2>7 DEF CheckInv, BuyerOK, Covered
<1>4. Inv /\ [Next]_vars =>
         [\A t \in Buyers : Buy(t) /\ money'[request[t].user] < 0 =>
             \/ product_list[index[t]].ID # request[t].product
             \/ reduced
             \/ \E u \in Buyers \ {t} :
                   /\ pc[u] = "bought"
                   /\ request[u].user = request[t].user]_vars
  <2> HIDE DEF Inv
  <2> QED BY <1>3, Zenon DEF SoldToSame
<1> HIDE DEF Inv
<1> QED BY <1>1, <1>2, <1>4, PTL DEF Spec, OverdrawnOnlyIfChanged
=============================================================================
