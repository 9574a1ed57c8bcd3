-------------------------------- MODULE Menu --------------------------------
(***************************************************************************)
(* The menu (internal/service/product_service.go): products, categories,   *)
(* toppings and combos in MySQL, answered from Redis where it can be, and  *)
(* what the order service reads of them when an order is placed.           *)
(*                                                                         *)
(* A request reads or writes one statement after the other and then stores *)
(* or deletes cache entries; other requests run between any two of these.  *)
(* rows[x] is the version of x: how often x was written, deletion counts.  *)
(* An entry is what its reader collected, version by version.              *)
(*                                                                         *)
(* No request reads one cache entry to write another, so it is enough to   *)
(* follow a single key, whichever: key is chosen initially and stays.      *)
(***************************************************************************)
EXTENDS Integers, Sequences, Functions

CONSTANTS
    Products,    \* the products, in the order the lists return them
    Combos,      \* the combos, likewise; a combo is one of each product
    Handlers,    \* request goroutines that may run at the same time
    MaxChanges,  \* bound: requests that change the menu
    MaxLinks,    \* bound: statements on product_toppings in one such request
    Faults       \* may Redis or a statement fail, or a request stop half-way?

ASSUME MenuAssumption ==
    /\ Products \in Seq(Range(Products))
    /\ Combos \in Seq(Range(Combos))
    /\ MaxChanges \in Nat
    /\ MaxLinks \in Nat
    /\ Faults \in BOOLEAN

VARIABLES
    rows,     \* rows[x]: the version of row or table x, 1 for the initial one
    key,      \* the cache key followed
    cache,    \* the entry under key, Absent when there is none
    excused,  \* history: the entry was out of date when it was stored, or a deletion
              \* that was due failed
    partial,  \* history: combos of which the insertion of a part failed
    changes,  \* how many requests that change the menu have started
    req       \* req[h]: what handler h does next and what it has read

cacheVars == <<key, cache, excused>>
menuVars == <<rows, cacheVars, partial, changes, req>>

-----------------------------------------------------------------------------
(* Rows, keys, and which rows an entry is made of.                         *)

All == "all"
Categories == <<"categories", All>>
Toppings == <<"toppings", All>>
Product(p) == <<"products", p>>
Links(p) == <<"product_toppings", p>>
Combo(c) == <<"combos", c>>
Parts(c) == <<"combo_items", c>>

Rows ==
    {Categories, Toppings}
    \cup {"products", "product_toppings"} \X Range(Products)
    \cup {"combos", "combo_items"} \X Range(Combos)

ProductsList == <<"products:list", All>>
ToppingsList == <<"toppings:list", All>>
CombosList == <<"combos:list", All>>
CategoriesList == <<"categories:list", All>>
ProductKey(p) == <<"product", p>>

Keys ==
    {ProductsList, ToppingsList, CombosList, CategoriesList}
    \cup {"product"} \X Range(Products)

\* A request that reads: what each of its statements reads, and how many of them,
\* from the first, end it when they fail.  The others leave their part out.
Lookup(statements, vital) == [statements |-> statements, vital |-> vital]

\* The SELECT statements: the rows and tables each of them reads.
AvailableProducts == {Product(p) : p \in Range(Products)}
ProductById(p) == {Product(p)}
AllCategories == {Categories}
AllToppings == {Toppings}
ToppingsOf(p) == {Links(p), Toppings}
AvailableCombos == {Combo(c) : c \in Range(Combos)}
ComboById(c) == {Combo(c)}
ItemsOf(c) == {Parts(c)}

ListProducts ==
    Lookup(<<AvailableProducts, AllCategories>>
           \o [i \in DOMAIN Products |-> ToppingsOf(Products[i])], 2)

GetProduct(p) == Lookup(<<ProductById(p), AllCategories, ToppingsOf(p)>>, 1)

ListCategories == Lookup(<<AllCategories>>, 1)

ListToppings == Lookup(<<AllToppings>>, 1)

ListCombos ==
    Lookup(<<AvailableCombos>> \o [i \in DOMAIN Combos |-> ItemsOf(Combos[i])], 1)

Contents(k) ==
    CASE k = ProductsList   -> ListProducts
      [] k = ToppingsList   -> ListToppings
      [] k = CombosList     -> ListCombos
      [] k = CategoriesList -> ListCategories
      [] OTHER              -> GetProduct(k[2])

-----------------------------------------------------------------------------
(* Requests that change the menu: the statements they execute, and the     *)
(* keys they delete afterwards.                                            *)

Change(writes, forgets) == [writes |-> writes, forgets |-> forgets]

Repeat(x, n) == [i \in 1 .. n |-> x]

\* A bug: the product's own entry is not deleted.
Bug_ForgetLists(p) == {ProductsList, CategoriesList}

\* invalidateProductCaches, for a product and for a category.
ForgetProduct(p) == {ProductsList, CategoriesList, ProductKey(p)}
ForgetCategory == {ProductsList, CategoriesList}

\* invalidateToppingCaches
ForgetToppings == {ToppingsList, ProductsList}

\* invalidateComboCaches
ForgetCombos == {CombosList}

\* The row, then one statement for each topping attached.
CreateProduct(p) ==
    {Change(<<Product(p)>> \o Repeat(Links(p), n), ForgetProduct(p)) : n \in 0 .. MaxLinks}

\* The row and, when the body has topping_ids, the old links and each new one.
UpdateProduct(p) ==
    {Change(<<Product(p)>> \o Repeat(Links(p), n), ForgetProduct(p)) : n \in 0 .. MaxLinks}

DeleteProduct(p) == {Change(<<Product(p)>>, ForgetProduct(p))}

CreateCategory == {Change(<<Categories>>, ForgetCategory)}
UpdateCategory == {Change(<<Categories>>, ForgetCategory)}
DeleteCategory == {Change(<<Categories>>, ForgetCategory)}

CreateTopping == {Change(<<Toppings>>, ForgetToppings)}
UpdateTopping == {Change(<<Toppings>>, ForgetToppings)}
DeleteTopping == {Change(<<Toppings>>, ForgetToppings)}

\* A bug: the last part is left out.
Bug_LastPart(c) ==
    {Change(<<Combo(c)>> \o Repeat(Parts(c), Len(Products) - 1), ForgetCombos)}

\* The combo, then its parts one by one.
CreateCombo(c) ==
    {Change(<<Combo(c)>> \o Repeat(Parts(c), Len(Products)), ForgetCombos)}

DeleteCombo(c) == {Change(<<Combo(c)>>, ForgetCombos)}

-----------------------------------------------------------------------------
(* Handlers in flight and the entry.                                       *)

Absent == <<>>
Idle == [at |-> "idle"]

Continue(h, k) == req' = [req EXCEPT ![h] = k]
Done(h) == Continue(h, Idle)
At(h, step) == req[h].at = step

\* What a statement finds; and what one that failed contributes, no version at all.
Found(statement) == [x \in statement |-> rows[x]]
Nothing(statement) == [x \in statement |-> 0]

\* A combo is never updated: its version is 1 before it is created, 2 while it is there
\* and more once it is deleted.
Listed(c) == rows[Combo(c)] = 2

\* Whatever an INSERT, an UPDATE or a soft delete of products.sql makes of the row.
Write(x) == rows' = [rows EXCEPT ![x] = rows[x] + 1]

Outdated(entry) == \E i \in DOMAIN entry : \E x \in DOMAIN entry[i] : entry[i][x] # rows[x]

\* h has the deletion of the entry still before it.
Owes(h) == At(h, "change") /\ key \in req[h].forgets

\* setCacheJSON: for five minutes; an error is only logged.
SetCache(content) ==
    \/ cache' = content /\ excused' = Outdated(content)
    \/ Faults /\ UNCHANGED <<cache, excused>>

DropCache == cache' = Absent /\ excused' = FALSE

KeepCache == excused' = (excused \/ Outdated(cache)) /\ UNCHANGED cache

\* A bug: the entries of single products are stored without an expiry.
Bug_NoExpiry ==
    /\ cache # Absent
    /\ key[1] # "product"
    /\ DropCache
    /\ UNCHANGED <<rows, key, partial, changes, req>>

\* Redis drops the entry when its five minutes are over.
CacheExpires ==
    /\ cache # Absent
    /\ DropCache
    /\ UNCHANGED <<rows, key, partial, changes, req>>

-----------------------------------------------------------------------------
(* Requests that read.                                                     *)

Reading(lookup, next, got) == [at |-> "read", lookup |-> lookup, next |-> next, got |-> got]

\* getCacheJSON finds nothing, or Redis fails.  (A request that finds the entry
\* answers with it and changes nothing.)
CacheMiss(h) ==
    /\ req[h] = Idle
    /\ cache = Absent \/ Faults
    /\ Continue(h, Reading(Contents(key), "store", <<>>))
    /\ UNCHANGED <<rows, cacheVars, partial, changes>>

\* GetProductSnapshot and GetComboSnapshot, for a line of an order: always the
\* database.  since: history, the products when the request asked for prices.
Pricing(step, lookup, got) ==
    [at |-> step, lookup |-> lookup, next |-> "insert", got |-> got,
     since |-> [p \in Range(Products) |-> rows[Product(p)]]]

ProductSnapshot(p) == Lookup(<<ProductById(p)>>, 1)

\* The combo, the list of its parts, then each part's product.
ComboSnapshot(c) ==
    LET known == <<ComboById(c), ItemsOf(c)>> \o [i \in DOMAIN Products |-> ProductById(Products[i])]
    IN  Lookup(known, Len(known))

\* A bug: the price of an order line is taken from the entry of the product.
Bug_PriceFromCache(h, p) ==
    /\ req[h] = Idle
    /\ Continue(h, IF cache # Absent /\ key = ProductKey(p)
                     THEN Pricing("insert", ProductSnapshot(p), <<cache[1]>>)
                     ELSE Pricing("read", ProductSnapshot(p), <<>>))
    /\ UNCHANGED <<rows, cacheVars, partial, changes>>

OrderProduct(h, p) ==
    /\ req[h] = Idle
    /\ Continue(h, Pricing("read", ProductSnapshot(p), <<>>))
    /\ UNCHANGED <<rows, cacheVars, partial, changes>>

OrderCombo(h, c) ==
    /\ req[h] = Idle
    /\ Listed(c)
    /\ Continue(h, Pricing("read", ComboSnapshot(c), <<>>))
    /\ UNCHANGED <<rows, cacheVars, partial, changes>>

\* What GetComboSnapshot and each of the cached readers (ListProducts, GetProduct,
\* ListCategories, ListToppings, ListCombos) keep in their local variables.
Collect(h, content) ==
    LET r == req[h]
        got == Append(r.got, content)
        step == IF Len(got) = Len(r.lookup.statements) THEN r.next ELSE "read"
    IN  Continue(h, [r EXCEPT !.at = step, !.got = got])

\* A bug: a statement that fails ends the reading, and what there is gets stored.
Bug_StopAtFailure(h) ==
    /\ At(h, "read")
    /\ LET n == Len(req[h].got) + 1
           statement == req[h].lookup.statements[n]
       IN  \/ Collect(h, Found(statement))
           \/ n <= req[h].lookup.vital /\ Done(h)
           \/ n > req[h].lookup.vital /\ Faults /\ Continue(h, [req[h] EXCEPT !.at = req[h].next])
    /\ UNCHANGED <<rows, cacheVars, partial, changes>>

\* One statement.  A row that is not there ends the request at a vital statement; at
\* another one an error is ignored, and its part left out.
ReadNext(h) ==
    /\ At(h, "read")
    /\ LET n == Len(req[h].got) + 1
           statement == req[h].lookup.statements[n]
       IN  \/ Collect(h, Found(statement))
           \/ n <= req[h].lookup.vital /\ Done(h)
           \/ n > req[h].lookup.vital /\ Faults /\ Collect(h, Nothing(statement))
    /\ UNCHANGED <<rows, cacheVars, partial, changes>>

StoreEntry(h) ==
    /\ At(h, "store")
    /\ SetCache(req[h].got)
    /\ Done(h)
    /\ UNCHANGED <<rows, key, partial, changes>>

\* The order's rows, with the names and prices found, are inserted.
InsertOrder(h) ==
    /\ At(h, "insert")
    /\ Done(h)
    /\ UNCHANGED <<rows, cacheVars, partial, changes>>

-----------------------------------------------------------------------------
(* Requests that change the menu.                                          *)

ProductOperation == UNION {CreateProduct(p) \cup UpdateProduct(p) \cup DeleteProduct(p) : p \in Range(Products)}

CategoryOperation == CreateCategory \cup UpdateCategory \cup DeleteCategory

ToppingOperation == CreateTopping \cup UpdateTopping \cup DeleteTopping

\* A combo's id is new when it is created.
ComboOperation ==
    (UNION {CreateCombo(c) : c \in {d \in Range(Combos) : rows[Combo(d)] = 1}})
    \cup (UNION {DeleteCombo(c) : c \in {d \in Range(Combos) : rows[Combo(d)] > 1}})

Operation == ProductOperation \cup CategoryOperation \cup ToppingOperation \cup ComboOperation

\* UpdateProduct, UpdateCategory and UpdateTopping look whether the row is there first.
\* The first statement; its error ends the request.
BeginChange(h, op) ==
    /\ req[h] = Idle
    /\ changes < MaxChanges
    /\ changes' = changes + 1
    /\ Write(Head(op.writes))
    /\ Continue(h, [at |-> "change", left |-> Tail(op.writes), forgets |-> op.forgets])
    /\ UNCHANGED <<cacheVars, partial>>

CombosMissing(left) == {x[2] : x \in {y \in Range(left) : y[1] = "combo_items"}}

\* The other statements; an error is logged or ignored, and the request goes on.
WriteNext(h) ==
    /\ At(h, "change")
    /\ req[h].left # <<>>
    /\ \/ Write(Head(req[h].left)) /\ UNCHANGED partial
       \/ /\ Faults
          /\ partial' = partial \cup CombosMissing(<<Head(req[h].left)>>)
          /\ UNCHANGED rows
    /\ Continue(h, [req[h] EXCEPT !.left = Tail(req[h].left)])
    /\ UNCHANGED <<cacheVars, changes>>

\* DEL; an error is logged or ignored.
Invalidate(h) ==
    /\ At(h, "change")
    /\ req[h].left = <<>>
    /\ \/ key \in req[h].forgets /\ DropCache
       \/ key \in req[h].forgets /\ Faults /\ KeepCache
       \/ key \notin req[h].forgets /\ UNCHANGED <<cache, excused>>
    /\ Done(h)
    /\ UNCHANGED <<rows, key, partial, changes>>

\* A statement fails that ends the request, the client hangs up or the process stops.
Fail(h) ==
    /\ Faults
    /\ req[h] # Idle
    /\ Done(h)
    /\ partial' = IF At(h, "change") THEN partial \cup CombosMissing(req[h].left) ELSE partial
    /\ IF Owes(h) THEN KeepCache ELSE UNCHANGED <<cache, excused>>
    /\ UNCHANGED <<rows, key, changes>>

-----------------------------------------------------------------------------
MenuInit ==
    /\ rows = [x \in Rows |-> 1]
    /\ key \in Keys
    /\ cache = Absent
    /\ excused = FALSE
    /\ partial = {}
    /\ changes = 0
    /\ req = [h \in Handlers |-> Idle]

Start(h) ==
    \/ CacheMiss(h)
    \/ \E p \in Range(Products) : OrderProduct(h, p)
    \/ \E c \in Range(Combos) : OrderCombo(h, c)
    \/ \E op \in Operation : BeginChange(h, op)

Proceed(h) ==
    \/ ReadNext(h)
    \/ StoreEntry(h)
    \/ InsertOrder(h)
    \/ WriteNext(h)
    \/ Invalidate(h)

MenuNext ==
    \/ \E h \in Handlers : Start(h) \/ Proceed(h) \/ Fail(h)
    \/ CacheExpires

MenuSpec == MenuInit /\ [][MenuNext]_menuVars

\* Redis drops a key when its time is up; Go keeps running a request that started.
MenuFairness == WF_menuVars(CacheExpires) /\ \A h \in Handlers : WF_menuVars(Proceed(h))
MenuFairSpec == MenuSpec /\ MenuFairness

-----------------------------------------------------------------------------
(* Properties.                                                             *)

Entry(lookup, got) ==
    /\ Len(got) <= Len(lookup.statements)
    /\ \A i \in DOMAIN got : got[i] \in [lookup.statements[i] -> Nat]

\* Every row, entry and continuation has its shape: in particular an entry always
\* has a part for each statement of its request, failed statements included.
MenuTypeOK ==
    /\ rows \in [Rows -> Nat]
    /\ key \in Keys
    /\ cache # Absent => Entry(Contents(key), cache) /\ Len(cache) = Len(Contents(key).statements)
    /\ excused \in BOOLEAN
    /\ partial \subseteq Range(Combos)
    /\ changes \in Nat
    /\ DOMAIN req = Handlers
    /\ \A h \in Handlers :
           /\ req[h].at \in {"idle", "read", "store", "insert", "change"}
           /\ req[h].at \notin {"idle", "change"} => Entry(req[h].lookup, req[h].got)
           /\ req[h].at = "change" => /\ Range(req[h].left) \subseteq Rows
                                      /\ req[h].forgets \subseteq Keys

\* The rows of an entry whose changes do not delete it: a product's own entry names
\* its category and its toppings, and only the product's changes delete it.
NotForgotten(x) == key[1] = "product" /\ x \in {Categories, Toppings}

\* "Redis cache invalidate đúng khi có thay đổi": an entry is out of date only while a
\* request that changes the menu has its deletion ahead, unless its reader overlapped
\* a change or lost a statement, a deletion failed, or the row is one of NotForgotten.
EntryExplained ==
    \A i \in DOMAIN cache : \A x \in DOMAIN cache[i] : cache[i][x] # rows[x] =>
        \/ excused
        \/ \E h \in Handlers : Owes(h)
        \/ NotForgotten(x)

\* An order line is priced from product rows at least as new as its request, whatever
\* the cache holds and however many statements a combo takes.  (A combo's own row
\* never changes its price.)
PricedFromRows ==
    \A h \in Handlers : At(h, "insert") =>
        \A i \in DOMAIN req[h].got, p \in Range(Products) :
            Product(p) \in DOMAIN req[h].got[i] =>
                req[h].got[i][Product(p)] >= req[h].since[p]

\* Orders expand a combo into the parts it has at that moment.  A listed combo lacks
\* parts only while it is being created, or for good when inserting one failed.
Whole(c) == rows[Parts(c)] = 1 + Len(Products)
ListedMeansWhole ==
    \A c \in Range(Combos) : Listed(c) /\ ~Whole(c) =>
        \/ c \in partial
        \/ \E h \in Handlers : At(h, "change") /\ Parts(c) \in Range(req[h].left)

\* Whatever was stored late or not deleted, a menu that is out of date catches up.
MenuCatchesUp == Outdated(cache) ~> ~Outdated(cache)
=============================================================================
