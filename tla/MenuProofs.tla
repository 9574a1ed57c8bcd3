----------------------------- MODULE MenuProofs -----------------------------
(***************************************************************************)
(* Theorems about Menu, for every number of products, combos and handlers, *)
(* whichever key is followed, whatever overlaps and whatever fails.        *)
(***************************************************************************)
EXTENDS Menu, SequenceTheorems, TLAPS

(***************************************************************************)
(* What a handler in flight carries.                                       *)
(***************************************************************************)
Versions == UNION {[S -> Nat] : S \in SUBSET Rows}

Lookups == [statements : Seq(SUBSET Rows), vital : Nat]

MenuReading == [at : {"read", "store"}, lookup : Lookups, next : {"store"}, got : Seq(Versions)]

OrderPricing ==
    [at : {"read", "insert"}, lookup : Lookups, next : {"insert"}, got : Seq(Versions),
     since : [Range(Products) -> Nat]]

MenuChanging == [at : {"change"}, left : Seq(Rows), forgets : SUBSET Keys]

Continuation == {Idle} \cup MenuReading \cup OrderPricing \cup MenuChanging

\* Each part of what was read belongs to its statement.
Fits(r) ==
    /\ \A i \in 1 .. Len(r.got) : r.got[i] \in [r.lookup.statements[i] -> Nat]
    /\ r.at = "read" => Len(r.got) < Len(r.lookup.statements)
    /\ r.at # "read" => Len(r.got) = Len(r.lookup.statements)

\* Entry k has a part that is made of row x.
Shows(k, x) == \E i \in 1 .. Len(Contents(k).statements) : x \in Contents(k).statements[i]

-----------------------------------------------------------------------------
(* Sequences.                                                              *)

LEMMA ConcatElements ==
    ASSUME NEW S, NEW s \in Seq(S), NEW t \in Seq(S)
    PROVE  /\ s \o t \in Seq(S)
           /\ Len(s \o t) = Len(s) + Len(t)
           /\ Range(s \o t) \subseteq Range(s) \cup Range(t)
<1>1. /\ s \o t \in Seq(S)
      /\ Len(s \o t) = Len(s) + Len(t)
      /\ \A i \in 1 .. Len(s) + Len(t) :
             (s \o t)[i] = IF i <= Len(s) THEN s[i] ELSE t[i - Len(s)]
  BY ConcatProperties
<1>2. /\ Len(s) \in Nat /\ DOMAIN s = 1 .. Len(s)
      /\ Len(t) \in Nat /\ DOMAIN t = 1 .. Len(t)
      /\ DOMAIN (s \o t) = 1 .. Len(s) + Len(t)
  BY <1>1
<1>3. ASSUME NEW i \in 1 .. Len(s) + Len(t)
      PROVE  (s \o t)[i] \in Range(s) \cup Range(t)
  <2>1. CASE i <= Len(s)
    <3>1. i \in 1 .. Len(s) /\ (s \o t)[i] = s[i]
      BY <1>1, <1>2, <2>1
    <3> QED
      BY <1>2, <3>1 DEF Range
  <2>2. CASE ~(i <= Len(s))
    <3>1. i - Len(s) \in 1 .. Len(t) /\ (s \o t)[i] = t[i - Len(s)]
      BY <1>1, <1>2, <2>2
    <3> QED
      BY <1>2, <3>1 DEF Range
  <2> QED
    BY <2>1, <2>2
<1>4. Range(s \o t) \subseteq Range(s) \cup Range(t)
  BY <1>2, <1>3 DEF Range
<1> QED
  BY <1>1, <1>4

LEMMA AppendElements ==
    ASSUME NEW S, NEW q \in Seq(S), NEW e \in S
    PROVE  /\ Append(q, e) \in Seq(S)
           /\ Len(Append(q, e)) = Len(q) + 1
           /\ \A i \in 1 .. Len(q) : Append(q, e)[i] = q[i]
           /\ Append(q, e)[Len(q) + 1] = e
  OBVIOUS

\* Range of a sequence, its head and its tail.
LEMMA SeqRange ==
    ASSUME NEW S, NEW q \in Seq(S)
    PROVE  /\ Len(q) \in Nat /\ DOMAIN q = 1 .. Len(q)
           /\ Range(q) \subseteq S
           /\ \A x : x \in Range(q) <=> \E i \in 1 .. Len(q) : q[i] = x
           /\ q # <<>> => /\ Head(q) \in Range(q) /\ Head(q) \in S
                          /\ Tail(q) \in Seq(S) /\ Len(Tail(q)) = Len(q) - 1
                          /\ Range(Tail(q)) \subseteq Range(q)
<1>1. Len(q) \in Nat /\ DOMAIN q = 1 .. Len(q)
  OBVIOUS
<1>2. \A x : x \in Range(q) <=> \E i \in 1 .. Len(q) : q[i] = x
  BY <1>1 DEF Range
<1>3. Range(q) \subseteq S
  BY <1>2
<1>4. ASSUME q # <<>>
      PROVE  /\ Head(q) \in Range(q) /\ Head(q) \in S
             /\ Tail(q) \in Seq(S) /\ Len(Tail(q)) = Len(q) - 1
             /\ Range(Tail(q)) \subseteq Range(q)
  <2>1. /\ Len(q) \in Nat \ {0} /\ Head(q) = q[1]
        /\ Tail(q) \in Seq(S) /\ Len(Tail(q)) = Len(q) - 1
        /\ DOMAIN Tail(q) = 1 .. Len(q) - 1
        /\ \A i \in 1 .. Len(q) - 1 : Tail(q)[i] = q[i + 1]
    BY <1>4
  <2>2. ASSUME NEW x \in Range(Tail(q))
        PROVE  x \in Range(q)
    <3>1. PICK i \in 1 .. Len(q) - 1 : Tail(q)[i] = x
      BY <2>1, <2>2 DEF Range
    <3>2. i + 1 \in 1 .. Len(q) /\ q[i + 1] = x
      BY <2>1, <3>1
    <3> QED
      BY <1>2, <3>2
  <2>3. Head(q) \in Range(q)
    BY <1>2, <2>1
  <2> QED
    BY <1>3, <2>1, <2>2, <2>3
<1> QED
  BY <1>1, <1>2, <1>3, <1>4

LEMMA ProductsAreListed ==
    /\ Len(Products) \in Nat /\ DOMAIN Products = 1 .. Len(Products)
    /\ Len(Combos) \in Nat /\ DOMAIN Combos = 1 .. Len(Combos)
    /\ \A i \in 1 .. Len(Products) : Products[i] \in Range(Products)
    /\ \A i \in 1 .. Len(Combos) : Combos[i] \in Range(Combos)
<1>1. /\ Len(Products) \in Nat /\ DOMAIN Products = 1 .. Len(Products)
      /\ \A x : x \in Range(Products) <=> \E i \in 1 .. Len(Products) : Products[i] = x
  BY MenuAssumption, SeqRange
<1>2. /\ Len(Combos) \in Nat /\ DOMAIN Combos = 1 .. Len(Combos)
      /\ \A x : x \in Range(Combos) <=> \E i \in 1 .. Len(Combos) : Combos[i] = x
  BY MenuAssumption, SeqRange
<1> QED
  BY <1>1, <1>2

-----------------------------------------------------------------------------
(* Rows, keys and statements.                                              *)

LEMMA RowKinds ==
    /\ Categories \in Rows /\ Toppings \in Rows /\ Categories # Toppings
    /\ \A p \in Range(Products) :
           /\ Product(p) \in Rows /\ Links(p) \in Rows /\ Product(p) # Links(p)
           /\ Product(p) \notin {Categories, Toppings} /\ Links(p) \notin {Categories, Toppings}
    /\ \A c \in Range(Combos) :
           /\ Combo(c) \in Rows /\ Parts(c) \in Rows /\ Combo(c) # Parts(c)
           /\ Combo(c) \notin {Categories, Toppings} /\ Parts(c) \notin {Categories, Toppings}
           /\ \A p \in Range(Products) : /\ Combo(c) \notin {Product(p), Links(p)}
                                         /\ Parts(c) \notin {Product(p), Links(p)}
  BY DEF Rows, Categories, Toppings, Product, Links, Combo, Parts, All

LEMMA RowsDiffer ==
    /\ \A p, q : Product(p) = Product(q) \/ Links(p) = Links(q) => p = q
    /\ \A c, d : Combo(c) = Combo(d) \/ Parts(c) = Parts(d) => c = d
    /\ \A p, q : Product(p) # Links(q)
    /\ \A c, d : Combo(c) # Parts(d)
  BY DEF Product, Links, Combo, Parts

LEMMA KeyKinds ==
    /\ {ProductsList, ToppingsList, CombosList, CategoriesList} \subseteq Keys
    /\ \A p \in Range(Products) :
           /\ ProductKey(p) \in Keys /\ ProductKey(p)[1] = "product"
           /\ Contents(ProductKey(p)) = GetProduct(p)
    /\ Contents(ProductsList) = ListProducts
    /\ Contents(ToppingsList) = ListToppings
    /\ Contents(CombosList) = ListCombos
    /\ Contents(CategoriesList) = ListCategories
    /\ \A k \in Keys : \/ k \in {ProductsList, ToppingsList, CombosList, CategoriesList}
                       \/ \E p \in Range(Products) : k = ProductKey(p)
  BY DEF Keys, ProductsList, ToppingsList, CombosList, CategoriesList, ProductKey, Contents, All

\* A statement reads rows.
LEMMA StatementsAreRows ==
    /\ {AvailableProducts, AllCategories, AllToppings, AvailableCombos} \subseteq SUBSET Rows
    /\ \A p \in Range(Products) : ProductById(p) \in SUBSET Rows /\ ToppingsOf(p) \in SUBSET Rows
    /\ \A c \in Range(Combos) : ComboById(c) \in SUBSET Rows /\ ItemsOf(c) \in SUBSET Rows
  BY RowKinds DEF AvailableProducts, AllCategories, AllToppings, AvailableCombos, ProductById,
     ToppingsOf, ComboById, ItemsOf

LEMMA LookupFields ==
    ASSUME NEW parts, parts = SUBSET Rows, NEW s \in Seq(parts), NEW n \in Nat
    PROVE  /\ Lookup(s, n) \in Lookups
           /\ Lookup(s, n).statements = s /\ Lookup(s, n).vital = n
  BY DEF Lookup, Lookups

LEMMA ListProductsReads ==
    /\ ListProducts \in Lookups
    /\ Len(ListProducts.statements) \in Nat \ {0}
    /\ \A i \in 1 .. Len(ListProducts.statements) :
           \/ ListProducts.statements[i] \in {AvailableProducts, AllCategories}
           \/ \E p \in Range(Products) : ListProducts.statements[i] = ToppingsOf(p)
<1> DEFINE parts == SUBSET Rows
           head == <<AvailableProducts, AllCategories>>
           tail == [i \in DOMAIN Products |-> ToppingsOf(Products[i])]
<1>1. head \in Seq(parts) /\ Len(head) = 2 /\ Range(head) = {AvailableProducts, AllCategories}
  BY StatementsAreRows DEF Range
<1>2. /\ tail \in Seq(parts) /\ Len(tail) = Len(Products)
      /\ \A x \in Range(tail) : \E p \in Range(Products) : x = ToppingsOf(p)
  <2>1. \A i \in 1 .. Len(Products) : tail[i] \in parts /\ tail[i] = ToppingsOf(Products[i])
    BY ProductsAreListed, StatementsAreRows
  <2>2. tail = [i \in 1 .. Len(Products) |-> tail[i]]
    BY ProductsAreListed
  <2> HIDE DEF tail
  <2>3. tail \in Seq(parts) /\ Len(tail) = Len(Products)
    BY <2>1, <2>2, ProductsAreListed
  <2>4. DOMAIN tail = 1 .. Len(Products)
    BY <2>2, ProductsAreListed
  <2> QED
    BY <2>1, <2>3, <2>4, ProductsAreListed DEF Range
<1>p. parts = SUBSET Rows
  OBVIOUS
<1> HIDE DEF head, tail, parts
<1>3. /\ head \o tail \in Seq(parts) /\ Len(head \o tail) = 2 + Len(Products)
      /\ \A i \in 1 .. Len(head \o tail) : (head \o tail)[i] \in Range(head) \cup Range(tail)
  <2>1. head \in Seq(parts) /\ tail \in Seq(parts)
    BY <1>1, <1>2
  <2>2. /\ head \o tail \in Seq(parts) /\ Len(head \o tail) = Len(head) + Len(tail)
        /\ Range(head \o tail) \subseteq Range(head) \cup Range(tail)
    BY <2>1, ConcatElements, Zenon
  <2>3. \A i \in 1 .. Len(head \o tail) : (head \o tail)[i] \in Range(head \o tail)
    BY <2>2, SeqRange
  <2> QED
    BY <1>1, <1>2, <2>2, <2>3
<1>4. ListProducts = Lookup(head \o tail, 2)
  BY DEF ListProducts, head, tail
<1>5. ListProducts \in Lookups /\ ListProducts.statements = head \o tail
  <2>1. head \o tail \in Seq(parts)
    BY <1>3
  <2> QED
    BY <1>p, <1>4, <2>1, LookupFields
<1>6. Len(head \o tail) \in Nat \ {0}
  BY <1>3, ProductsAreListed
<1>7. \A i \in 1 .. Len(head \o tail) :
          \/ (head \o tail)[i] \in {AvailableProducts, AllCategories}
          \/ \E p \in Range(Products) : (head \o tail)[i] = ToppingsOf(p)
  BY <1>1, <1>2, <1>3
<1> QED
  BY <1>5, <1>6, <1>7

LEMMA ListCombosReads ==
    /\ ListCombos \in Lookups
    /\ Len(ListCombos.statements) \in Nat \ {0}
    /\ \A i \in 1 .. Len(ListCombos.statements) :
           \/ ListCombos.statements[i] = AvailableCombos
           \/ \E c \in Range(Combos) : ListCombos.statements[i] = ItemsOf(c)
<1> DEFINE parts == SUBSET Rows
           head == <<AvailableCombos>>
           tail == [i \in DOMAIN Combos |-> ItemsOf(Combos[i])]
<1>1. head \in Seq(parts) /\ Len(head) = 1 /\ Range(head) = {AvailableCombos}
  BY StatementsAreRows DEF Range
<1>2. /\ tail \in Seq(parts) /\ Len(tail) = Len(Combos)
      /\ \A x \in Range(tail) : \E c \in Range(Combos) : x = ItemsOf(c)
  <2>1. \A i \in 1 .. Len(Combos) : tail[i] \in parts /\ tail[i] = ItemsOf(Combos[i])
    BY ProductsAreListed, StatementsAreRows
  <2>2. tail = [i \in 1 .. Len(Combos) |-> tail[i]]
    BY ProductsAreListed
  <2> HIDE DEF tail
  <2>3. tail \in Seq(parts) /\ Len(tail) = Len(Combos)
    BY <2>1, <2>2, ProductsAreListed
  <2>4. DOMAIN tail = 1 .. Len(Combos)
    BY <2>2, ProductsAreListed
  <2> QED
    BY <2>1, <2>3, <2>4, ProductsAreListed DEF Range
<1>p. parts = SUBSET Rows
  OBVIOUS
<1> HIDE DEF head, tail, parts
<1>3. /\ head \o tail \in Seq(parts) /\ Len(head \o tail) = 1 + Len(Combos)
      /\ \A i \in 1 .. Len(head \o tail) : (head \o tail)[i] \in Range(head) \cup Range(tail)
  <2>1. head \in Seq(parts) /\ tail \in Seq(parts)
    BY <1>1, <1>2
  <2>2. /\ head \o tail \in Seq(parts) /\ Len(head \o tail) = Len(head) + Len(tail)
        /\ Range(head \o tail) \subseteq Range(head) \cup Range(tail)
    BY <2>1, ConcatElements, Zenon
  <2>3. \A i \in 1 .. Len(head \o tail) : (head \o tail)[i] \in Range(head \o tail)
    BY <2>2, SeqRange
  <2> QED
    BY <1>1, <1>2, <2>2, <2>3
<1>4. ListCombos = Lookup(head \o tail, 1)
  BY DEF ListCombos, head, tail
<1>5. ListCombos \in Lookups /\ ListCombos.statements = head \o tail
  <2>1. head \o tail \in Seq(parts)
    BY <1>3
  <2> QED
    BY <1>p, <1>4, <2>1, LookupFields
<1>6. Len(head \o tail) \in Nat \ {0}
  BY <1>3, ProductsAreListed
<1>7. \A i \in 1 .. Len(head \o tail) :
          \/ (head \o tail)[i] = AvailableCombos
          \/ \E c \in Range(Combos) : (head \o tail)[i] = ItemsOf(c)
  BY <1>1, <1>2, <1>3
<1> QED
  BY <1>5, <1>6, <1>7

LEMMA ComboSnapshotReads ==
    ASSUME NEW c \in Range(Combos)
    PROVE  /\ ComboSnapshot(c) \in Lookups
           /\ Len(ComboSnapshot(c).statements) \in Nat \ {0}
           /\ ComboSnapshot(c).vital = Len(ComboSnapshot(c).statements)
<1> DEFINE parts == SUBSET Rows
           head == <<ComboById(c), ItemsOf(c)>>
           tail == [i \in DOMAIN Products |-> ProductById(Products[i])]
<1>1. head \in Seq(parts) /\ Len(head) = 2
  BY StatementsAreRows
<1>2. tail \in Seq(parts) /\ Len(tail) = Len(Products)
  <2>1. \A i \in 1 .. Len(Products) : tail[i] \in parts
    BY ProductsAreListed, StatementsAreRows
  <2>2. tail = [i \in 1 .. Len(Products) |-> tail[i]]
    BY ProductsAreListed
  <2> HIDE DEF tail
  <2> QED
    BY <2>1, <2>2, ProductsAreListed
<1>p. parts = SUBSET Rows
  OBVIOUS
<1> HIDE DEF head, tail, parts
<1>3. head \o tail \in Seq(parts) /\ Len(head \o tail) = 2 + Len(Products)
  <2>1. head \in Seq(parts) /\ tail \in Seq(parts)
    BY <1>1, <1>2
  <2>2. head \o tail \in Seq(parts) /\ Len(head \o tail) = Len(head) + Len(tail)
    BY <2>1, ConcatElements, Zenon
  <2> QED
    BY <1>1, <1>2, <2>2
<1>4. ComboSnapshot(c) = Lookup(head \o tail, Len(head \o tail))
  BY DEF ComboSnapshot, head, tail
<1>5. Len(head \o tail) \in Nat \ {0}
  BY <1>3, ProductsAreListed
<1>6. /\ ComboSnapshot(c) \in Lookups /\ ComboSnapshot(c).statements = head \o tail
      /\ ComboSnapshot(c).vital = Len(head \o tail)
  <2>1. head \o tail \in Seq(parts) /\ Len(head \o tail) \in Nat
    BY <1>3, <1>5
  <2>2. /\ Lookup(head \o tail, Len(head \o tail)) \in Lookups
        /\ Lookup(head \o tail, Len(head \o tail)).statements = head \o tail
        /\ Lookup(head \o tail, Len(head \o tail)).vital = Len(head \o tail)
    BY <1>p, <2>1, LookupFields, Zenon
  <2> QED
    BY <1>4, <2>2
<1> QED
  BY <1>5, <1>6

LEMMA GetProductReads ==
    ASSUME NEW p \in Range(Products)
    PROVE  /\ GetProduct(p) \in Lookups
           /\ Len(GetProduct(p).statements) \in Nat \ {0}
           /\ \A i \in 1 .. Len(GetProduct(p).statements) :
                  GetProduct(p).statements[i] \in {ProductById(p), AllCategories, ToppingsOf(p)}
           /\ ProductSnapshot(p) \in Lookups
           /\ Len(ProductSnapshot(p).statements) = 1 /\ ProductSnapshot(p).vital = 1
<1> DEFINE parts == SUBSET Rows
           s == <<ProductById(p), AllCategories, ToppingsOf(p)>>
           t == <<ProductById(p)>>
<1>1. s \in Seq(parts) /\ Len(s) = 3
      /\ \A i \in 1 .. 3 : s[i] \in {ProductById(p), AllCategories, ToppingsOf(p)}
  BY StatementsAreRows
<1>2. t \in Seq(parts) /\ Len(t) = 1
  BY StatementsAreRows
<1>3. GetProduct(p) = Lookup(s, 1) /\ ProductSnapshot(p) = Lookup(t, 1)
  BY DEF GetProduct, ProductSnapshot
<1>p. parts = SUBSET Rows
  OBVIOUS
<1> HIDE DEF parts, s, t
<1>4. GetProduct(p) \in Lookups /\ GetProduct(p).statements = s
  BY <1>p, <1>1, <1>3, LookupFields
<1>5. ProductSnapshot(p) \in Lookups /\ ProductSnapshot(p).statements = t /\ ProductSnapshot(p).vital = 1
  BY <1>p, <1>2, <1>3, LookupFields
<1>6. \A i \in 1 .. Len(s) : s[i] \in {ProductById(p), AllCategories, ToppingsOf(p)}
  BY <1>1
<1>7. Len(s) \in Nat \ {0}
  BY <1>1
<1> QED
  BY <1>2, <1>4, <1>5, <1>6, <1>7, Zenon

LEMMA SimpleListsRead ==
    ASSUME NEW s \in {AllCategories, AllToppings}
    PROVE  /\ Lookup(<<s>>, 1) \in Lookups
           /\ Lookup(<<s>>, 1).statements = <<s>>
           /\ Len(<<s>>) = 1 /\ <<s>>[1] = s
<1> DEFINE parts == SUBSET Rows
           q == <<s>>
<1>1. q \in Seq(parts) /\ Len(q) = 1 /\ q[1] = s
  BY StatementsAreRows
<1>p. parts = SUBSET Rows
  OBVIOUS
<1> HIDE DEF parts, q
<1>2. /\ Lookup(q, 1) \in Lookups
      /\ Lookup(q, 1).statements = q
  BY <1>p, <1>1, LookupFields
<1> QED
  BY <1>1, <1>2 DEF q

\* What each key's entry can be made of.
LEMMA ContentsShape ==
    ASSUME NEW k \in Keys
    PROVE  Contents(k) \in Lookups /\ Len(Contents(k).statements) \in Nat \ {0}
<1>1. CASE k = ToppingsList
  BY <1>1, KeyKinds, SimpleListsRead DEF ListToppings
<1>2. CASE k = CategoriesList
  BY <1>2, KeyKinds, SimpleListsRead DEF ListCategories
<1>3. CASE k = ProductsList
  BY <1>3, KeyKinds, ListProductsReads
<1>4. CASE k = CombosList
  BY <1>4, KeyKinds, ListCombosReads
<1>5. ASSUME NEW p \in Range(Products), k = ProductKey(p)
      PROVE  Contents(k) \in Lookups /\ Len(Contents(k).statements) \in Nat \ {0}
  BY <1>5, KeyKinds, GetProductReads
<1> QED
  BY <1>1, <1>2, <1>3, <1>4, <1>5, KeyKinds

LEMMA ShownRows ==
    ASSUME NEW x
    PROVE  /\ Shows(ToppingsList, x) => x = Toppings
           /\ Shows(CategoriesList, x) => x = Categories
           /\ Shows(ProductsList, x) =>
                  \/ x \in {Categories, Toppings}
                  \/ \E p \in Range(Products) : x \in {Product(p), Links(p)}
           /\ Shows(CombosList, x) => \E c \in Range(Combos) : x \in {Combo(c), Parts(c)}
           /\ \A p \in Range(Products) : Shows(ProductKey(p), x) =>
                  x \in {Product(p), Links(p), Categories, Toppings}
<1>1. Shows(ToppingsList, x) => x = Toppings
  <2>1. Contents(ToppingsList).statements = <<AllToppings>>
    BY KeyKinds, SimpleListsRead DEF ListToppings
  <2> QED
    BY <2>1 DEF Shows, AllToppings
<1>2. Shows(CategoriesList, x) => x = Categories
  <2>1. Contents(CategoriesList).statements = <<AllCategories>>
    BY KeyKinds, SimpleListsRead DEF ListCategories
  <2> QED
    BY <2>1 DEF Shows, AllCategories
<1>3. Shows(ProductsList, x) => \/ x \in {Categories, Toppings}
                                \/ \E p \in Range(Products) : x \in {Product(p), Links(p)}
  BY KeyKinds, ListProductsReads DEF Shows, AvailableProducts, AllCategories, ToppingsOf
<1>4. Shows(CombosList, x) => \E c \in Range(Combos) : x \in {Combo(c), Parts(c)}
  BY KeyKinds, ListCombosReads DEF Shows, AvailableCombos, ItemsOf
<1>5. ASSUME NEW p \in Range(Products), Shows(ProductKey(p), x)
      PROVE  x \in {Product(p), Links(p), Categories, Toppings}
  BY <1>5, KeyKinds, GetProductReads DEF Shows, ProductById, AllCategories, ToppingsOf
<1> QED
  BY <1>1, <1>2, <1>3, <1>4, <1>5

-----------------------------------------------------------------------------
(* Requests that change the menu.                                          *)

\* Row x is written, then row y n times.
OneThenMany(q, x, y, n) ==
    /\ q \in Seq(Rows) /\ q # <<>>
    /\ Head(q) = x
    /\ Tail(q) \in Seq(Rows) /\ Len(Tail(q)) = n
    /\ \A i \in 1 .. n : Tail(q)[i] = y
    /\ Range(q) \subseteq {x, y}

LEMMA OneWrite ==
    ASSUME NEW x \in Rows, NEW y
    PROVE  OneThenMany(<<x>>, x, y, 0)
  BY DEF OneThenMany, Range

LEMMA ManyWrites ==
    ASSUME NEW x \in Rows, NEW y \in Rows, NEW n \in Nat
    PROVE  OneThenMany(<<x>> \o Repeat(y, n), x, y, n)
<1> DEFINE s == <<x>>
           t == Repeat(y, n)
           q == s \o t
<1>1. s \in Seq(Rows) /\ Len(s) = 1 /\ s[1] = x
  OBVIOUS
<1>2. t \in Seq(Rows) /\ Len(t) = n /\ \A i \in 1 .. n : t[i] = y
  BY DEF Repeat
<1> HIDE DEF s, t
<1>3. /\ q \in Seq(Rows) /\ Len(q) = n + 1
      /\ \A i \in 1 .. n + 1 : q[i] = IF i <= 1 THEN s[i] ELSE t[i - 1]
  <2>1. /\ q \in Seq(Rows) /\ Len(q) = Len(s) + Len(t)
        /\ \A i \in 1 .. Len(s) + Len(t) : q[i] = IF i <= Len(s) THEN s[i] ELSE t[i - Len(s)]
    BY <1>1, <1>2, ConcatProperties
  <2> HIDE DEF q
  <2> QED
    BY <1>1, <1>2, <2>1
<1>4. q[1] = x /\ \A i \in 1 .. n : q[i + 1] = y
  BY <1>1, <1>2, <1>3
<1> HIDE DEF q
<1>5. /\ q # <<>> /\ Head(q) = x
      /\ Tail(q) \in Seq(Rows) /\ Len(Tail(q)) = n
      /\ \A i \in 1 .. n : Tail(q)[i] = y
  BY <1>3, <1>4
<1>6. \A i \in 1 .. n + 1 : q[i] \in {x, y}
  <2>1. \A i \in 1 .. n + 1 : i = 1 \/ (i - 1 \in 1 .. n /\ i = (i - 1) + 1)
    OBVIOUS
  <2> QED
    BY <1>4, <2>1
<1>7. Range(q) \subseteq {x, y}
  BY <1>3, <1>6 DEF Range
<1> QED
  BY <1>3, <1>5, <1>7 DEF OneThenMany, q, s, t

LEMMA OperationKinds ==
    ASSUME NEW op \in Operation
    PROVE  \/ \E p \in Range(Products), n \in Nat :
                  OneThenMany(op.writes, Product(p), Links(p), n) /\ op.forgets = ForgetProduct(p)
           \/ OneThenMany(op.writes, Categories, Categories, 0) /\ op.forgets = ForgetCategory
           \/ OneThenMany(op.writes, Toppings, Toppings, 0) /\ op.forgets = ForgetToppings
           \/ \E c \in Range(Combos) :
                  /\ rows[Combo(c)] = 1 /\ op.forgets = ForgetCombos
                  /\ OneThenMany(op.writes, Combo(c), Parts(c), Len(Products))
           \/ \E c \in Range(Combos) :
                  /\ rows[Combo(c)] > 1 /\ op.forgets = ForgetCombos
                  /\ OneThenMany(op.writes, Combo(c), Parts(c), 0)
<1>1. CASE op \in ProductOperation
  <2>1. PICK p \in Range(Products) : op \in CreateProduct(p) \cup UpdateProduct(p) \cup DeleteProduct(p)
    BY <1>1 DEF ProductOperation
  <2>2. CASE op \in DeleteProduct(p)
    <3>1. op.writes = <<Product(p)>> /\ op.forgets = ForgetProduct(p)
      BY <2>2 DEF DeleteProduct, Change
    <3>2. OneThenMany(op.writes, Product(p), Links(p), 0)
      BY <3>1, RowKinds, OneWrite
    <3> QED
      BY <3>1, <3>2
  <2>3. CASE op \in CreateProduct(p) \cup UpdateProduct(p)
    <3>1. PICK n \in 0 .. MaxLinks :
              op = Change(<<Product(p)>> \o Repeat(Links(p), n), ForgetProduct(p))
      BY <2>3 DEF CreateProduct, UpdateProduct
    <3>2. op.writes = <<Product(p)>> \o Repeat(Links(p), n) /\ op.forgets = ForgetProduct(p)
      BY <3>1 DEF Change
    <3>3. n \in Nat
      BY MenuAssumption
    <3>4. OneThenMany(op.writes, Product(p), Links(p), n)
      BY <3>2, <3>3, RowKinds, ManyWrites
    <3> QED
      BY <3>2, <3>3, <3>4
  <2> QED
    BY <2>1, <2>2, <2>3
<1>2. CASE op \in CategoryOperation
  <2>1. op.writes = <<Categories>> /\ op.forgets = ForgetCategory
    BY <1>2 DEF CategoryOperation, CreateCategory, UpdateCategory, DeleteCategory, Change
  <2> QED
    BY <2>1, RowKinds, OneWrite
<1>3. CASE op \in ToppingOperation
  <2>1. op.writes = <<Toppings>> /\ op.forgets = ForgetToppings
    BY <1>3 DEF ToppingOperation, CreateTopping, UpdateTopping, DeleteTopping, Change
  <2> QED
    BY <2>1, RowKinds, OneWrite
<1>4. ASSUME NEW c \in Range(Combos), rows[Combo(c)] = 1, op \in CreateCombo(c)
      PROVE  /\ op.forgets = ForgetCombos
             /\ OneThenMany(op.writes, Combo(c), Parts(c), Len(Products))
  <2>1. op.writes = <<Combo(c)>> \o Repeat(Parts(c), Len(Products)) /\ op.forgets = ForgetCombos
    BY <1>4 DEF CreateCombo, Change
  <2> QED
    BY <2>1, RowKinds, ProductsAreListed, ManyWrites
<1>5. ASSUME NEW c \in Range(Combos), rows[Combo(c)] > 1, op \in DeleteCombo(c)
      PROVE  /\ op.forgets = ForgetCombos
             /\ OneThenMany(op.writes, Combo(c), Parts(c), 0)
  <2>1. op.writes = <<Combo(c)>> /\ op.forgets = ForgetCombos
    BY <1>5 DEF DeleteCombo, Change
  <2> QED
    BY <2>1, RowKinds, OneWrite
<1>6. CASE op \in ComboOperation
  BY <1>4, <1>5, <1>6 DEF ComboOperation
<1>7. \/ op \in ProductOperation \/ op \in CategoryOperation
      \/ op \in ToppingOperation \/ op \in ComboOperation
  BY DEF Operation
<1> QED
  BY <1>1, <1>2, <1>3, <1>6, <1>7, Zenon

\* A request that writes a row deletes every entry made of it, except that a product's
\* entry outlives changes of its category and its toppings.
LEMMA ChangesForget ==
    ASSUME NEW op \in Operation, NEW x \in Range(op.writes), NEW k \in Keys, Shows(k, x)
    PROVE  k \in op.forgets \/ (k[1] = "product" /\ x \in {Categories, Toppings})
<1>1. ASSUME NEW p \in Range(Products), op.forgets = ForgetProduct(p), x \in {Product(p), Links(p)}
      PROVE  k \in op.forgets
  <2>1. x \notin {Categories, Toppings} /\ \A c \in Range(Combos) : x \notin {Combo(c), Parts(c)}
    BY <1>1, RowKinds
  <2>2. k \notin {ToppingsList, CategoriesList, CombosList}
    BY <2>1, ShownRows
  <2>3. ASSUME NEW q \in Range(Products), k = ProductKey(q)
        PROVE  q = p
    <3>1. x \in {Product(q), Links(q)}
      BY <2>1, <2>3, ShownRows
    <3> QED
      BY <1>1, <3>1, RowsDiffer
  <2>4. k = ProductsList \/ k = ProductKey(p)
    BY <2>2, <2>3, KeyKinds
  <2> QED
    BY <1>1, <2>4 DEF ForgetProduct
<1>2. ASSUME op.forgets = ForgetCategory, x = Categories
      PROVE  k \in op.forgets \/ k[1] = "product"
  BY <1>2, KeyKinds, ShownRows, RowKinds DEF ForgetCategory
<1>3. ASSUME op.forgets = ForgetToppings, x = Toppings
      PROVE  k \in op.forgets \/ k[1] = "product"
  BY <1>3, KeyKinds, ShownRows, RowKinds DEF ForgetToppings
<1>4. ASSUME NEW c \in Range(Combos), op.forgets = ForgetCombos, x \in {Combo(c), Parts(c)}
      PROVE  k \in op.forgets
  <2>1. x \notin {Categories, Toppings} /\ \A p \in Range(Products) : x \notin {Product(p), Links(p)}
    BY <1>4, RowKinds
  <2>2. k \notin {ToppingsList, CategoriesList, ProductsList}
    BY <2>1, ShownRows
  <2>3. ASSUME NEW p \in Range(Products)
        PROVE  k # ProductKey(p)
    BY <2>1, <2>3, ShownRows
  <2>4. k = CombosList
    BY <2>2, <2>3, KeyKinds
  <2> QED
    BY <1>4, <2>4 DEF ForgetCombos
<1>5. \/ \E p \in Range(Products) : op.forgets = ForgetProduct(p) /\ x \in {Product(p), Links(p)}
      \/ op.forgets = ForgetCategory /\ x = Categories
      \/ op.forgets = ForgetToppings /\ x = Toppings
      \/ \E c \in Range(Combos) : op.forgets = ForgetCombos /\ x \in {Combo(c), Parts(c)}
  <2>1. \A a, b, n : OneThenMany(op.writes, a, b, n) => x \in {a, b}
    BY DEF OneThenMany
  <2> QED
    BY <2>1, OperationKinds
<1> QED
  BY <1>1, <1>2, <1>3, <1>4, <1>5

LEMMA OperationShape ==
    ASSUME NEW op \in Operation
    PROVE  /\ op.writes \in Seq(Rows) /\ op.writes # <<>>
           /\ Tail(op.writes) \in Seq(Rows)
           /\ op.forgets \subseteq Keys
<1>1. op.writes \in Seq(Rows) /\ op.writes # <<>> /\ Tail(op.writes) \in Seq(Rows)
  BY OperationKinds DEF OneThenMany
<1>2. op.forgets \subseteq Keys
  <2>1. \A p \in Range(Products) : ForgetProduct(p) \subseteq Keys
    BY KeyKinds DEF ForgetProduct
  <2>2. ForgetCategory \subseteq Keys /\ ForgetToppings \subseteq Keys /\ ForgetCombos \subseteq Keys
    BY KeyKinds DEF ForgetCategory, ForgetToppings, ForgetCombos
  <2> QED
    BY <2>1, <2>2, OperationKinds
<1> QED
  BY <1>1, <1>2

-----------------------------------------------------------------------------
(* The inductive invariant.  What a handler carries is judged by the key k  *)
(* that is followed and by the versions v of the rows.                     *)

\* A reader of prices cannot leave a statement out, and all it found is at least as new
\* as its request.
PricesAreNew(r, v) ==
    /\ r.lookup.vital = Len(r.lookup.statements)
    /\ \A p \in Range(Products) :
           /\ r.since[p] <= v[Product(p)]
           /\ \A i \in 1 .. Len(r.got) :
                  Product(p) \in r.lookup.statements[i] => r.got[i][Product(p)] >= r.since[p]

\* A request whose statements change the entry will delete it.
Outlives(k, x) == k[1] = "product" /\ x \in {Categories, Toppings}
DeletionDue(r, k) == \A x \in Range(r.left) : Shows(k, x) => k \in r.forgets \/ Outlives(k, x)

\* All but the first statement of a request attach something.
Attachments == {Links(p) : p \in Range(Products)} \cup {Parts(c) : c \in Range(Combos)}

Sound(r, k, v) ==
    \/ r = Idle
    \/ r \in MenuReading /\ Fits(r) /\ r.lookup = Contents(k)
    \/ r \in OrderPricing /\ Fits(r) /\ PricesAreNew(r, v)
    \/ r \in MenuChanging /\ DeletionDue(r, k) /\ Range(r.left) \subseteq Attachments

\* The entry has a part for each statement of its key.
EntryShape(entry) ==
    /\ entry \in Seq(Versions)
    /\ entry # Absent =>
           /\ Len(entry) = Len(Contents(key).statements)
           /\ \A i \in 1 .. Len(entry) : entry[i] \in [Contents(key).statements[i] -> Nat]

\* h still has parts of combo c to insert.
Creates(h, c) == At(h, "change") /\ Parts(c) \in Range(req[h].left)

\* One request at most inserts the parts of a combo, and only after the combo; what it
\* has inserted and what it has left are all the parts, unless one failed.
PartsCounted(c) ==
    /\ rows[Combo(c)] >= 1
    /\ rows[Combo(c)] = 1 => rows[Parts(c)] = 1 /\ \A h \in Handlers : ~Creates(h, c)
    /\ \A h, g \in Handlers : Creates(h, c) /\ Creates(g, c) => h = g
    /\ \A h \in Handlers : Creates(h, c) =>
           /\ \A i \in 1 .. Len(req[h].left) : req[h].left[i] = Parts(c)
           /\ c \notin partial => rows[Parts(c)] + Len(req[h].left) = 1 + Len(Products)
    /\ rows[Combo(c)] # 1 /\ c \notin partial /\ (\A h \in Handlers : ~Creates(h, c)) => Whole(c)

MenuState ==
    /\ rows \in [Rows -> Nat]
    /\ key \in Keys
    /\ excused \in BOOLEAN
    /\ partial \subseteq Range(Combos)
    /\ changes \in Nat
    /\ req \in [Handlers -> Continuation]

MenuInv ==
    /\ MenuState
    /\ EntryShape(cache)
    /\ \A h \in Handlers : Sound(req[h], key, rows)
    /\ EntryExplained
    /\ \A c \in Range(Combos) : PartsCounted(c)

-----------------------------------------------------------------------------
(* Rows only grow, and what a handler carries stays sound meanwhile.       *)

Grows(v, w) ==
    /\ v \in [Rows -> Nat] /\ w \in [Rows -> Nat]
    /\ \A x \in Rows : w[x] >= v[x]

LEMMA WriteGrows ==
    ASSUME rows \in [Rows -> Nat], NEW x \in Rows, Write(x)
    PROVE  /\ Grows(rows, rows')
           /\ rows'[x] = rows[x] + 1
           /\ \A y \in Rows \ {x} : rows'[y] = rows[y]
<1>1. rows' = [y \in Rows |-> IF y = x THEN rows[y] + 1 ELSE rows[y]]
  BY DEF Write
<1> QED
  BY <1>1 DEF Grows

LEMMA StaysGrown ==
    ASSUME rows \in [Rows -> Nat], UNCHANGED rows
    PROVE  Grows(rows, rows')
  BY DEF Grows

LEMMA StaysSound ==
    ASSUME NEW r, NEW k, NEW v, NEW w, Grows(v, w), Sound(r, k, v)
    PROVE  Sound(r, k, w)
<1>1. ASSUME r \in OrderPricing, PricesAreNew(r, v)
      PROVE  PricesAreNew(r, w)
  <2>1. \A p \in Range(Products) : r.since[p] \in Nat
    BY <1>1 DEF OrderPricing
  <2>2. \A p \in Range(Products) : /\ v[Product(p)] \in Nat /\ w[Product(p)] \in Nat
                                   /\ w[Product(p)] >= v[Product(p)]
    BY RowKinds DEF Grows
  <2>3. \A p \in Range(Products) : r.since[p] <= w[Product(p)]
    BY <1>1, <2>1, <2>2 DEF PricesAreNew
  <2> QED
    BY <1>1, <2>3 DEF PricesAreNew
<1> QED
  BY <1>1 DEF Sound

\* One handler moves to a sound continuation, the others are left as they are.
LEMMA OthersStaySound ==
    ASSUME MenuState, Grows(rows, rows'), UNCHANGED key,
           \A g \in Handlers : Sound(req[g], key, rows),
           NEW h \in Handlers, NEW k, k \in Continuation, Continue(h, k), Sound(k, key, rows')
    PROVE  /\ req' \in [Handlers -> Continuation] /\ req'[h] = k
           /\ \A g \in Handlers \ {h} : req'[g] = req[g]
           /\ \A g \in Handlers : Sound(req'[g], key', rows')
<1>1. /\ req' \in [Handlers -> Continuation] /\ req'[h] = k
      /\ \A g \in Handlers \ {h} : req'[g] = req[g]
  BY DEF MenuState, Continue
<1>2. \A g \in Handlers \ {h} : Sound(req'[g], key, rows')
  <2>1. \A g \in Handlers \ {h} : Sound(req[g], key, rows')
    BY StaysSound
  <2> QED
    BY <1>1, <2>1
<1> QED
  BY <1>1, <1>2

-----------------------------------------------------------------------------
(* What a handler goes on with.                                            *)

LEMMA LookupParts ==
    ASSUME NEW l \in Lookups
    PROVE  /\ Len(l.statements) \in Nat /\ DOMAIN l.statements = 1 .. Len(l.statements)
           /\ \A i \in 1 .. Len(l.statements) : l.statements[i] \in SUBSET Rows
           /\ l.vital \in Nat
<1> DEFINE parts == SUBSET Rows
<1>1. l.statements \in Seq(parts) /\ l.vital \in Nat
  BY DEF Lookups
<1> HIDE DEF parts
<1>2. /\ Len(l.statements) \in Nat /\ DOMAIN l.statements = 1 .. Len(l.statements)
      /\ \A i \in 1 .. Len(l.statements) : l.statements[i] \in parts
  BY <1>1
<1> QED
  BY <1>1, <1>2 DEF parts

LEMMA IdleIsSound ==
    ASSUME NEW k, NEW v
    PROVE  Idle \in Continuation /\ Sound(Idle, k, v)
  BY DEF Continuation, Sound

LEMMA SoundKinds ==
    ASSUME NEW r, NEW k, NEW v, Sound(r, k, v)
    PROVE  /\ r.at = "read" => r \in MenuReading \/ r \in OrderPricing
           /\ r.at = "store" => r \in MenuReading /\ Fits(r) /\ r.lookup = Contents(k)
           /\ r.at = "insert" => r \in OrderPricing /\ Fits(r) /\ PricesAreNew(r, v)
           /\ r.at = "change" =>
                  r \in MenuChanging /\ DeletionDue(r, k) /\ Range(r.left) \subseteq Attachments
           /\ r.at \in {"read", "store", "insert"} => Fits(r) /\ r.lookup \in Lookups /\ r.got \in Seq(Versions)
           /\ r \in MenuReading => r.next = "store" /\ r.lookup = Contents(k)
           /\ r \in OrderPricing => r.next = "insert" /\ PricesAreNew(r, v)
  BY DEF Sound, MenuReading, OrderPricing, MenuChanging, Idle

Collecting(r, content) ==
    LET got == Append(r.got, content)
    IN  [r EXCEPT !.at = IF Len(got) = Len(r.lookup.statements) THEN r.next ELSE "read",
                  !.got = got]

LEMMA CollectingIsSound ==
    ASSUME NEW k, NEW v, NEW r, Sound(r, k, v), r.at = "read",
           NEW content, content \in [r.lookup.statements[Len(r.got) + 1] -> Nat],
           r \in OrderPricing =>
               \A p \in Range(Products) :
                   Product(p) \in r.lookup.statements[Len(r.got) + 1] => content[Product(p)] >= r.since[p]
    PROVE  Collecting(r, content) \in Continuation /\ Sound(Collecting(r, content), k, v)
<1> DEFINE got == Append(r.got, content)
           n == Len(r.got) + 1
           s == r.lookup.statements
           step == IF Len(got) = Len(s) THEN r.next ELSE "read"
           f == Collecting(r, content)
<1>1. /\ Fits(r) /\ r.lookup \in Lookups /\ r.got \in Seq(Versions)
      /\ Len(r.got) \in Nat /\ Len(s) \in Nat /\ n <= Len(s)
  BY SoundKinds, LookupParts DEF Fits
<1>2. s[n] \in SUBSET Rows
  BY <1>1, LookupParts
<1>3. content \in Versions
  BY <1>2 DEF Versions
<1>4. /\ got \in Seq(Versions) /\ Len(got) = n
      /\ (\A i \in 1 .. Len(r.got) : got[i] = r.got[i]) /\ got[n] = content
  BY <1>1, <1>3, AppendElements
<1>5. f = [r EXCEPT !.at = step, !.got = got]
  BY DEF Collecting
<1> HIDE DEF got, f, step
<1>6. CASE r \in MenuReading
  <2>1. /\ f.at = step /\ f.got = got /\ f.lookup = r.lookup
        /\ r.next = "store" /\ r.lookup = Contents(k)
    BY <1>5, <1>6, SoundKinds DEF MenuReading
  <2>2. step \in {"read", "store"}
    BY <2>1 DEF step
  <2>3. f \in MenuReading
    BY <1>4, <1>5, <1>6, <2>2 DEF MenuReading
  <2>4. \A i \in 1 .. Len(f.got) : f.got[i] \in [f.lookup.statements[i] -> Nat]
    BY <1>1, <1>4, <2>1 DEF Fits
  <2>5. Fits(f)
    BY <1>1, <1>4, <2>1, <2>4 DEF Fits, step
  <2> QED
    BY <2>1, <2>3, <2>5 DEF Sound, Continuation, f
<1>7. CASE r \in OrderPricing
  <2>1. /\ f.at = step /\ f.got = got /\ f.lookup = r.lookup /\ f.since = r.since
        /\ r.next = "insert" /\ PricesAreNew(r, v)
    BY <1>5, <1>7, SoundKinds DEF OrderPricing
  <2>2. step \in {"read", "insert"}
    BY <2>1 DEF step
  <2>3. f \in OrderPricing
    BY <1>4, <1>5, <1>7, <2>2 DEF OrderPricing
  <2>4. \A i \in 1 .. Len(f.got) : f.got[i] \in [f.lookup.statements[i] -> Nat]
    BY <1>1, <1>4, <2>1 DEF Fits
  <2>5. Fits(f)
    BY <1>1, <1>4, <2>1, <2>4 DEF Fits, step
  <2>6. ASSUME NEW p \in Range(Products), NEW i \in 1 .. Len(f.got),
               Product(p) \in f.lookup.statements[i]
        PROVE  f.got[i][Product(p)] >= f.since[p]
    <3>1. CASE i = n
      BY <1>4, <1>7, <2>1, <2>6, <3>1
    <3>2. CASE i # n
      <4>1. i \in 1 .. Len(r.got) /\ f.got[i] = r.got[i]
        BY <1>1, <1>4, <2>1, <3>2
      <4> QED
        BY <2>1, <2>6, <4>1 DEF PricesAreNew
    <3> QED
      BY <3>1, <3>2
  <2>7. PricesAreNew(f, v)
    BY <2>1, <2>6 DEF PricesAreNew
  <2> QED
    BY <2>3, <2>5, <2>7 DEF Sound, Continuation, f
<1> QED
  BY <1>6, <1>7, SoundKinds DEF f

-----------------------------------------------------------------------------
(* The entry is explained.                                                 *)

\* Nothing happens to the entry or to the deletions that are due.
LEMMA EntryStays ==
    ASSUME EntryExplained, UNCHANGED <<rows, key, cache, excused>>,
           \A g \in Handlers : Owes(g) => Owes(g)'
    PROVE  EntryExplained'
  BY DEF EntryExplained, NotForgotten

\* An entry that is stored, or kept although its deletion was due, may be out of date.
LEMMA EntryExcused ==
    ASSUME excused' = TRUE \/ cache' = Absent \/ ~(Outdated(cache)')
    PROVE  EntryExplained'
  BY DEF EntryExplained, Outdated, Absent

\* A row is written by a request whose deletion of the entry, if it shows the row, is due.
LEMMA EntryWritten ==
    ASSUME MenuState, MenuState', EntryShape(cache), EntryExplained, UNCHANGED <<key, cache, excused>>,
           NEW x \in Rows, \A y \in Rows \ {x} : rows'[y] = rows[y],
           NEW h \in Handlers,
           Shows(key, x) => Owes(h)' \/ Outlives(key, x),
           \A g \in Handlers : Owes(g) => Owes(g)'
    PROVE  EntryExplained'
<1> SUFFICES ASSUME NEW i \in DOMAIN cache, NEW y \in DOMAIN cache[i], cache[i][y] # rows'[y]
             PROVE  \/ excused
                    \/ \E g \in Handlers : Owes(g)'
                    \/ Outlives(key, y)
  BY DEF EntryExplained, NotForgotten, Outlives
<1>1. Contents(key) \in Lookups
  BY ContentsShape DEF MenuState
<1>2. /\ cache \in Seq(Versions) /\ cache # Absent
      /\ i \in 1 .. Len(Contents(key).statements)
      /\ y \in Contents(key).statements[i]
  <2>1. cache \in Seq(Versions) /\ DOMAIN cache = 1 .. Len(cache)
    BY DEF EntryShape
  <2>2. cache # Absent
    BY DEF Absent
  <2>3. i \in 1 .. Len(cache) /\ Len(cache) = Len(Contents(key).statements)
    BY <2>1, <2>2 DEF EntryShape
  <2>4. cache[i] \in [Contents(key).statements[i] -> Nat]
    BY <2>2, <2>3 DEF EntryShape
  <2> QED
    BY <2>1, <2>2, <2>3, <2>4
<1>3. y \in Rows
  BY <1>1, <1>2, LookupParts
<1>4. CASE y = x
  BY <1>2, <1>4 DEF Shows
<1>5. CASE y # x
  BY <1>3, <1>5 DEF EntryExplained, NotForgotten, Outlives
<1> QED
  BY <1>4, <1>5

-----------------------------------------------------------------------------
(* The parts of a combo are counted.                                       *)

LEMMA PartsStay ==
    ASSUME NEW c \in Range(Combos), PartsCounted(c),
           rows'[Combo(c)] = rows[Combo(c)], rows'[Parts(c)] = rows[Parts(c)],
           partial \subseteq partial',
           \A g \in Handlers : /\ Creates(g, c)' <=> Creates(g, c)
                               /\ Creates(g, c) => req'[g] = req[g]
    PROVE  PartsCounted(c)'
  BY DEF PartsCounted, Whole

\* The deletion of a combo writes its row again.
LEMMA PartsOutliveDeletion ==
    ASSUME NEW c \in Range(Combos), PartsCounted(c), rows[Combo(c)] \in Nat, rows[Combo(c)] > 1,
           rows'[Combo(c)] = rows[Combo(c)] + 1, rows'[Parts(c)] = rows[Parts(c)],
           UNCHANGED partial,
           \A g \in Handlers : /\ Creates(g, c)' <=> Creates(g, c)
                               /\ Creates(g, c) => req'[g] = req[g]
    PROVE  PartsCounted(c)'
  BY DEF PartsCounted, Whole

-----------------------------------------------------------------------------
(* Steps that leave the rows alone.                                        *)

LEMMA QuietStep ==
    ASSUME MenuInv, UNCHANGED <<rows, key, partial>>, changes' \in Nat, excused' \in BOOLEAN,
           NEW h \in Handlers, NEW k, k \in Continuation, Continue(h, k), k.at # "change",
           Sound(k, key, rows), \A c \in Range(Combos) : ~Creates(h, c),
           EntryShape(cache'),
           \/ ~Owes(h) /\ UNCHANGED <<cache, excused>>
           \/ EntryExplained'
    PROVE  MenuInv'
<1>1. Grows(rows, rows')
  BY StaysGrown DEF MenuInv, MenuState
<1>2. /\ req' \in [Handlers -> Continuation] /\ req'[h] = k
      /\ \A g \in Handlers \ {h} : req'[g] = req[g]
      /\ \A g \in Handlers : Sound(req'[g], key', rows')
  BY <1>1, OthersStaySound DEF MenuInv
<1>3. MenuState'
  BY <1>2 DEF MenuInv, MenuState
<1>4. EntryShape(cache)'
  BY DEF EntryShape
<1>5. EntryExplained'
  <2>1. CASE ~Owes(h) /\ UNCHANGED <<cache, excused>>
    <3>1. \A g \in Handlers : Owes(g) => Owes(g)'
      BY <1>2, <2>1 DEF Owes, At
    <3> QED
      BY <2>1, <3>1, EntryStays DEF MenuInv
  <2> QED
    BY <2>1
<1>6. ASSUME NEW c \in Range(Combos)
      PROVE  PartsCounted(c)'
  <2>1. ~Creates(h, c)' /\ ~Creates(h, c)
    BY <1>2 DEF Creates, At
  <2>2. \A g \in Handlers \ {h} : Creates(g, c)' <=> Creates(g, c)
    BY <1>2 DEF Creates, At
  <2> QED
    BY <1>2, <2>1, <2>2, PartsStay DEF MenuInv
<1> QED
  BY <1>2, <1>3, <1>4, <1>5, <1>6 DEF MenuInv

LEMMA NotChanging ==
    ASSUME NEW h, ~At(h, "change")
    PROVE  ~Owes(h) /\ \A c \in Range(Combos) : ~Creates(h, c)
  BY DEF Owes, Creates

LEMMA CacheMissInv ==
    ASSUME MenuInv, NEW h \in Handlers, CacheMiss(h)
    PROVE  MenuInv'
<1> DEFINE k == Reading(Contents(key), "store", <<>>)
<1>1. Contents(key) \in Lookups /\ Len(Contents(key).statements) \in Nat \ {0}
  BY ContentsShape DEF MenuInv, MenuState
<1>2. k \in MenuReading /\ k.lookup = Contents(key) /\ k.got = <<>> /\ k.at = "read"
  BY <1>1 DEF Reading, MenuReading
<1>3. Fits(k)
  BY <1>1, <1>2 DEF Fits
<1> HIDE DEF k
<1>4. k \in Continuation /\ Sound(k, key, rows)
  BY <1>2, <1>3 DEF Continuation, Sound
<1>5. ~At(h, "change") /\ Continue(h, k)
  BY DEF CacheMiss, At, Idle, k
<1>6. UNCHANGED <<rows, key, cache, excused, partial, changes>>
  BY DEF CacheMiss, cacheVars
<1> QED
  BY <1>2, <1>4, <1>5, <1>6, NotChanging, QuietStep DEF MenuInv, MenuState

\* A request for prices has not read anything yet.
LEMMA PricingStep ==
    ASSUME MenuInv, NEW h \in Handlers, req[h] = Idle,
           NEW l \in Lookups, Len(l.statements) \in Nat \ {0}, l.vital = Len(l.statements),
           Continue(h, Pricing("read", l, <<>>)), UNCHANGED <<rows, cacheVars, partial, changes>>
    PROVE  MenuInv'
<1> DEFINE k == Pricing("read", l, <<>>)
<1>1. \A p \in Range(Products) : rows[Product(p)] \in Nat
  BY RowKinds DEF MenuInv, MenuState
<1>2. /\ k \in OrderPricing /\ k.lookup = l /\ k.got = <<>> /\ k.at = "read"
      /\ \A p \in Range(Products) : k.since[p] = rows[Product(p)]
  BY <1>1 DEF Pricing, OrderPricing
<1> HIDE DEF k
<1>3. Fits(k) /\ PricesAreNew(k, rows)
  BY <1>1, <1>2 DEF Fits, PricesAreNew
<1>4. k \in Continuation /\ Sound(k, key, rows)
  BY <1>2, <1>3 DEF Continuation, Sound
<1>5. ~At(h, "change") /\ Continue(h, k)
  BY DEF At, Idle, k
<1>6. UNCHANGED <<rows, key, cache, excused, partial, changes>>
  BY DEF cacheVars
<1> QED
  BY <1>2, <1>4, <1>5, <1>6, NotChanging, QuietStep DEF MenuInv, MenuState

LEMMA OrderProductInv ==
    ASSUME MenuInv, NEW h \in Handlers, NEW p \in Range(Products), OrderProduct(h, p)
    PROVE  MenuInv'
<1>1. /\ ProductSnapshot(p) \in Lookups /\ Len(ProductSnapshot(p).statements) \in Nat \ {0}
      /\ ProductSnapshot(p).vital = Len(ProductSnapshot(p).statements)
  <2>1. /\ ProductSnapshot(p) \in Lookups
        /\ Len(ProductSnapshot(p).statements) = 1 /\ ProductSnapshot(p).vital = 1
    BY GetProductReads, Zenon
  <2> QED
    BY <2>1
<1> QED
  BY <1>1, PricingStep DEF OrderProduct

LEMMA OrderComboInv ==
    ASSUME MenuInv, NEW h \in Handlers, NEW c \in Range(Combos), OrderCombo(h, c)
    PROVE  MenuInv'
  BY ComboSnapshotReads, PricingStep DEF OrderCombo

LEMMA ReadNextInv ==
    ASSUME MenuInv, NEW h \in Handlers, ReadNext(h)
    PROVE  MenuInv'
<1> DEFINE r == req[h]
           n == Len(r.got) + 1
           statement == r.lookup.statements[n]
<1>1. r.at = "read" /\ Sound(r, key, rows) /\ ~At(h, "change")
  BY DEF ReadNext, At, MenuInv
<1>2. /\ Fits(r) /\ r.lookup \in Lookups /\ Len(r.got) \in Nat
      /\ n \in 1 .. Len(r.lookup.statements) /\ statement \in SUBSET Rows
  <2>1. Fits(r) /\ r.lookup \in Lookups /\ r.got \in Seq(Versions)
    BY <1>1, SoundKinds
  <2>2. Len(r.got) \in Nat /\ Len(r.lookup.statements) \in Nat
    BY <2>1, LookupParts
  <2>3. n \in 1 .. Len(r.lookup.statements)
    BY <1>1, <2>1, <2>2 DEF Fits
  <2> QED
    BY <2>1, <2>2, <2>3, LookupParts
<1>3. UNCHANGED <<rows, key, cache, excused, partial, changes>>
  BY DEF ReadNext, cacheVars
<1>4. ASSUME NEW content, content \in [statement -> Nat], Continue(h, Collecting(r, content)),
             r \in OrderPricing =>
                 \A p \in Range(Products) : Product(p) \in statement => content[Product(p)] >= r.since[p]
      PROVE  MenuInv'
  <2> DEFINE k == Collecting(r, content)
  <2>1. k \in Continuation /\ Sound(k, key, rows)
    BY <1>1, <1>4, CollectingIsSound
  <2>2. k.at # "change"
    <3>1. k.at \in {r.next, "read"}
      BY <1>1, SoundKinds DEF Collecting, MenuReading, OrderPricing
    <3> QED
      BY <1>1, <3>1, SoundKinds
  <2> HIDE DEF k
  <2> QED
    BY <1>1, <1>3, <1>4, <2>1, <2>2, NotChanging, QuietStep DEF MenuInv, MenuState, k
<1>5. CASE Collect(h, Found(statement))
  <2>1. Found(statement) \in [statement -> Nat]
    BY <1>2 DEF Found, MenuInv, MenuState
  <2>2. r \in OrderPricing =>
            \A p \in Range(Products) :
                Product(p) \in statement => Found(statement)[Product(p)] >= r.since[p]
    BY <1>1, SoundKinds, RowKinds DEF Found, PricesAreNew, OrderPricing, MenuInv, MenuState
  <2>3. Continue(h, Collecting(r, Found(statement)))
    BY <1>5 DEF Collect, Collecting
  <2> QED
    BY <1>4, <2>1, <2>2, <2>3
<1>6. CASE Done(h)
  <2>1. Idle \in Continuation /\ Sound(Idle, key, rows) /\ Idle.at # "change" /\ Continue(h, Idle)
    BY <1>6, IdleIsSound DEF Done, Idle
  <2> QED
    BY <1>1, <1>3, <2>1, NotChanging, QuietStep DEF MenuInv, MenuState
<1>7. CASE n > r.lookup.vital /\ Collect(h, Nothing(statement))
  <2>1. Nothing(statement) \in [statement -> Nat]
    BY DEF Nothing
  <2>2. r \notin OrderPricing
    BY <1>1, <1>2, <1>7, SoundKinds, LookupParts DEF PricesAreNew
  <2>3. Continue(h, Collecting(r, Nothing(statement)))
    BY <1>7 DEF Collect, Collecting
  <2> QED
    BY <1>4, <2>1, <2>2, <2>3
<1>8. Collect(h, Found(statement)) \/ Done(h) \/ (n > r.lookup.vital /\ Collect(h, Nothing(statement)))
  BY DEF ReadNext
<1> QED
  BY <1>5, <1>6, <1>7, <1>8, Zenon

LEMMA StoreEntryInv ==
    ASSUME MenuInv, NEW h \in Handlers, StoreEntry(h)
    PROVE  MenuInv'
<1>1. /\ ~At(h, "change")
      /\ req[h] \in MenuReading /\ Fits(req[h]) /\ req[h].lookup = Contents(key)
      /\ req[h].at = "store" /\ req[h].got \in Seq(Versions)
  BY SoundKinds DEF StoreEntry, At, MenuInv
<1>2. EntryShape(req[h].got)
  BY <1>1 DEF EntryShape, Fits
<1>3. Idle \in Continuation /\ Sound(Idle, key, rows) /\ Idle.at # "change" /\ Continue(h, Idle)
  BY IdleIsSound DEF StoreEntry, Done, Idle
<1>4. UNCHANGED <<rows, key, partial, changes>>
  BY DEF StoreEntry
<1>5. CASE cache' = req[h].got /\ excused' = Outdated(req[h].got)
  <2>1. Outdated(cache)' <=> Outdated(req[h].got)
    BY <1>4, <1>5 DEF Outdated
  <2>2. EntryExplained'
    BY <1>5, <2>1, EntryExcused DEF Outdated
  <2>3. excused' \in BOOLEAN
    BY <1>5 DEF Outdated
  <2>4. EntryShape(cache')
    BY <1>2, <1>5
  <2> QED
    BY <1>1, <1>3, <1>4, <2>2, <2>3, <2>4, NotChanging, QuietStep DEF MenuInv, MenuState
<1>6. CASE UNCHANGED <<cache, excused>>
  <2>1. EntryShape(cache')
    BY <1>6 DEF MenuInv
  <2> QED
    BY <1>1, <1>3, <1>4, <1>6, <2>1, NotChanging, QuietStep DEF MenuInv, MenuState
<1> QED
  BY <1>5, <1>6 DEF StoreEntry, SetCache

LEMMA InsertOrderInv ==
    ASSUME MenuInv, NEW h \in Handlers, InsertOrder(h)
    PROVE  MenuInv'
<1>1. ~At(h, "change")
  BY DEF InsertOrder, At
<1>2. Idle \in Continuation /\ Sound(Idle, key, rows) /\ Idle.at # "change" /\ Continue(h, Idle)
  BY IdleIsSound DEF InsertOrder, Done, Idle
<1>3. UNCHANGED <<rows, key, cache, excused, partial, changes>>
  BY DEF InsertOrder, cacheVars
<1> QED
  BY <1>1, <1>2, <1>3, NotChanging, QuietStep DEF MenuInv, MenuState

\* The entry is deleted, or it is kept and excused if it is out of date.
LEMMA EntryDropped ==
    ASSUME MenuInv, DropCache
    PROVE  EntryShape(cache') /\ EntryExplained' /\ excused' \in BOOLEAN
<1>1. cache' = Absent /\ excused' = FALSE
  BY DEF DropCache
<1>2. EntryShape(Absent)
  BY DEF EntryShape, Absent
<1> QED
  BY <1>1, <1>2, EntryExcused

LEMMA EntryKept ==
    ASSUME MenuInv, KeepCache, UNCHANGED rows
    PROVE  EntryShape(cache') /\ EntryExplained' /\ excused' \in BOOLEAN
<1>1. cache' = cache /\ excused' = (excused \/ Outdated(cache))
  BY DEF KeepCache
<1>2. Outdated(cache)' <=> Outdated(cache)
  BY <1>1 DEF Outdated
<1>3. EntryExplained'
  BY <1>1, <1>2, EntryExcused DEF MenuInv, MenuState, Outdated
<1> QED
  BY <1>1, <1>3 DEF MenuInv, MenuState, Outdated

LEMMA InvalidateInv ==
    ASSUME MenuInv, NEW h \in Handlers, Invalidate(h)
    PROVE  MenuInv'
<1>1. \A c \in Range(Combos) : ~Creates(h, c)
  BY DEF Invalidate, Creates, Range
<1>2. Idle \in Continuation /\ Sound(Idle, key, rows) /\ Idle.at # "change" /\ Continue(h, Idle)
  BY IdleIsSound DEF Invalidate, Done, Idle
<1>3. UNCHANGED <<rows, key, partial, changes>>
  BY DEF Invalidate
<1>4. CASE DropCache \/ KeepCache
  <2>1. EntryShape(cache') /\ EntryExplained' /\ excused' \in BOOLEAN
    BY <1>3, <1>4, EntryDropped, EntryKept
  <2> QED
    BY <1>1, <1>2, <1>3, <2>1, QuietStep DEF MenuInv, MenuState
<1>5. CASE key \notin req[h].forgets /\ UNCHANGED <<cache, excused>>
  <2>1. EntryShape(cache') /\ ~Owes(h)
    BY <1>5 DEF MenuInv, Owes
  <2> QED
    BY <1>1, <1>2, <1>3, <1>5, <2>1, QuietStep DEF MenuInv, MenuState
<1> QED
  BY <1>4, <1>5 DEF Invalidate

LEMMA CacheExpiresInv ==
    ASSUME MenuInv, CacheExpires
    PROVE  MenuInv'
<1>1. UNCHANGED <<rows, key, partial, changes, req>>
  BY DEF CacheExpires
<1>2. EntryShape(cache') /\ EntryExplained' /\ excused' \in BOOLEAN
  BY EntryDropped DEF CacheExpires
<1>3. \A c \in Range(Combos) : PartsCounted(c)'
  <2>1. \A g \in Handlers, c \in Range(Combos) : Creates(g, c)' <=> Creates(g, c)
    BY <1>1 DEF Creates, At
  <2> QED
    BY <1>1, <2>1, PartsStay DEF MenuInv
<1>4. MenuState' /\ EntryShape(cache)'
  BY <1>1, <1>2 DEF MenuInv, MenuState, EntryShape
<1>5. \A g \in Handlers : Sound(req[g], key, rows)'
  BY <1>1 DEF MenuInv
<1> QED
  BY <1>2, <1>3, <1>4, <1>5 DEF MenuInv

-----------------------------------------------------------------------------
(* Steps that write a row.                                                 *)

LEMMA LeftRange ==
    ASSUME NEW q \in Seq(Rows), NEW y
    PROVE  y \in Range(q) <=> \E i \in 1 .. Len(q) : q[i] = y
  BY SeqRange

\* The combos' counts when a request begins.
LEMMA BeginParts ==
    ASSUME MenuInv, NEW h \in Handlers, NEW op \in Operation, BeginChange(h, op),
           Grows(rows, rows'),
           rows'[Head(op.writes)] = rows[Head(op.writes)] + 1,
           \A y \in Rows \ {Head(op.writes)} : rows'[y] = rows[y],
           req'[h] = [at |-> "change", left |-> Tail(op.writes), forgets |-> op.forgets],
           \A g \in Handlers \ {h} : req'[g] = req[g],
           NEW c \in Range(Combos)
    PROVE  PartsCounted(c)'
<1> DEFINE x == Head(op.writes)
           left == Tail(op.writes)
<1>1. PartsCounted(c) /\ UNCHANGED partial /\ rows[Combo(c)] \in Nat
  BY RowKinds DEF MenuInv, MenuState, BeginChange
<1>2. /\ left \in Seq(Rows) /\ At(h, "change")' /\ req'[h].left = left
      /\ \A g \in Handlers \ {h} : Creates(g, c)' <=> Creates(g, c)
      /\ ~Creates(h, c)
  BY OperationShape DEF Creates, At, BeginChange, Idle
<1>3. Creates(h, c)' <=> \E i \in 1 .. Len(left) : left[i] = Parts(c)
  BY <1>2, LeftRange DEF Creates
<1> HIDE DEF left, x
<1>4. ASSUME x \notin {Combo(c), Parts(c)}, \A i \in 1 .. Len(left) : left[i] # Parts(c)
      PROVE  PartsCounted(c)'
  <2>1. rows'[Combo(c)] = rows[Combo(c)] /\ rows'[Parts(c)] = rows[Parts(c)]
    BY <1>4, RowKinds DEF x
  <2> QED
    BY <1>1, <1>2, <1>3, <1>4, <2>1, PartsStay
<1>5. ASSUME NEW a, NEW b, NEW n, OneThenMany(op.writes, a, b, n)
      PROVE  x = a /\ Len(left) = n /\ \A i \in 1 .. Len(left) : left[i] = b
  BY <1>5 DEF OneThenMany, x, left
<1>6. CASE \E p \in Range(Products), n \in Nat : OneThenMany(op.writes, Product(p), Links(p), n)
  BY <1>4, <1>5, <1>6, RowKinds
<1>7. CASE \/ OneThenMany(op.writes, Categories, Categories, 0)
           \/ OneThenMany(op.writes, Toppings, Toppings, 0)
  BY <1>4, <1>5, <1>7, RowKinds
<1>8. ASSUME NEW d \in Range(Combos), rows[Combo(d)] = 1,
             OneThenMany(op.writes, Combo(d), Parts(d), Len(Products))
      PROVE  PartsCounted(c)'
  <2>1. x = Combo(d) /\ Len(left) = Len(Products) /\ \A i \in 1 .. Len(left) : left[i] = Parts(d)
    BY <1>5, <1>8
  <2>2. CASE d = c
    <3>1. /\ rows'[Combo(c)] = 2 /\ rows'[Parts(c)] = 1
          /\ \A g \in Handlers \ {h} : ~Creates(g, c)'
      BY <1>1, <1>2, <1>8, <2>1, <2>2, RowKinds DEF PartsCounted, x
    <3>2. Len(Products) \in Nat
      BY ProductsAreListed
    <3>3. Creates(h, c)' \/ Len(left) = 0
      <4>1. Len(left) # 0 => 1 \in 1 .. Len(left)
        BY <2>1, <3>2
      <4> QED
        BY <1>3, <2>1, <2>2, <4>1
    <3>4. \A g \in Handlers : Creates(g, c)' => g = h
      BY <3>1
    <3>5. Creates(h, c)' =>
              /\ \A i \in 1 .. Len(req'[h].left) : req'[h].left[i] = Parts(c)
              /\ rows'[Parts(c)] + Len(req'[h].left) = 1 + Len(Products)
      BY <1>2, <2>1, <2>2, <3>1
    <3>6. (\A g \in Handlers : ~Creates(g, c)') => rows'[Parts(c)] = 1 + Len(Products)
      BY <2>1, <3>1, <3>2, <3>3
    <3>7. \A g \in Handlers : Creates(g, c)' =>
              /\ \A i \in 1 .. Len(req'[g].left) : req'[g].left[i] = Parts(c)
              /\ rows'[Parts(c)] + Len(req'[g].left) = 1 + Len(Products)
      BY <3>4, <3>5
    <3>8. \A g, j \in Handlers : Creates(g, c)' /\ Creates(j, c)' => g = j
      BY <3>4
    <3>9. rows'[Combo(c)] >= 1 /\ rows'[Combo(c)] # 1
      BY <3>1
    <3> QED
      BY <3>6, <3>7, <3>8, <3>9, Zenon DEF PartsCounted, Whole
  <2>3. CASE d # c
    BY <1>4, <2>1, <2>3, RowKinds, RowsDiffer
  <2> QED
    BY <2>2, <2>3
<1>9. ASSUME NEW d \in Range(Combos), rows[Combo(d)] > 1,
             OneThenMany(op.writes, Combo(d), Parts(d), 0)
      PROVE  PartsCounted(c)'
  <2>1. x = Combo(d) /\ \A i \in 1 .. Len(left) : left[i] # Parts(c)
    BY <1>5, <1>9
  <2>2. CASE d = c
    <3>1. rows'[Combo(c)] = rows[Combo(c)] + 1 /\ rows'[Parts(c)] = rows[Parts(c)]
      BY <2>1, <2>2, RowKinds DEF x
    <3> QED
      BY <1>1, <1>2, <1>3, <1>9, <2>1, <2>2, <3>1, PartsOutliveDeletion
  <2>3. CASE d # c
    BY <1>4, <2>1, <2>3, RowKinds, RowsDiffer
  <2> QED
    BY <2>2, <2>3
<1> QED
  BY <1>6, <1>7, <1>8, <1>9, OperationKinds

LEMMA BeginChangeInv ==
    ASSUME MenuInv, NEW h \in Handlers, NEW op \in Operation, BeginChange(h, op)
    PROVE  MenuInv'
<1> DEFINE x == Head(op.writes)
           k == [at |-> "change", left |-> Tail(op.writes), forgets |-> op.forgets]
<1>1. /\ op.writes \in Seq(Rows) /\ op.writes # <<>> /\ Tail(op.writes) \in Seq(Rows)
      /\ op.forgets \subseteq Keys
  BY OperationShape
<1>2. x \in Rows /\ x \in Range(op.writes) /\ Range(Tail(op.writes)) \subseteq Range(op.writes)
  BY <1>1, SeqRange
<1>3. /\ req[h] = Idle /\ changes' = changes + 1 /\ Write(x) /\ Continue(h, k)
      /\ UNCHANGED <<key, cache, excused, partial>>
  BY DEF BeginChange, cacheVars
<1>4. /\ Grows(rows, rows') /\ rows'[x] = rows[x] + 1
      /\ \A y \in Rows \ {x} : rows'[y] = rows[y]
  BY <1>2, <1>3, WriteGrows DEF MenuInv, MenuState
<1>5. k \in MenuChanging /\ k \in Continuation
  BY <1>1 DEF MenuChanging, Continuation
<1>6. DeletionDue(k, key)
  BY <1>2, ChangesForget DEF DeletionDue, Outlives, MenuInv, MenuState
<1>7. Range(k.left) \subseteq Attachments
  <2>1. \A y : y \in Range(k.left) <=> \E i \in 1 .. Len(k.left) : k.left[i] = y
    BY <1>1, SeqRange
  <2>2. \A a, b, n : OneThenMany(op.writes, a, b, n) =>
            Len(k.left) = n /\ \A i \in 1 .. n : k.left[i] = b
    BY DEF OneThenMany
  <2>3. \A i \in 1 .. Len(k.left) : k.left[i] \in Attachments
    <3>1. /\ \A p \in Range(Products) : Links(p) \in Attachments
          /\ \A c \in Range(Combos) : Parts(c) \in Attachments
      BY DEF Attachments
    <3>2. PICK a, b, n : OneThenMany(op.writes, a, b, n) /\ (n = 0 \/ b \in Attachments)
      BY <3>1, OperationKinds, Zenon
    <3>3. Len(k.left) = n /\ (\A i \in 1 .. n : k.left[i] = b) /\ Len(k.left) \in Nat
      BY <1>1, <2>2, <3>2
    <3> HIDE DEF k
    <3> QED
      BY <3>2, <3>3
  <2> QED
    BY <2>1, <2>3
<1>8. Sound(k, key, rows')
  BY <1>5, <1>6, <1>7 DEF Sound
<1>9. /\ req' \in [Handlers -> Continuation] /\ req'[h] = k
      /\ \A g \in Handlers \ {h} : req'[g] = req[g]
      /\ \A g \in Handlers : Sound(req'[g], key', rows')
  BY <1>3, <1>4, <1>5, <1>8, OthersStaySound DEF MenuInv
<1>10. MenuState'
  BY <1>3, <1>4, <1>9 DEF MenuInv, MenuState, Grows
<1>11. EntryShape(cache)'
  BY <1>3 DEF EntryShape, MenuInv
<1>12. EntryExplained'
  <2>1. At(h, "change")' /\ req'[h].forgets = op.forgets
    BY <1>9 DEF At
  <2>2. \A g \in Handlers : Owes(g) => Owes(g)'
    BY <1>3, <1>9 DEF Owes, At, Idle
  <2>3. Shows(key, x) => Owes(h)' \/ Outlives(key, x)
    BY <1>2, <1>3, <2>1, ChangesForget DEF Owes, Outlives, MenuInv, MenuState
  <2> QED
    BY <1>2, <1>3, <1>4, <1>10, <2>2, <2>3, EntryWritten DEF MenuInv
<1>13. ASSUME NEW c \in Range(Combos)
       PROVE  PartsCounted(c)'
  BY <1>4, <1>9, BeginParts
<1> QED
  BY <1>9, <1>10, <1>11, <1>12, <1>13 DEF MenuInv

\* A part whose insertion failed makes its combo partial.
LEMMA MissingCombos ==
    ASSUME NEW q, Range(q) \subseteq Attachments
    PROVE  /\ CombosMissing(q) \subseteq Range(Combos)
           /\ \A c \in Range(Combos) : Parts(c) \in Range(q) => c \in CombosMissing(q)
<1>1. /\ \A p \in Range(Products) : Links(p)[1] # "combo_items"
      /\ \A c \in Range(Combos) : Parts(c)[1] = "combo_items" /\ Parts(c)[2] = c
  BY DEF Links, Parts
<1> QED
  BY <1>1 DEF CombosMissing, Attachments

LEMMA AttachmentsAreNotCombos ==
    ASSUME NEW x \in Attachments, NEW c \in Range(Combos)
    PROVE  x # Combo(c) /\ x \in Rows
  BY RowKinds, RowsDiffer DEF Attachments

\* What is left of the parts, after one of them.
LEMMA WriteNextParts ==
    ASSUME MenuInv, NEW h \in Handlers, NEW c \in Range(Combos),
           req[h] \in MenuChanging, req[h].left # <<>>, Range(req[h].left) \subseteq Attachments,
           \/ /\ rows'[Head(req[h].left)] = rows[Head(req[h].left)] + 1
              /\ \A y \in Rows \ {Head(req[h].left)} : rows'[y] = rows[y]
              /\ UNCHANGED partial
           \/ /\ partial' = partial \cup CombosMissing(<<Head(req[h].left)>>)
              /\ UNCHANGED rows,
           req'[h].at = "change", req'[h].left = Tail(req[h].left),
           \A g \in Handlers \ {h} : req'[g] = req[g]
    PROVE  PartsCounted(c)'
<1> DEFINE left == req[h].left
           x == Head(left)
<1>1. /\ PartsCounted(c) /\ req[h].at = "change" /\ left \in Seq(Rows) /\ left # <<>>
      /\ rows[Combo(c)] \in Nat /\ rows[Parts(c)] \in Nat
  BY RowKinds DEF MenuInv, MenuState, MenuChanging
<1>2. /\ Len(left) \in Nat \ {0} /\ x \in Range(left) /\ left[1] = x
      /\ Tail(left) \in Seq(Rows) /\ Len(Tail(left)) = Len(left) - 1
      /\ Range(Tail(left)) \subseteq Range(left)
      /\ \A i \in 1 .. Len(left) - 1 : Tail(left)[i] = left[i + 1]
  BY <1>1, SeqRange
<1>3. x \in Attachments /\ x # Combo(c)
  BY <1>2, AttachmentsAreNotCombos
<1>4. \A g \in Handlers \ {h} : Creates(g, c)' <=> Creates(g, c)
  BY DEF Creates, At
<1>5. /\ Creates(h, c) <=> Parts(c) \in Range(left)
      /\ Creates(h, c)' <=> Parts(c) \in Range(Tail(left))
  BY <1>1 DEF Creates, At
<1>6. rows'[Combo(c)] = rows[Combo(c)] /\ partial \subseteq partial'
  BY <1>3, RowKinds
<1>7. CASE ~Creates(h, c)
  <2>1. ~Creates(h, c)' /\ x # Parts(c)
    BY <1>2, <1>5, <1>7
  <2>2. rows'[Parts(c)] = rows[Parts(c)]
    BY <2>1, RowKinds
  <2> QED
    BY <1>1, <1>4, <1>6, <1>7, <2>1, <2>2, PartsStay
<1>8. CASE Creates(h, c)
  <2>1. /\ rows[Combo(c)] # 1 /\ rows[Combo(c)] >= 1
        /\ \A i \in 1 .. Len(left) : left[i] = Parts(c)
        /\ c \notin partial => rows[Parts(c)] + Len(left) = 1 + Len(Products)
        /\ \A g \in Handlers \ {h} : ~Creates(g, c)'
    BY <1>1, <1>4, <1>8 DEF PartsCounted
  <2>2. x = Parts(c) /\ \A i \in 1 .. Len(Tail(left)) : Tail(left)[i] = Parts(c)
    BY <1>2, <2>1
  <2>3. Creates(h, c)' \/ Len(Tail(left)) = 0
    <3>1. Len(Tail(left)) # 0 => 1 \in 1 .. Len(Tail(left))
      BY <1>2
    <3> QED
      BY <1>2, <1>5, <2>2, <3>1, LeftRange
  <2>4. c \notin partial' =>
            c \notin partial /\ rows'[Parts(c)] + Len(Tail(left)) = 1 + Len(Products)
    <3>1. CASE rows'[x] = rows[x] + 1 /\ UNCHANGED partial
      <4>1. rows'[Parts(c)] = rows[Parts(c)] + 1 /\ partial' = partial
        BY <2>2, <3>1
      <4>2. rows[Parts(c)] \in Nat /\ Len(left) \in Nat /\ Len(Tail(left)) = Len(left) - 1
        BY <1>1, <1>2
      <4>3. Len(Products) \in Nat
        BY ProductsAreListed
      <4> HIDE DEF left, x
      <4> QED
        BY <2>1, <4>1, <4>2, <4>3
    <3>2. CASE partial' = partial \cup CombosMissing(<<x>>)
      <4>1. Range(<<x>>) = {x}
        BY DEF Range
      <4>2. c \in CombosMissing(<<x>>)
        BY <1>3, <2>2, <4>1, MissingCombos
      <4> QED
        BY <3>2, <4>2
    <3> QED
      BY <3>1, <3>2
  <2>5. \A g \in Handlers : Creates(g, c)' => g = h
    BY <2>1
  <2>6. \A g \in Handlers : Creates(g, c)' =>
            /\ \A i \in 1 .. Len(req'[g].left) : req'[g].left[i] = Parts(c)
            /\ c \notin partial' => rows'[Parts(c)] + Len(req'[g].left) = 1 + Len(Products)
    BY <2>2, <2>4, <2>5
  <2>7. c \notin partial' /\ (\A g \in Handlers : ~Creates(g, c)') => rows'[Parts(c)] = 1 + Len(Products)
    <3>1. rows'[Parts(c)] \in Nat
      <4>1. rows'[x] \in Nat
        BY <1>1, <2>2
      <4> QED
        BY <2>2, <4>1
    <3>2. SUFFICES ASSUME c \notin partial', \A g \in Handlers : ~Creates(g, c)'
                   PROVE  rows'[Parts(c)] = 1 + Len(Products)
      OBVIOUS
    <3>3. Len(Tail(left)) = 0
      BY <2>3, <3>2, Zenon
    <3>4. rows'[Parts(c)] + Len(Tail(left)) = 1 + Len(Products)
      BY <2>4, <3>2, Zenon
    <3>5. \A a, b \in Nat : a + 0 = b => a = b
      OBVIOUS
    <3>6. 1 + Len(Products) \in Nat
      BY ProductsAreListed
    <3> QED
      BY <3>1, <3>3, <3>4, <3>5, <3>6, Zenon
  <2>8. \A g, j \in Handlers : Creates(g, c)' /\ Creates(j, c)' => g = j
    BY <2>5
  <2>9. rows'[Combo(c)] >= 1 /\ rows'[Combo(c)] # 1
    BY <1>6, <2>1
  <2> QED
    BY <2>6, <2>7, <2>8, <2>9, Zenon DEF PartsCounted, Whole
<1> QED
  BY <1>7, <1>8

LEMMA WriteNextInv ==
    ASSUME MenuInv, NEW h \in Handlers, WriteNext(h)
    PROVE  MenuInv'
<1> DEFINE r == req[h]
           x == Head(r.left)
           k == [r EXCEPT !.left = Tail(r.left)]
<1>1. /\ r.at = "change" /\ r.left # <<>> /\ Continue(h, k)
      /\ UNCHANGED <<key, cache, excused, changes>>
  BY DEF WriteNext, At, cacheVars
<1>2. r \in MenuChanging /\ DeletionDue(r, key) /\ Range(r.left) \subseteq Attachments
  BY <1>1, SoundKinds DEF MenuInv
<1>3. /\ r.left \in Seq(Rows) /\ x \in Rows /\ x \in Range(r.left)
      /\ Tail(r.left) \in Seq(Rows) /\ Range(Tail(r.left)) \subseteq Range(r.left)
  BY <1>1, <1>2, SeqRange DEF MenuChanging
<1>4. /\ k \in MenuChanging /\ k.left = Tail(r.left) /\ k.forgets = r.forgets /\ k.at = "change"
  BY <1>2, <1>3 DEF MenuChanging
<1> HIDE DEF k
<1>5. k \in Continuation /\ Sound(k, key, rows')
  BY <1>2, <1>3, <1>4 DEF Sound, DeletionDue, Continuation
<1>6. \/ /\ Grows(rows, rows') /\ rows'[x] = rows[x] + 1
         /\ \A y \in Rows \ {x} : rows'[y] = rows[y]
         /\ UNCHANGED partial
      \/ /\ Grows(rows, rows') /\ UNCHANGED rows
         /\ partial' = partial \cup CombosMissing(<<x>>)
  <2>1. CASE Write(x) /\ UNCHANGED partial
    BY <1>3, <2>1, WriteGrows DEF MenuInv, MenuState
  <2>2. CASE partial' = partial \cup CombosMissing(<<x>>) /\ UNCHANGED rows
    BY <2>2, StaysGrown DEF MenuInv, MenuState
  <2> QED
    BY <2>1, <2>2 DEF WriteNext
<1>7. /\ req' \in [Handlers -> Continuation] /\ req'[h] = k
      /\ \A g \in Handlers \ {h} : req'[g] = req[g]
      /\ \A g \in Handlers : Sound(req'[g], key', rows')
  BY <1>1, <1>5, <1>6, OthersStaySound DEF MenuInv
<1>8. MenuState'
  <2>1. Range(<<x>>) \subseteq Attachments
    BY <1>2, <1>3 DEF Range
  <2>2. partial' \subseteq Range(Combos)
    BY <1>6, <2>1, MissingCombos DEF MenuInv, MenuState
  <2>3. rows' \in [Rows -> Nat]
    BY <1>6 DEF Grows
  <2> QED
    BY <1>1, <1>7, <2>2, <2>3 DEF MenuInv, MenuState
<1>9. EntryShape(cache)'
  BY <1>1 DEF EntryShape, MenuInv
<1>10. EntryExplained'
  <2>1. \A g \in Handlers : Owes(g)' <=> Owes(g)
    BY <1>1, <1>4, <1>7 DEF Owes, At
  <2>2. CASE \A y \in Rows \ {x} : rows'[y] = rows[y]
    <3>1. Shows(key, x) => Owes(h)' \/ Outlives(key, x)
      BY <1>1, <1>2, <1>3, <2>1 DEF DeletionDue, Owes, At
    <3> QED
      BY <1>1, <1>3, <1>8, <2>1, <2>2, <3>1, EntryWritten DEF MenuInv
  <2> QED
    BY <1>6, <2>2
<1>11. ASSUME NEW c \in Range(Combos)
       PROVE  PartsCounted(c)'
  BY <1>1, <1>2, <1>4, <1>6, <1>7, WriteNextParts
<1> QED
  BY <1>7, <1>8, <1>9, <1>10, <1>11 DEF MenuInv

LEMMA FailInv ==
    ASSUME MenuInv, NEW h \in Handlers, Fail(h)
    PROVE  MenuInv'
<1>1. Continue(h, Idle) /\ UNCHANGED <<rows, key, changes>>
  BY DEF Fail, Done
<1>2. Grows(rows, rows')
  BY <1>1, StaysGrown DEF MenuInv, MenuState
<1>3. /\ req' \in [Handlers -> Continuation] /\ req'[h] = Idle
      /\ \A g \in Handlers \ {h} : req'[g] = req[g]
      /\ \A g \in Handlers : Sound(req'[g], key', rows')
  BY <1>1, <1>2, IdleIsSound, OthersStaySound DEF MenuInv
<1>4. At(h, "change") => Range(req[h].left) \subseteq Attachments
  BY SoundKinds DEF At, MenuInv
<1>5. /\ partial \subseteq partial' /\ partial' \subseteq Range(Combos)
      /\ \A c \in Range(Combos) : Creates(h, c) => c \in partial'
  BY <1>4, MissingCombos DEF Fail, Creates, MenuInv, MenuState
<1>6. EntryShape(cache') /\ EntryExplained' /\ excused' \in BOOLEAN
  <2>1. CASE Owes(h)
    BY <1>1, <2>1, EntryKept DEF Fail
  <2>2. CASE ~Owes(h)
    <3>1. UNCHANGED <<rows, key, cache, excused>>
      BY <1>1, <2>2 DEF Fail
    <3>2. \A g \in Handlers : Owes(g) => Owes(g)'
      BY <1>3, <2>2, <3>1 DEF Owes, At
    <3>3. EntryExplained'
      BY <3>1, <3>2, EntryStays DEF MenuInv
    <3> QED
      BY <3>1, <3>3 DEF MenuInv, MenuState
  <2> QED
    BY <2>1, <2>2
<1>7. MenuState' /\ EntryShape(cache)'
  BY <1>1, <1>3, <1>5, <1>6 DEF MenuInv, MenuState, EntryShape
<1>8. ASSUME NEW c \in Range(Combos)
      PROVE  PartsCounted(c)'
  <2>1. /\ ~Creates(h, c)'
        /\ \A g \in Handlers \ {h} : Creates(g, c)' <=> Creates(g, c)
    BY <1>3 DEF Creates, At, Idle
  <2>2. PartsCounted(c)
    BY DEF MenuInv
  <2>3. CASE ~Creates(h, c)
    BY <1>1, <1>3, <1>5, <2>1, <2>2, <2>3, PartsStay
  <2>4. CASE Creates(h, c)
    <3>1. \A g \in Handlers : ~Creates(g, c)'
      BY <2>1, <2>2, <2>4 DEF PartsCounted
    <3>2. rows'[Combo(c)] >= 1 /\ rows'[Combo(c)] # 1 /\ c \in partial'
      BY <1>1, <1>5, <2>2, <2>4 DEF PartsCounted
    <3> QED
      BY <3>1, <3>2 DEF PartsCounted
  <2> QED
    BY <2>3, <2>4
<1> QED
  BY <1>3, <1>6, <1>7, <1>8 DEF MenuInv

-----------------------------------------------------------------------------
(* Theorems.                                                               *)

THEOREM MenuInvariant == MenuSpec => []MenuInv
<1>1. MenuInit => MenuInv
  <2> SUFFICES ASSUME MenuInit
               PROVE  MenuInv
    OBVIOUS
  <2>1. MenuState
    BY DEF MenuInit, MenuState, Continuation
  <2>2. EntryShape(cache)
    BY DEF MenuInit, EntryShape, Absent
  <2>3. \A h \in Handlers : Sound(req[h], key, rows) /\ ~At(h, "change")
    BY IdleIsSound DEF MenuInit, At, Idle
  <2>4. EntryExplained
    BY DEF MenuInit, EntryExplained, Absent
  <2>5. ASSUME NEW c \in Range(Combos)
        PROVE  PartsCounted(c)
    <3>1. rows[Combo(c)] = 1 /\ rows[Parts(c)] = 1 /\ \A h \in Handlers : ~Creates(h, c)
      BY <2>3, RowKinds DEF MenuInit, Creates
    <3> QED
      BY <3>1 DEF PartsCounted
  <2> QED
    BY <2>1, <2>2, <2>3, <2>4, <2>5 DEF MenuInv
<1>2. MenuInv /\ [MenuNext]_menuVars => MenuInv'
  <2> SUFFICES ASSUME MenuInv, [MenuNext]_menuVars
               PROVE  MenuInv'
    OBVIOUS
  <2>1. CASE UNCHANGED menuVars
    BY <2>1 DEF menuVars, cacheVars, MenuInv, MenuState, EntryShape, EntryExplained, Owes, At,
       NotForgotten, PartsCounted, Creates, Whole
  <2>2. ASSUME NEW h \in Handlers, Start(h)
        PROVE  MenuInv'
    BY <2>2, CacheMissInv, OrderProductInv, OrderComboInv, BeginChangeInv DEF Start
  <2>3. ASSUME NEW h \in Handlers, Proceed(h)
        PROVE  MenuInv'
    BY <2>3, ReadNextInv, StoreEntryInv, InsertOrderInv, WriteNextInv, InvalidateInv DEF Proceed
  <2> QED
    BY <2>1, <2>2, <2>3, FailInv, CacheExpiresInv DEF MenuNext
<1> QED
  BY <1>1, <1>2, PTL DEF MenuSpec

\* Rows, the entry and what the handlers carry keep their shape; an entry has a part for
\* each statement of its request.
THEOREM MenuTypeCorrect == MenuSpec => []MenuTypeOK
<1>1. MenuInv => MenuTypeOK
  <2> SUFFICES ASSUME MenuInv
               PROVE  MenuTypeOK
    OBVIOUS
  <2>1. cache # Absent =>
            Entry(Contents(key), cache) /\ Len(cache) = Len(Contents(key).statements)
    <3>1. cache \in Seq(Versions) /\ DOMAIN cache = 1 .. Len(cache) /\ Len(cache) \in Nat
      BY DEF MenuInv, EntryShape
    <3> QED
      BY <3>1 DEF MenuInv, EntryShape, Entry
  <2>2. ASSUME NEW h \in Handlers
        PROVE  /\ req[h].at \in {"idle", "read", "store", "insert", "change"}
               /\ req[h].at \notin {"idle", "change"} => Entry(req[h].lookup, req[h].got)
               /\ req[h].at = "change" => /\ Range(req[h].left) \subseteq Rows
                                          /\ req[h].forgets \subseteq Keys
    <3>1. req[h] \in Continuation /\ Sound(req[h], key, rows)
      BY DEF MenuInv, MenuState
    <3>2. req[h].at \in {"idle", "read", "store", "insert", "change"}
      BY <3>1 DEF Continuation, Idle, MenuReading, OrderPricing, MenuChanging
    <3>3. CASE req[h].at \in {"read", "store", "insert"}
      <4>1. /\ Fits(req[h]) /\ req[h].lookup \in Lookups /\ req[h].got \in Seq(Versions)
        BY <3>1, <3>3, SoundKinds
      <4>2. /\ Len(req[h].got) \in Nat /\ DOMAIN req[h].got = 1 .. Len(req[h].got)
            /\ Len(req[h].lookup.statements) \in Nat
        BY <4>1, LookupParts
      <4> QED
        BY <3>3, <4>1, <4>2 DEF Fits, Entry
    <3>4. CASE req[h].at = "change"
      <4>1. req[h] \in MenuChanging
        BY <3>1, <3>4, SoundKinds
      <4> QED
        BY <3>4, <4>1, SeqRange DEF MenuChanging
    <3> QED
      BY <3>2, <3>3, <3>4
  <2> QED
    BY <2>1, <2>2 DEF MenuTypeOK, MenuInv, MenuState
<1> QED
  BY <1>1, MenuInvariant, PTL

\* The menu that is served from Redis is out of date only for one of the reasons that
\* EntryExplained names.
THEOREM StaleMenusAreExplained == MenuSpec => []EntryExplained
<1>1. MenuInv => EntryExplained
  BY DEF MenuInv
<1> QED
  BY <1>1, MenuInvariant, PTL

\* An order line is priced from product rows at least as new as its request.
THEOREM PricesAreCurrent == MenuSpec => []PricedFromRows
<1>1. MenuInv => PricedFromRows
  <2> SUFFICES ASSUME MenuInv, NEW h \in Handlers, req[h].at = "insert",
                      NEW i \in DOMAIN req[h].got, NEW p \in Range(Products),
                      Product(p) \in DOMAIN req[h].got[i]
               PROVE  req[h].got[i][Product(p)] >= req[h].since[p]
    BY DEF PricedFromRows, At
  <2>1. Fits(req[h]) /\ PricesAreNew(req[h], rows) /\ req[h].got \in Seq(Versions)
    BY SoundKinds DEF MenuInv
  <2>2. i \in 1 .. Len(req[h].got)
    BY <2>1
  <2>3. DOMAIN req[h].got[i] = req[h].lookup.statements[i]
    BY <2>1, <2>2 DEF Fits
  <2> QED
    BY <2>1, <2>2, <2>3 DEF PricesAreNew
<1> QED
  BY <1>1, MenuInvariant, PTL

\* A listed combo lacks parts only while it is being created or when a part failed.
THEOREM CombosAreWhole == MenuSpec => []ListedMeansWhole
<1>1. MenuInv => ListedMeansWhole
  BY DEF MenuInv, PartsCounted, ListedMeansWhole, Listed, Creates
<1> QED
  BY <1>1, MenuInvariant, PTL
=============================================================================
