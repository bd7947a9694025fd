--------------------------- MODULE CatalogueProofs ---------------------------
(***************************************************************************)
(* What Catalogue promises whatever the categories, stores, products,      *)
(* menus and requests are.                                                 *)
(***************************************************************************)
EXTENDS Catalogue, TLAPS

Building == {"insert", "rewrite"}

\* The rows a request works on exist: stores and products are never deleted.
Sound(x) ==
  /\ x.at = "move" => store[x.store] # Nothing
  /\ x.at \in Building => store[x.row.store] # Nothing
  /\ x.at = "rewrite" => /\ product[x.product] # Nothing
                         /\ product[x.product].store = x.row.store

RowsExist ==
  /\ \A p \in Products : product[p] # Nothing => store[product[p].store] # Nothing
  /\ \A r \in Requests : Sound(req[r])

Typed == TypeOK /\ RowsExist

\* A request in a given stage has the fields of that stage.
LEMMA StageType ==
  ASSUME TypeOK, NEW r \in Requests
  PROVE  /\ req[r].at = "reset" =>
              req[r] \in [at : {"reset"}, category : Categories, was : Mode,
                          mode : Mode]
         /\ req[r].at = "drop" => req[r] \in [at : {"drop"}, category : Categories]
         /\ req[r].at = "open" => req[r] \in [at : {"open"}, row : Store]
         /\ req[r].at = "move" =>
              req[r] \in [at : {"move"}, store : Stores, category : Categories,
                          mode : Mode]
         /\ req[r].at = "insert" => req[r] \in [at : {"insert"}, row : Product]
         /\ req[r].at = "rewrite" =>
              req[r] \in [at : {"rewrite"}, product : Products, row : Product,
                          setsPreOrder : BOOLEAN]
         /\ req[r].at = "menu" => req[r] \in [at : {"menu"}, store : Stores]
         /\ req[r].at = "delete" => req[r] \in [at : {"delete"}, menu : Menus]
  BY DEF TypeOK, Request, Idle

LEMMA RowFields ==
  ASSUME TypeOK
  PROVE  /\ \A s \in Stores : store[s] # Nothing => store[s] \in Store
         /\ \A p \in Products : product[p] # Nothing => product[p] \in Product
         /\ \A c \in Categories : category[c] # Nothing => category[c] \in Mode
  BY DEF TypeOK

\* Taking misfits off sale changes no other column.
LEMMA HiddenType ==
  ASSUME TypeOK, NEW S \in SUBSET Products, NEW mode,
         \A p \in S : product[p] # Nothing
  PROVE  /\ Hidden(S, mode) \in [Products -> Product \cup {Nothing}]
         /\ \A p \in Products :
              /\ Hidden(S, mode)[p] = Nothing <=> product[p] = Nothing
              /\ product[p] # Nothing =>
                   /\ Hidden(S, mode)[p].store = product[p].store
                   /\ Hidden(S, mode)[p].category = product[p].category
                   /\ Hidden(S, mode)[p].managed = product[p].managed
                   /\ Hidden(S, mode)[p].kind = product[p].kind
                   /\ Hidden(S, mode)[p].menu = product[p].menu
<1> DEFINE h == Hidden(S, mode)
<1>1. \A p \in Products :
        h[p] = product[p] \/ /\ product[p] # Nothing
                             /\ h[p] = [product[p] EXCEPT !.isActive = FALSE]
  BY DEF Hidden
<1>2. h = [p \in Products |-> h[p]]
  BY DEF Hidden
<1> HIDE DEF h
<1>3. SUFFICES ASSUME NEW p \in Products
               PROVE  /\ h[p] \in Product \cup {Nothing}
                      /\ h[p] = Nothing <=> product[p] = Nothing
                      /\ product[p] # Nothing =>
                           /\ h[p].store = product[p].store
                           /\ h[p].category = product[p].category
                           /\ h[p].managed = product[p].managed
                           /\ h[p].kind = product[p].kind
                           /\ h[p].menu = product[p].menu
  <2>1. (\A p \in Products : h[p] \in Product \cup {Nothing})
          => h \in [Products -> Product \cup {Nothing}]
    BY <1>2
  <2> QED
    BY <2>1 DEF h
<1>4. CASE h[p] = product[p]
  BY <1>4 DEF TypeOK
<1>5. CASE product[p] # Nothing /\ h[p] = [product[p] EXCEPT !.isActive = FALSE]
  <2>1. product[p] \in Product
    BY <1>5, RowFields
  <2>2. h[p] \in Product
    BY <2>1, <1>5 DEF Product
  <2> QED
    BY <2>1, <2>2, <1>5, CatalogueAssumption DEF Product
<1> QED
  BY <1>1, <1>4, <1>5

\* No step removes a store or a product, or moves a product to another store.
LEMMA KeepRows ==
  ASSUME Typed, TypeOK',
         \A s \in Stores : store[s] # Nothing => store'[s] # Nothing,
         \A p \in Products : product[p] # Nothing =>
           product'[p] # Nothing /\ product'[p].store = product[p].store,
         \A p \in Products : product[p] = Nothing /\ product'[p] # Nothing =>
           store[product'[p].store] # Nothing,
         \A r \in Requests : req'[r] = req[r] \/ Sound(req'[r])
  PROVE  RowsExist'
<1>1. ASSUME NEW p \in Products, product'[p] # Nothing
      PROVE  store'[product'[p].store] # Nothing
  <2>1. product'[p].store \in Stores
    BY <1>1 DEF TypeOK, Product
  <2>2. store[product'[p].store] # Nothing
    BY <1>1 DEF Typed, RowsExist
  <2> QED
    BY <2>1, <2>2
<1>2. ASSUME NEW r \in Requests
      PROVE  Sound(req[r])'
  <2>1. Sound(req'[r])
    BY DEF Typed, RowsExist
  <2>2. /\ req'[r].at = "move" => req'[r].store \in Stores
        /\ req'[r].at \in Building => req'[r].row \in Product
        /\ req'[r].at = "rewrite" => req'[r].product \in Products
    BY DEF TypeOK, Request, Idle, Building
  <2> QED
    BY <2>1, <2>2 DEF Sound, Building, Product
<1> QED
  BY <1>1, <1>2 DEF RowsExist

\* A step that changes one request only.
LEMMA Moves ==
  ASSUME Typed, NEW r \in Requests, NEW x \in Request, Go(r, x), Sound(x),
         UNCHANGED <<category, store, product, menu>>
  PROVE  Typed'
<1>1. TypeOK'
  BY DEF Typed, TypeOK, Go
<1>2. \A t \in Requests : req'[t] = req[t] \/ Sound(req'[t])
  BY DEF Typed, TypeOK, Go
<1> QED
  BY <1>1, <1>2, KeepRows DEF Typed

LEMMA RowType ==
  ASSUME TypeOK, NEW s \in Stores, store[s] # Nothing, NEW kind \in Kind,
         NEW m \in Menus \cup {Nothing}, NEW b \in BOOLEAN
  PROVE  Row(s, kind, m, b) \in Product /\ Row(s, kind, m, b).store = s
  BY RowFields, Zenon DEF Row, Product, Store

\* What updateAdminStore reads is what the move of a store reads.
LEMMA OnlyMoves ==
  \A r \in Requests, s \in Stores, c \in Categories :
    UpdateAdminStore(r, s, c) => MoveRead(r, s, c)
  BY DEF UpdateAdminStore

LEMMA TypedBegin ==
  ASSUME Typed, NEW r \in Requests, Begin(r)
  PROVE  Typed'
<1>1. ASSUME NEW c \in Categories, NEW mode \in Mode, UpdateCategoryRead(r, c, mode)
      PROVE  Typed'
  <2> DEFINE x == [at |-> "reset", category |-> c, was |-> category[c],
                   mode |-> mode]
  <2>1. category[c] \in Mode
    BY <1>1, RowFields DEF UpdateCategoryRead, Typed
  <2>2. x \in Request /\ Sound(x)
    BY <2>1 DEF Request, Sound, Building
  <2> QED
    BY <1>1, <2>2, Moves DEF UpdateCategoryRead
<1>2. ASSUME NEW c \in Categories, RemoveCategoryRead(r, c)
      PROVE  Typed'
  <2> DEFINE x == [at |-> "drop", category |-> c]
  <2>1. x \in Request /\ Sound(x)
    BY DEF Request, Sound, Building
  <2> QED
    BY <1>2, <2>1, Moves DEF RemoveCategoryRead
<1>3. ASSUME NEW c \in Categories, NEW managed \in BOOLEAN, OpenRead(r, c, managed)
      PROVE  Typed'
  <2> DEFINE row == [category |-> c, mode |-> category[c], managed |-> managed]
             x == [at |-> "open", row |-> row]
  <2>1. row \in Store
    BY <1>3, RowFields DEF OpenRead, Typed, Store
  <2> HIDE DEF row
  <2>2. x \in Request /\ Sound(x)
    BY <2>1 DEF Request, Sound, Building
  <2> QED
    BY <1>3, <2>2, Moves DEF OpenRead, row
<1>4. ASSUME NEW c \in Categories, NEW s \in Stores, MoveRead(r, s, c)
      PROVE  Typed'
  <2> DEFINE x == [at |-> "move", store |-> s, category |-> c, mode |-> category[c]]
  <2>1. category[c] \in Mode
    BY <1>4, RowFields DEF MoveRead, Typed
  <2>2. x \in Request /\ Sound(x)
    BY <1>4, <2>1 DEF Request, Sound, Building, MoveRead
  <2> QED
    BY <1>4, <2>2, Moves DEF MoveRead
<1>5. ASSUME NEW s \in Stores, NEW kind \in Kind, NEW m \in Menus \cup {Nothing},
             NEW b \in BOOLEAN, CreateRead(r, s, kind, m, b)
      PROVE  Typed'
  <2> DEFINE x == [at |-> "insert", row |-> Row(s, kind, m, b)]
  <2>1. Row(s, kind, m, b) \in Product /\ Row(s, kind, m, b).store = s
    BY <1>5, RowType DEF CreateRead, Typed
  <2>2. x \in Request /\ Sound(x)
    BY <1>5, <2>1 DEF Request, Sound, Building, CreateRead
  <2> QED
    BY <1>5, <2>2, Moves DEF CreateRead
<1>6. ASSUME NEW p \in Products, NEW kind \in Kind,
             NEW m \in Menus \cup {Nothing}, NEW b \in BOOLEAN,
             NEW sets \in BOOLEAN, UpdateRead(r, p, kind, m, b, sets)
      PROVE  Typed'
  <2> DEFINE s == product[p].store
             x == [at |-> "rewrite", product |-> p, setsPreOrder |-> sets,
                   row |-> Row(s, kind, m, b)]
  <2>1. s \in Stores /\ store[s] # Nothing /\ product[p] # Nothing
    BY <1>6, RowFields DEF UpdateRead, Typed, RowsExist, Product
  <2>2. Row(s, kind, m, b) \in Product /\ Row(s, kind, m, b).store = s
    BY <2>1, RowType DEF Typed
  <2>3. x \in Request /\ Sound(x)
    BY <2>1, <2>2 DEF Request, Sound, Building
  <2> QED
    BY <1>6, <2>3, Moves DEF UpdateRead
<1>7. ASSUME NEW s \in Stores, CreateMenuRead(r, s)
      PROVE  Typed'
  <2> DEFINE x == [at |-> "menu", store |-> s]
  <2>1. x \in Request /\ Sound(x)
    BY DEF Request, Sound, Building
  <2> QED
    BY <1>7, <2>1, Moves DEF CreateMenuRead
<1>8. ASSUME NEW m \in Menus, RemoveMenuDetach(r, m)
      PROVE  Typed'
  <2> DEFINE x == [at |-> "delete", menu |-> m]
  <2>1. x \in Request /\ Sound(x)
    BY DEF Request, Sound, Building
  <2>2. \A p \in Products :
          \/ product'[p] = product[p]
          \/ /\ product[p] \in Product
             /\ product'[p] = [product[p] EXCEPT !.menu = Nothing]
    BY <1>8, RowFields DEF RemoveMenuDetach, Typed
  <2>3. \A p \in Products : product[p] \in Product =>
          LET q == [product[p] EXCEPT !.menu = Nothing]
          IN  q \in Product /\ q.store = product[p].store
    BY DEF Product
  <2>4. product' \in [Products -> Product \cup {Nothing}]
    BY <1>8, <2>2, <2>3 DEF RemoveMenuDetach, Typed, TypeOK
  <2>5. TypeOK'
    BY <1>8, <2>1, <2>4 DEF RemoveMenuDetach, Go, Typed, TypeOK
  <2>6. \A t \in Requests : req'[t] = req[t] \/ Sound(req'[t])
    BY <1>8, <2>1 DEF RemoveMenuDetach, Go, Typed, TypeOK
  <2>7. \A p \in Products :
          /\ product[p] = Nothing => product'[p] = Nothing
          /\ product[p] # Nothing =>
               product'[p] # Nothing /\ product'[p].store = product[p].store
    BY <1>8, <2>2, <2>3, CatalogueAssumption DEF RemoveMenuDetach
  <2>8. store' = store
    BY <1>8 DEF RemoveMenuDetach
  <2> QED
    BY <2>5, <2>6, <2>7, <2>8, KeepRows DEF Typed
<1> QED
  BY <1>1, <1>2, <1>3, <1>4, <1>5, <1>6, <1>7, <1>8, OnlyMoves DEF Begin

LEMMA TypedStep ==
  ASSUME Typed, NEW r \in Requests, Step(r)
  PROVE  Typed'
<1> USE DEF Typed
<1>0. Idle \in Request /\ Sound(Idle)
  BY DEF Request, Idle, Sound, Building
<1>1. ASSUME UpdateCategoryCommit(r)
      PROVE  Typed'
  <2> DEFINE c == req[r].category
             mode == req[r].mode
             h == Hidden(ProductsIn(c), mode)
  <2>1. c \in Categories /\ mode \in Mode
    BY <1>1, StageType DEF UpdateCategoryCommit
  <2>2. ProductsIn(c) \in SUBSET Products /\ \A p \in ProductsIn(c) : product[p] # Nothing
    BY DEF ProductsIn
  <2>3. /\ h \in [Products -> Product \cup {Nothing}]
        /\ \A p \in Products :
             /\ h[p] = Nothing <=> product[p] = Nothing
             /\ product[p] # Nothing => h[p].store = product[p].store
    BY <2>2, HiddenType
  <2> HIDE DEF h
  <2>4. product' = h
    BY <1>1 DEF UpdateCategoryCommit, h
  <2>5. \A s \in Stores :
          \/ store'[s] = store[s]
          \/ /\ store[s] \in Store
             /\ store'[s] = [store[s] EXCEPT !.mode = mode]
    BY <1>1, RowFields DEF UpdateCategoryCommit, Remode, StoresIn
  <2>6. \A x \in Store : [x EXCEPT !.mode = mode] \in Store
    BY <2>1 DEF Store
  <2>7. store' \in [Stores -> Store \cup {Nothing}]
    BY <1>1, <2>5, <2>6 DEF UpdateCategoryCommit, Remode, TypeOK
  <2>8. category' \in [Categories -> Mode \cup {Nothing}]
    BY <1>1, <2>1 DEF UpdateCategoryCommit, TypeOK
  <2>9. TypeOK'
    BY <1>0, <1>1, <2>3, <2>4, <2>7, <2>8 DEF UpdateCategoryCommit, Go, TypeOK
  <2>10. \A t \in Requests : req'[t] = req[t] \/ Sound(req'[t])
    BY <1>0, <1>1 DEF UpdateCategoryCommit, Go, TypeOK
  <2>11. \A s \in Stores : store[s] # Nothing => store'[s] # Nothing
    BY <2>5, <2>6, CatalogueAssumption
  <2> QED
    BY <2>3, <2>4, <2>9, <2>10, <2>11, KeepRows
<1>2. ASSUME RemoveCategoryDelete(r)
      PROVE  Typed'
  <2>1. TypeOK'
    BY <1>0, <1>2 DEF RemoveCategoryDelete, Go, TypeOK
  <2>2. \A t \in Requests : req'[t] = req[t] \/ Sound(req'[t])
    BY <1>0, <1>2 DEF RemoveCategoryDelete, Go, TypeOK
  <2> QED
    BY <1>2, <2>1, <2>2, KeepRows DEF RemoveCategoryDelete
<1>3. ASSUME NEW s \in Stores, OpenCommit(r, s)
      PROVE  Typed'
  <2>1. req[r].row \in Store
    BY <1>3, StageType DEF OpenCommit
  <2>2. TypeOK'
    BY <1>0, <1>3, <2>1 DEF OpenCommit, Go, TypeOK
  <2>3. \A t \in Requests : req'[t] = req[t] \/ Sound(req'[t])
    BY <1>0, <1>3 DEF OpenCommit, Go, TypeOK
  <2>4. \A t \in Stores : store[t] # Nothing => store'[t] # Nothing
    BY <1>3 DEF OpenCommit, TypeOK
  <2> QED
    BY <1>3, <2>2, <2>3, <2>4, KeepRows DEF OpenCommit
<1>4. ASSUME MoveCommit(r)
      PROVE  Typed'
  <2> DEFINE s == req[r].store
             c == req[r].category
             mode == req[r].mode
             h == Hidden(ProductsOf(s), mode)
  <2>1. s \in Stores /\ c \in Categories /\ mode \in Mode /\ store[s] \in Store
    BY <1>4, StageType, RowFields DEF MoveCommit, RowsExist, Sound
  <2>2. ProductsOf(s) \in SUBSET Products /\ \A p \in ProductsOf(s) : product[p] # Nothing
    BY DEF ProductsOf
  <2>3. /\ h \in [Products -> Product \cup {Nothing}]
        /\ \A p \in Products :
             /\ h[p] = Nothing <=> product[p] = Nothing
             /\ product[p] # Nothing => h[p].store = product[p].store
    BY <2>2, HiddenType
  <2> HIDE DEF h
  <2>4. \A p \in Products :
          \/ product'[p] = h[p]
          \/ (product[p] # Nothing /\ product'[p] = [h[p] EXCEPT !.category = c])
    BY <1>4 DEF MoveCommit, Recategorised, ProductsOf, h
  <2>5. \A x \in Product : LET y == [x EXCEPT !.category = c]
                           IN  y \in Product /\ y.store = x.store
    BY <2>1 DEF Product
  <2>6. \A p \in Products : product[p] # Nothing => h[p] \in Product
    BY <2>3
  <2>7. \A p \in Products :
           /\ product'[p] \in Product \cup {Nothing}
           /\ product[p] # Nothing =>
                product'[p] \in Product /\ product'[p].store = h[p].store
    BY <2>3, <2>4, <2>5, <2>6
  <2>8. product' \in [Products -> Product \cup {Nothing}]
    BY <1>4, <2>7 DEF MoveCommit, Recategorised
  <2>9. \A p \in Products :
          /\ product[p] = Nothing => product'[p] = Nothing
          /\ product[p] # Nothing =>
               product'[p] # Nothing /\ product'[p].store = product[p].store
    BY <2>3, <2>4, <2>7, CatalogueAssumption
  <2>10. store' = [store EXCEPT ![s] = [@ EXCEPT !.category = c, !.mode = mode]]
    BY <1>4 DEF MoveCommit
  <2>11. [store[s] EXCEPT !.category = c, !.mode = mode] \in Store
    BY <2>1 DEF Store
  <2>12. TypeOK'
    BY <1>0, <1>4, <2>8, <2>10, <2>11 DEF MoveCommit, Go, TypeOK
  <2>13. \A t \in Requests : req'[t] = req[t] \/ Sound(req'[t])
    BY <1>0, <1>4 DEF MoveCommit, Go, TypeOK
  <2>14. \A t \in Stores : store[t] # Nothing => store'[t] # Nothing
    BY <2>10, <2>11, CatalogueAssumption DEF TypeOK
  <2> QED
    BY <2>9, <2>12, <2>13, <2>14, KeepRows
<1>5. ASSUME NEW p \in Products, CreateInsert(r, p)
      PROVE  Typed'
  <2>1. req[r].row \in Product /\ store[req[r].row.store] # Nothing
    BY <1>5, StageType DEF CreateInsert, RowsExist, Sound, Building
  <2>2. TypeOK'
    BY <1>0, <1>5, <2>1 DEF CreateInsert, Go, TypeOK
  <2>3. \A t \in Requests : req'[t] = req[t] \/ Sound(req'[t])
    BY <1>0, <1>5 DEF CreateInsert, Go, TypeOK
  <2>4. \A q \in Products : product'[q] = product[q] \/ (q = p /\ product'[q] = req[r].row)
    BY <1>5 DEF CreateInsert, TypeOK
  <2> QED
    BY <1>5, <2>1, <2>2, <2>3, <2>4, KeepRows DEF CreateInsert
<1>6. ASSUME UpdateWrite(r)
      PROVE  Typed'
  <2> DEFINE q == req[r]
             p == q.product
             b == IF q.setsPreOrder THEN q.row.isPreOrder ELSE product[p].isPreOrder
             new == [q.row EXCEPT !.isActive = product[p].isActive, !.isPreOrder = b]
  <2>1. /\ p \in Products /\ q.row \in Product
        /\ product[p] \in Product /\ product[p].store = q.row.store
    BY <1>6, StageType, RowFields DEF UpdateWrite, RowsExist, Sound, Building
  <2>2. product[p].isActive \in BOOLEAN /\ b \in BOOLEAN
    BY <2>1, Zenon DEF Product
  <2>3. product' = [product EXCEPT ![p] = new]
    BY <1>6 DEF UpdateWrite
  <2> HIDE DEF b
  <2>4. new \in Product /\ new.store = product[p].store
    BY <2>1, <2>2 DEF Product
  <2> HIDE DEF new
  <2>5. TypeOK'
    BY <1>0, <1>6, <2>3, <2>4 DEF UpdateWrite, Go, TypeOK
  <2>6. \A t \in Requests : req'[t] = req[t] \/ Sound(req'[t])
    BY <1>0, <1>6 DEF UpdateWrite, Go, TypeOK
  <2>7. \A t \in Products : product'[t] = product[t] \/ (t = p /\ product'[t] = new)
    BY <2>3 DEF TypeOK
  <2> QED
    BY <1>6, <2>1, <2>4, <2>5, <2>6, <2>7, CatalogueAssumption, KeepRows
    DEF UpdateWrite
<1>7. ASSUME NEW m \in Menus, CreateMenuInsert(r, m)
      PROVE  Typed'
  <2>1. req[r].store \in Stores
    BY <1>7, StageType DEF CreateMenuInsert
  <2>2. TypeOK'
    BY <1>0, <1>7, <2>1 DEF CreateMenuInsert, Go, TypeOK
  <2>3. \A t \in Requests : req'[t] = req[t] \/ Sound(req'[t])
    BY <1>0, <1>7 DEF CreateMenuInsert, Go, TypeOK
  <2> QED
    BY <1>7, <2>2, <2>3, KeepRows DEF CreateMenuInsert
<1>8. ASSUME RemoveMenuDelete(r)
      PROVE  Typed'
  <2>1. TypeOK'
    BY <1>0, <1>8 DEF RemoveMenuDelete, Go, TypeOK
  <2>2. \A t \in Requests : req'[t] = req[t] \/ Sound(req'[t])
    BY <1>0, <1>8 DEF RemoveMenuDelete, Go, TypeOK
  <2> QED
    BY <1>8, <2>1, <2>2, KeepRows DEF RemoveMenuDelete
<1> QED
  BY <1>1, <1>2, <1>3, <1>4, <1>5, <1>6, <1>7, <1>8 DEF Step

LEMMA TypedAtOnce ==
  ASSUME Typed, AtOnce
  PROVE  Typed'
<1> USE DEF Typed
<1>1. ASSUME NEW c \in Categories, NEW mode \in Mode, CreateCategory(c, mode)
      PROVE  Typed'
  <2>1. TypeOK'
    BY <1>1 DEF CreateCategory, TypeOK
  <2> QED
    BY <1>1, <2>1, KeepRows DEF CreateCategory
<1>2. ASSUME NEW s \in Stores, NEW b \in BOOLEAN, SetAdminManaged(s, b)
      PROVE  Typed'
  <2>1. \A p \in Products :
          \/ product'[p] = product[p]
          \/ /\ product[p] \in Product
             /\ product'[p] = [product[p] EXCEPT !.managed = b]
    BY <1>2, RowFields DEF SetAdminManaged, ProductsOf
  <2>2. \A x \in Product : LET y == [x EXCEPT !.managed = b]
                           IN  y \in Product /\ y.store = x.store
    BY DEF Product
  <2>3. product' \in [Products -> Product \cup {Nothing}]
    BY <1>2, <2>1, <2>2 DEF SetAdminManaged, TypeOK
  <2>4. store' = [store EXCEPT ![s] = [@ EXCEPT !.managed = b]]
    BY <1>2 DEF SetAdminManaged
  <2>5. store[s] \in Store
    BY <1>2, RowFields DEF SetAdminManaged
  <2>6. [store[s] EXCEPT !.managed = b] \in Store
    BY <2>5 DEF Store
  <2>7. TypeOK'
    BY <1>2, <2>3, <2>4, <2>6 DEF SetAdminManaged, TypeOK
  <2>8. \A t \in Stores : store[t] # Nothing => store'[t] # Nothing
    BY <2>4, <2>6, CatalogueAssumption DEF TypeOK
  <2>9. \A p \in Products :
          /\ product[p] = Nothing => product'[p] = Nothing
          /\ product[p] # Nothing =>
               product'[p] # Nothing /\ product'[p].store = product[p].store
    BY <1>2, <2>1, <2>2, CatalogueAssumption DEF SetAdminManaged, ProductsOf
  <2> QED
    BY <1>2, <2>7, <2>8, <2>9, KeepRows DEF SetAdminManaged
<1>3. ASSUME NEW p \in Products, NEW b \in BOOLEAN, SetActive(p, b)
      PROVE  Typed'
  <2>1. product[p] \in Product
    BY <1>3, RowFields DEF SetActive
  <2>2. product' = [product EXCEPT ![p] = [@ EXCEPT !.isActive = b]]
    BY <1>3 DEF SetActive
  <2>3. /\ [product[p] EXCEPT !.isActive = b] \in Product
        /\ [product[p] EXCEPT !.isActive = b].store = product[p].store
    BY <2>1 DEF Product
  <2>4. TypeOK'
    BY <1>3, <2>2, <2>3 DEF SetActive, TypeOK
  <2> QED
    BY <1>3, <2>2, <2>3, <2>4, CatalogueAssumption, KeepRows DEF SetActive, TypeOK
<1> QED
  BY <1>1, <1>2, <1>3 DEF AtOnce

LEMMA TypedNext ==
  ASSUME Typed, [Next]_vars
  PROVE  Typed'
<1>1. CASE AtOnce
  BY <1>1, TypedAtOnce
<1>2. ASSUME NEW r \in Requests, Begin(r)
      PROVE  Typed'
  BY <1>2, TypedBegin
<1>3. ASSUME NEW r \in Requests, Step(r)
      PROVE  Typed'
  BY <1>3, TypedStep
<1>4. ASSUME NEW r \in Requests, Fail(r)
      PROVE  Typed'
  <2>1. Idle \in Request /\ Sound(Idle)
    BY DEF Request, Idle, Sound, Building
  <2> QED
    BY <1>4, <2>1, Moves DEF Fail
<1>5. CASE UNCHANGED vars
  BY <1>5 DEF vars, Typed, TypeOK, RowsExist, Sound
<1> QED
  BY <1>1, <1>2, <1>3, <1>4, <1>5 DEF Next

LEMMA TypedInit == Init => Typed
  BY DEF Init, Typed, TypeOK, RowsExist, Sound, Request, Idle, Building

\* Whatever overlaps and fails, every row and request keeps its type.
THEOREM TypeCorrect == Spec => []TypeOK
<1>1. Typed /\ [Next]_vars => Typed'
  BY TypedNext
<1>2. Typed => TypeOK
  BY DEF Typed
<1> QED
  BY TypedInit, <1>1, <1>2, PTL DEF Spec

-----------------------------------------------------------------------------
(* With requests whose reads stay true.                                    *)

\* The menu of a row that is about to be written.
RowMenus ==
  \A r \in Requests : req[r].at \in Building =>
    LET row == req[r].row IN
      row.menu # Nothing => row.kind = "food" /\ menu[row.menu] = row.store

SInv == /\ Typed /\ Fresh /\ RowMenus
        /\ StoreFollowsCategory /\ ProductFollowsStore /\ MenusResolve

\* The steps that write nothing but their request.
Quiet == UNCHANGED <<category, store, product, menu>>

\* The steps that write something.
Writes ==
  \/ AtOnce
  \/ \E r \in Requests : Step(r)
  \/ \E r \in Requests, m \in Menus : RemoveMenuDetach(r, m)

LEMMA QuietOrWrites ==
  ASSUME [Next]_vars
  PROVE  Quiet \/ Writes
<1>1. ASSUME NEW r \in Requests, Begin(r)
      PROVE  Quiet \/ Writes
  <2>1. \A s \in Stores, c \in Categories : MoveRead(r, s, c) => Quiet
    BY DEF MoveRead, Quiet
  <2>2. \A c \in Categories :
          /\ \A mode \in Mode : UpdateCategoryRead(r, c, mode) => Quiet
          /\ RemoveCategoryRead(r, c) => Quiet
          /\ \A managed \in BOOLEAN : OpenRead(r, c, managed) => Quiet
    BY DEF UpdateCategoryRead, RemoveCategoryRead, OpenRead, Quiet
  <2>3. \A s \in Stores, c \in Categories : UpdateAdminStore(r, s, c) => Quiet
    BY <2>1, OnlyMoves
  <2>4. /\ \A s \in Stores, kind \in Kind, m \in Menus \cup {Nothing}, b \in BOOLEAN :
             CreateRead(r, s, kind, m, b) => Quiet
        /\ \A p \in Products, kind \in Kind, m \in Menus \cup {Nothing},
             b \in BOOLEAN, sets \in BOOLEAN :
             UpdateRead(r, p, kind, m, b, sets) => Quiet
        /\ \A s \in Stores : CreateMenuRead(r, s) => Quiet
    BY DEF CreateRead, UpdateRead, CreateMenuRead, Quiet
  <2>5. (\E m \in Menus : RemoveMenuDetach(r, m)) => Writes
    BY DEF Writes
  <2> HIDE DEF Quiet, Writes
  <2> QED
    BY <1>1, <2>1, <2>2, <2>3, <2>4, <2>5 DEF Begin
<1> QED
  BY <1>1 DEF Next, vars, Quiet, Writes, Fail

LEMMA StoresFollow ==
  ASSUME SInv, [Next]_vars
  PROVE  StoreFollowsCategory'
<1> SUFFICES ASSUME NEW s \in Stores, store'[s] # Nothing
             PROVE  category'[store'[s].category] = store'[s].mode
  BY DEF StoreFollowsCategory
<1> USE DEF SInv, Typed
<1>1. store[s] # Nothing =>
        /\ store[s].category \in Categories /\ store[s].mode \in Mode
        /\ category[store[s].category] = store[s].mode
  BY RowFields DEF StoreFollowsCategory, Store
<1>2. CASE Quiet
  BY <1>1, <1>2 DEF Quiet
<1>3. ASSUME NEW c \in Categories, NEW mode \in Mode, CreateCategory(c, mode)
      PROVE  category'[store'[s].category] = store'[s].mode
  BY <1>1, <1>3, CatalogueAssumption DEF CreateCategory, TypeOK
<1>4. ASSUME NEW t \in Stores, NEW b \in BOOLEAN, SetAdminManaged(t, b)
      PROVE  category'[store'[s].category] = store'[s].mode
  <2>1. store[s] # Nothing /\ store[s] \in Store
    BY <1>4, RowFields DEF SetAdminManaged, TypeOK
  <2>2. store'[s] = store[s] \/ store'[s] = [store[s] EXCEPT !.managed = b]
    BY <1>4 DEF SetAdminManaged, TypeOK
  <2> QED
    BY <1>1, <1>4, <2>1, <2>2 DEF SetAdminManaged, Store
<1>5. ASSUME NEW r \in Requests, UpdateCategoryCommit(r)
      PROVE  category'[store'[s].category] = store'[s].mode
  <2> DEFINE q == req[r]
  <2>1. /\ q.category \in Categories /\ q.mode \in Mode
        /\ category[q.category] = q.was
    BY <1>5, StageType DEF UpdateCategoryCommit, Fresh
  <2>2. category' = [category EXCEPT ![q.category] = q.mode]
    BY <1>5 DEF UpdateCategoryCommit
  <2>3. store'[s] = IF s \in StoresIn(q.category) /\ q.mode # q.was
                    THEN [store[s] EXCEPT !.mode = q.mode] ELSE store[s]
    BY <1>5 DEF UpdateCategoryCommit, Remode
  <2>4. store[s] # Nothing /\ store[s] \in Store
    BY <2>3, RowFields DEF StoresIn
  <2>5. CASE s \in StoresIn(q.category) /\ q.mode # q.was
    <3>1. /\ store'[s].mode = q.mode
          /\ store'[s].category = q.category
      BY <2>3, <2>4, <2>5 DEF Store, StoresIn
    <3> QED
      BY <2>1, <2>2, <3>1 DEF TypeOK
  <2>6. CASE s \in StoresIn(q.category) /\ q.mode = q.was
    BY <1>1, <2>1, <2>2, <2>3, <2>4, <2>6 DEF StoresIn, TypeOK
  <2>7. CASE s \notin StoresIn(q.category)
    BY <1>1, <2>1, <2>2, <2>3, <2>4, <2>7 DEF StoresIn, TypeOK
  <2> QED
    BY <2>5, <2>6, <2>7
<1>6. ASSUME NEW r \in Requests, RemoveCategoryDelete(r)
      PROVE  category'[store'[s].category] = store'[s].mode
  <2>1. StoresIn(req[r].category) = {}
    BY <1>6 DEF RemoveCategoryDelete, Fresh
  <2> QED
    BY <1>1, <1>6, <2>1 DEF RemoveCategoryDelete, StoresIn, TypeOK
<1>7. ASSUME NEW r \in Requests, NEW t \in Stores, OpenCommit(r, t)
      PROVE  category'[store'[s].category] = store'[s].mode
  <2>1. category[req[r].row.category] = req[r].row.mode
    BY <1>7 DEF OpenCommit, Fresh
  <2>2. store'[s] = IF s = t THEN req[r].row ELSE store[s]
    BY <1>7 DEF OpenCommit, TypeOK
  <2> QED
    BY <1>1, <1>7, <2>1, <2>2 DEF OpenCommit
<1>8. ASSUME NEW r \in Requests, MoveCommit(r)
      PROVE  category'[store'[s].category] = store'[s].mode
  <2> DEFINE q == req[r]
  <2>1. /\ q.store \in Stores /\ q.category \in Categories /\ q.mode \in Mode
        /\ store[q.store] \in Store
        /\ category[q.category] = q.mode
    BY <1>8, StageType, RowFields DEF MoveCommit, Fresh, RowsExist, Sound
  <2>2. store' = [store EXCEPT ![q.store] =
                    [@ EXCEPT !.category = q.category, !.mode = q.mode]]
    BY <1>8 DEF MoveCommit
  <2>3. CASE s = q.store
    <3>1. store'[s].category = q.category /\ store'[s].mode = q.mode
      BY <2>1, <2>2, <2>3 DEF TypeOK, Store
    <3> QED
      BY <1>8, <2>1, <3>1 DEF MoveCommit
  <2>4. CASE s # q.store
    BY <1>1, <1>8, <2>1, <2>2, <2>4 DEF MoveCommit, TypeOK
  <2> QED
    BY <2>3, <2>4
<1>9. CASE Writes /\ UNCHANGED <<category, store>>
  BY <1>1, <1>9
<1>10. Writes =>
         \/ UNCHANGED <<category, store>>
         \/ \E c \in Categories, mode \in Mode : CreateCategory(c, mode)
         \/ \E t \in Stores, b \in BOOLEAN : SetAdminManaged(t, b)
         \/ \E r \in Requests : \/ UpdateCategoryCommit(r)
                                \/ RemoveCategoryDelete(r)
                                \/ MoveCommit(r)
                                \/ \E t \in Stores : OpenCommit(r, t)
  BY DEF Writes, AtOnce, Step, SetActive, CreateInsert, UpdateWrite,
         CreateMenuInsert, RemoveMenuDelete, RemoveMenuDetach
<1> QED
  BY <1>2, <1>3, <1>4, <1>5, <1>6, <1>7, <1>8, <1>9, <1>10, QuietOrWrites

LEMMA ProductsFollow ==
  ASSUME SInv, [Next]_vars
  PROVE  ProductFollowsStore'
<1> DEFINE Follows(p) == /\ product'[p].category = store'[product'[p].store].category
                         /\ product'[p].managed = store'[product'[p].store].managed
<1> SUFFICES ASSUME NEW p \in Products, product'[p] # Nothing
             PROVE  Follows(p)
  BY DEF ProductFollowsStore
<1> USE DEF SInv, Typed
<1>1. product[p] # Nothing =>
        /\ product[p] \in Product /\ product[p].store \in Stores
        /\ store[product[p].store] # Nothing
        /\ store[product[p].store] \in Store
        /\ product[p].category = store[product[p].store].category
        /\ product[p].managed = store[product[p].store].managed
  BY RowFields DEF ProductFollowsStore, RowsExist, Product
<1>2. CASE Quiet
  BY <1>1, <1>2 DEF Quiet
<1>3. ASSUME NEW s \in Stores, NEW b \in BOOLEAN, SetAdminManaged(s, b)
      PROVE  Follows(p)
  <2>1. store' = [store EXCEPT ![s] = [@ EXCEPT !.managed = b]]
    BY <1>3 DEF SetAdminManaged
  <2>2. store[s] \in Store
    BY <1>3, RowFields DEF SetAdminManaged
  <2>3. store'[s].category = store[s].category /\ store'[s].managed = b
    BY <2>1, <2>2 DEF TypeOK, Store
  <2>4. CASE product[p] # Nothing /\ product[p].store = s
    <3>1. product'[p] = [product[p] EXCEPT !.managed = b]
      BY <1>3, <2>4 DEF SetAdminManaged, ProductsOf
    <3> QED
      BY <1>1, <2>3, <2>4, <3>1 DEF Product
  <2>5. CASE ~(product[p] # Nothing /\ product[p].store = s)
    <3>1. product'[p] = product[p]
      BY <1>3, <2>5 DEF SetAdminManaged, ProductsOf
    <3> QED
      BY <1>1, <2>1, <2>5, <3>1 DEF TypeOK
  <2> QED
    BY <2>4, <2>5
<1>4. ASSUME NEW t \in Products, NEW b \in BOOLEAN, SetActive(t, b)
      PROVE  Follows(p)
  <2>1. product'[p] = product[p] \/ product'[p] = [product[p] EXCEPT !.isActive = b]
    BY <1>4 DEF SetActive, TypeOK
  <2>2. product[p] # Nothing
    BY <1>4, <2>1 DEF SetActive, TypeOK
  <2> QED
    BY <1>1, <1>4, <2>1, <2>2 DEF SetActive, Product
<1>5. ASSUME NEW r \in Requests, UpdateCategoryCommit(r)
      PROVE  Follows(p)
  <2> DEFINE q == req[r]
             h == Hidden(ProductsIn(q.category), q.mode)
  <2>1. /\ h[p] = Nothing <=> product[p] = Nothing
        /\ product[p] # Nothing => /\ h[p].store = product[p].store
                                   /\ h[p].category = product[p].category
                                   /\ h[p].managed = product[p].managed
    <3>1. /\ ProductsIn(q.category) \in SUBSET Products
          /\ \A t \in ProductsIn(q.category) : product[t] # Nothing
      BY DEF ProductsIn
    <3> QED
      BY <3>1, HiddenType
  <2>2. product' = h
    BY <1>5 DEF UpdateCategoryCommit
  <2> HIDE DEF h
  <2>3. \A s \in Stores : store[s] \in Store =>
          /\ store'[s].category = store[s].category
          /\ store'[s].managed = store[s].managed
    BY <1>5 DEF UpdateCategoryCommit, Remode, Store
  <2> QED
    BY <1>1, <2>1, <2>2, <2>3
<1>6. ASSUME NEW r \in Requests, NEW s \in Stores, OpenCommit(r, s)
      PROVE  Follows(p)
  BY <1>1, <1>6 DEF OpenCommit, TypeOK
<1>7. ASSUME NEW r \in Requests, MoveCommit(r)
      PROVE  Follows(p)
  <2> DEFINE q == req[r]
             h == Hidden(ProductsOf(q.store), q.mode)
  <2>1. /\ h[p] = Nothing <=> product[p] = Nothing
        /\ h[p] \in Product \cup {Nothing}
        /\ product[p] # Nothing => /\ h[p].store = product[p].store
                                   /\ h[p].category = product[p].category
                                   /\ h[p].managed = product[p].managed
    <3>1. /\ ProductsOf(q.store) \in SUBSET Products
          /\ \A t \in ProductsOf(q.store) : product[t] # Nothing
      BY DEF ProductsOf
    <3> QED
      BY <3>1, HiddenType
  <2>2. product'[p] = IF p \in ProductsOf(q.store)
                      THEN [h[p] EXCEPT !.category = q.category] ELSE h[p]
    BY <1>7 DEF MoveCommit, Recategorised
  <2> HIDE DEF h
  <2>3. q.store \in Stores /\ store[q.store] \in Store
    BY <1>7, StageType, RowFields DEF MoveCommit, RowsExist, Sound
  <2>4. store' = [store EXCEPT ![q.store] =
                    [@ EXCEPT !.category = q.category, !.mode = q.mode]]
    BY <1>7 DEF MoveCommit
  <2>5. /\ store'[q.store].category = q.category
        /\ store'[q.store].managed = store[q.store].managed
    BY <2>3, <2>4 DEF TypeOK, Store
  <2>6. CASE p \in ProductsOf(q.store)
    <3>1. product[p] # Nothing /\ product[p].store = q.store
      BY <2>6 DEF ProductsOf
    <3>2. h[p] \in Product
      BY <2>1, <3>1
    <3>3. /\ product'[p].store = q.store /\ product'[p].category = q.category
          /\ product'[p].managed = product[p].managed
      BY <2>1, <2>2, <2>6, <3>1, <3>2 DEF Product
    <3> QED
      BY <1>1, <2>5, <3>1, <3>3
  <2>7. CASE p \notin ProductsOf(q.store)
    BY <1>1, <2>1, <2>2, <2>4, <2>7 DEF ProductsOf, TypeOK
  <2> QED
    BY <2>6, <2>7
<1>8. ASSUME NEW r \in Requests, NEW t \in Products, CreateInsert(r, t)
      PROVE  Follows(p)
  <2>1. RowFresh(req[r].row)
    BY <1>8 DEF CreateInsert, Fresh
  <2>2. product'[p] = IF p = t THEN req[r].row ELSE product[p]
    BY <1>8 DEF CreateInsert, TypeOK
  <2> QED
    BY <1>1, <1>8, <2>1, <2>2 DEF CreateInsert, RowFresh
<1>9. ASSUME NEW r \in Requests, UpdateWrite(r)
      PROVE  Follows(p)
  <2> DEFINE q == req[r]
             b == IF q.setsPreOrder THEN q.row.isPreOrder
                  ELSE product[q.product].isPreOrder
             new == [q.row EXCEPT !.isActive = product[q.product].isActive,
                                  !.isPreOrder = b]
  <2>1. q.product \in Products /\ q.row \in Product /\ RowFresh(q.row)
    BY <1>9, StageType DEF UpdateWrite, Fresh
  <2>2. product'[p] = IF p = q.product THEN new ELSE product[p]
    BY <1>9, <2>1 DEF UpdateWrite, TypeOK
  <2> HIDE DEF b
  <2>3. /\ new.store = q.row.store /\ new.category = q.row.category
        /\ new.managed = q.row.managed
    BY <2>1 DEF Product
  <2> HIDE DEF new
  <2> QED
    BY <1>1, <1>9, <2>1, <2>2, <2>3 DEF UpdateWrite, RowFresh
<1>10. ASSUME NEW r \in Requests, NEW m \in Menus, RemoveMenuDetach(r, m)
       PROVE  Follows(p)
  <2>1. \/ product'[p] = product[p]
        \/ product[p] # Nothing /\ product'[p] = [product[p] EXCEPT !.menu = Nothing]
    BY <1>10 DEF RemoveMenuDetach
  <2>2. product[p] # Nothing
    BY <2>1
  <2> QED
    BY <1>1, <1>10, <2>1, <2>2 DEF RemoveMenuDetach, Product
<1>11. CASE UNCHANGED <<store, product>>
  BY <1>1, <1>11
<1>12. Writes =>
         \/ UNCHANGED <<store, product>>
         \/ \E s \in Stores, b \in BOOLEAN : SetAdminManaged(s, b)
         \/ \E t \in Products, b \in BOOLEAN : SetActive(t, b)
         \/ \E r \in Requests : \/ UpdateCategoryCommit(r)
                                \/ MoveCommit(r)
                                \/ UpdateWrite(r)
                                \/ \E s \in Stores : OpenCommit(r, s)
                                \/ \E t \in Products : CreateInsert(r, t)
                                \/ \E m \in Menus : RemoveMenuDetach(r, m)
  BY DEF Writes, AtOnce, Step, CreateCategory, RemoveCategoryDelete,
         CreateMenuInsert, RemoveMenuDelete
<1> QED
  BY <1>2, <1>3, <1>4, <1>5, <1>6, <1>7, <1>8, <1>9, <1>10, <1>11, <1>12,
     QuietOrWrites

\* What a step does to the menus themselves.
LEMMA MenuSteps ==
  ASSUME SInv, [Next]_vars
  PROVE  \/ menu' = menu
         \/ \E r \in Requests, m \in Menus :
              /\ menu[m] = Nothing
              /\ menu' = [menu EXCEPT ![m] = req[r].store]
              /\ product' = product
         \/ \E r \in Requests :
              /\ req[r].at = "delete"
              /\ menu' = [menu EXCEPT ![req[r].menu] = Nothing]
              /\ product' = product
<1>1. Writes => \/ menu' = menu
                \/ \E r \in Requests : \/ RemoveMenuDelete(r)
                                       \/ \E m \in Menus : CreateMenuInsert(r, m)
  BY DEF Writes, AtOnce, Step, SetActive, CreateInsert, UpdateWrite,
         RemoveMenuDetach, CreateCategory, SetAdminManaged, UpdateCategoryCommit,
         RemoveCategoryDelete, OpenCommit, MoveCommit
<1> QED
  BY <1>1, QuietOrWrites DEF Quiet, RemoveMenuDelete, CreateMenuInsert

LEMMA MenusStay ==
  ASSUME SInv, [Next]_vars, Fresh'
  PROVE  MenusResolve'
<1> DEFINE Good(x) == x.menu # Nothing => x.kind = "food" /\ menu[x.menu] = x.store
<1> SUFFICES ASSUME NEW p \in Products, product'[p] # Nothing, product'[p].menu # Nothing
             PROVE  /\ product'[p].kind = "food"
                    /\ menu'[product'[p].menu] = product'[p].store
  BY DEF MenusResolve
<1> USE DEF SInv, Typed
<1>1. product[p] # Nothing =>
        /\ product[p] \in Product
        /\ Good(product[p])
  BY RowFields DEF MenusResolve
\* Whatever a step writes into the product was checked against the menus.
<1>2. Good(product'[p])
  <2>1. CASE Quiet
    BY <1>1, <2>1 DEF Quiet
  <2>2. ASSUME NEW s \in Stores, NEW b \in BOOLEAN, SetAdminManaged(s, b)
        PROVE  Good(product'[p])
    <3>1. \/ product'[p] = product[p]
          \/ /\ product[p] # Nothing
             /\ product'[p] = [product[p] EXCEPT !.managed = b]
      BY <2>2 DEF SetAdminManaged, ProductsOf
    <3> QED
      BY <1>1, <3>1 DEF Product
  <2>3. ASSUME NEW t \in Products, NEW b \in BOOLEAN, SetActive(t, b)
        PROVE  Good(product'[p])
    <3>1. \/ product'[p] = product[p]
          \/ /\ product[p] # Nothing
             /\ product'[p] = [product[p] EXCEPT !.isActive = b]
      BY <2>3 DEF SetActive, TypeOK
    <3> QED
      BY <1>1, <3>1 DEF Product
  <2>4. ASSUME NEW r \in Requests, UpdateCategoryCommit(r)
        PROVE  Good(product'[p])
    <3>1. /\ ProductsIn(req[r].category) \in SUBSET Products
          /\ \A t \in ProductsIn(req[r].category) : product[t] # Nothing
      BY DEF ProductsIn
    <3>2. product' = Hidden(ProductsIn(req[r].category), req[r].mode)
      BY <2>4 DEF UpdateCategoryCommit
    <3> QED
      BY <1>1, <3>1, <3>2, HiddenType
  <2>5. ASSUME NEW r \in Requests, MoveCommit(r)
        PROVE  Good(product'[p])
    <3> DEFINE q == req[r]
               h == Hidden(ProductsOf(q.store), q.mode)
    <3>1. /\ ProductsOf(q.store) \in SUBSET Products
          /\ \A t \in ProductsOf(q.store) : product[t] # Nothing
      BY DEF ProductsOf
    <3>2. /\ h[p] = Nothing <=> product[p] = Nothing
          /\ h[p] \in Product \cup {Nothing}
          /\ product[p] # Nothing => /\ h[p].store = product[p].store
                                     /\ h[p].kind = product[p].kind
                                     /\ h[p].menu = product[p].menu
      BY <3>1, HiddenType
    <3>3. product'[p] = IF p \in ProductsOf(q.store)
                        THEN [h[p] EXCEPT !.category = q.category] ELSE h[p]
      BY <2>5 DEF MoveCommit, Recategorised
    <3> HIDE DEF h
    <3>4. CASE p \in ProductsOf(q.store)
      <4>1. product[p] # Nothing /\ h[p] \in Product
        BY <3>2, <3>4, CatalogueAssumption DEF ProductsOf
      <4>2. /\ product'[p].store = h[p].store /\ product'[p].kind = h[p].kind
            /\ product'[p].menu = h[p].menu
        BY <3>3, <3>4, <4>1 DEF Product
      <4> QED
        BY <1>1, <3>2, <4>1, <4>2
    <3>5. CASE p \notin ProductsOf(q.store)
      BY <1>1, <3>2, <3>3, <3>5
    <3> QED
      BY <3>4, <3>5
  <2>6. ASSUME NEW r \in Requests, NEW t \in Products, CreateInsert(r, t)
        PROVE  Good(product'[p])
    <3>1. product'[p] = IF p = t THEN req[r].row ELSE product[p]
      BY <2>6 DEF CreateInsert, TypeOK
    <3> QED
      BY <1>1, <2>6, <3>1 DEF CreateInsert, RowMenus, Building
  <2>7. ASSUME NEW r \in Requests, UpdateWrite(r)
        PROVE  Good(product'[p])
    <3> DEFINE q == req[r]
               b == IF q.setsPreOrder THEN q.row.isPreOrder
                    ELSE product[q.product].isPreOrder
               new == [q.row EXCEPT !.isActive = product[q.product].isActive,
                                    !.isPreOrder = b]
    <3>1. q.product \in Products /\ q.row \in Product /\ Good(q.row)
      BY <2>7, StageType DEF UpdateWrite, RowMenus, Building
    <3>2. product'[p] = IF p = q.product THEN new ELSE product[p]
      BY <2>7, <3>1 DEF UpdateWrite, TypeOK
    <3> HIDE DEF b
    <3>3. new.store = q.row.store /\ new.kind = q.row.kind /\ new.menu = q.row.menu
      BY <3>1 DEF Product
    <3> HIDE DEF new
    <3> QED
      BY <1>1, <3>1, <3>2, <3>3
  <2>8. ASSUME NEW r \in Requests, NEW m \in Menus, RemoveMenuDetach(r, m)
        PROVE  Good(product'[p])
    <3>1. \/ product'[p] = product[p]
          \/ /\ product[p] # Nothing
             /\ product'[p] = [product[p] EXCEPT !.menu = Nothing]
      BY <2>8 DEF RemoveMenuDetach
    <3> QED
      BY <1>1, <3>1 DEF Product
  <2>9. CASE product' = product
    BY <1>1, <2>9
  <2>10. Writes =>
           \/ product' = product
           \/ \E s \in Stores, b \in BOOLEAN : SetAdminManaged(s, b)
           \/ \E t \in Products, b \in BOOLEAN : SetActive(t, b)
           \/ \E r \in Requests : \/ UpdateCategoryCommit(r)
                                  \/ MoveCommit(r)
                                  \/ UpdateWrite(r)
                                  \/ \E t \in Products : CreateInsert(r, t)
                                  \/ \E m \in Menus : RemoveMenuDetach(r, m)
    BY DEF Writes, AtOnce, Step, CreateCategory, RemoveCategoryDelete,
           CreateMenuInsert, RemoveMenuDelete, OpenCommit
  <2> QED
    BY <2>1, <2>2, <2>3, <2>4, <2>5, <2>6, <2>7, <2>8, <2>9, <2>10, QuietOrWrites
\* Creating a menu takes a free id; deleting one finds no product on it.
<1>3. CASE menu' = menu
  BY <1>2, <1>3
<1>4. ASSUME NEW r \in Requests, NEW m \in Menus, menu[m] = Nothing,
             menu' = [menu EXCEPT ![m] = req[r].store], product' = product
      PROVE  menu'[product'[p].menu] = product'[p].store
  <2>1. product[p].store # Nothing /\ product[p].menu \in Menus
    BY <1>1, <1>4, CatalogueAssumption DEF Product
  <2> QED
    BY <1>2, <1>4, <2>1 DEF TypeOK
<1>5. ASSUME NEW r \in Requests, req[r].at = "delete",
             menu' = [menu EXCEPT ![req[r].menu] = Nothing], product' = product
      PROVE  menu'[product'[p].menu] = product'[p].store
  <2>1. product[p].menu # req[r].menu
    BY <1>5 DEF Fresh
  <2>2. product[p].menu \in Menus
    BY <1>1, <1>5 DEF Product
  <2> QED
    BY <1>2, <1>5, <2>1, <2>2 DEF TypeOK
<1> QED
  BY <1>2, <1>3, <1>4, <1>5, MenuSteps

\* A request that builds a row has checked its menu, or has it from the product.
LEMMA RowsChecked ==
  ASSUME SInv, [Next]_vars, NEW r \in Requests, req'[r].at \in Building
  PROVE  \/ req'[r] = req[r]
         \/ /\ UNCHANGED <<category, store, product, menu>>
            /\ req'[r].row.menu # Nothing =>
                 /\ req'[r].row.kind = "food"
                 /\ menu[req'[r].row.menu] = req'[r].row.store
<1> USE DEF SInv, Typed
<1> DEFINE Checked == /\ UNCHANGED <<category, store, product, menu>>
                      /\ req'[r].row.menu # Nothing =>
                           /\ req'[r].row.kind = "food"
                           /\ menu[req'[r].row.menu] = req'[r].row.store
<1>1. ASSUME NEW s \in Stores, NEW kind \in Kind, NEW m \in Menus \cup {Nothing},
             NEW b \in BOOLEAN, CreateRead(r, s, kind, m, b)
      PROVE  Checked
  <2>1. req'[r].row = Row(s, kind, m, b)
    BY <1>1 DEF CreateRead, Go, TypeOK
  <2> QED
    BY <1>1, <2>1 DEF CreateRead, Row, Owned
<1>2. ASSUME NEW p \in Products, NEW kind \in Kind, NEW m \in Menus \cup {Nothing},
             NEW b \in BOOLEAN, NEW sets \in BOOLEAN,
             UpdateRead(r, p, kind, m, b, sets)
      PROVE  Checked
  <2>1. req'[r].row = Row(product[p].store, kind, m, b)
    BY <1>2 DEF UpdateRead, Go, TypeOK
  <2>2. m # Nothing /\ kind = "food" => menu[m] = product[p].store
    BY <1>2 DEF UpdateRead, Owned, MenusResolve
  <2> QED
    BY <1>2, <2>1, <2>2 DEF UpdateRead, Row
<1>3. ASSUME NEW t \in Requests, Begin(t)
      PROVE  req'[r] = req[r] \/ Checked
  <2>1. CASE t # r
    BY <1>3, <2>1 DEF Begin, Go, TypeOK, UpdateCategoryRead, RemoveCategoryRead,
      OpenRead, MoveRead, UpdateAdminStore, CreateRead, UpdateRead, CreateMenuRead,
      RemoveMenuDetach
  <2> DEFINE Else ==
        \/ \E c \in Categories :
             \/ \E mode \in Mode : UpdateCategoryRead(r, c, mode)
             \/ RemoveCategoryRead(r, c)
             \/ \E managed \in BOOLEAN : OpenRead(r, c, managed)
             \/ \E s \in Stores : MoveRead(r, s, c) \/ UpdateAdminStore(r, s, c)
        \/ \E s \in Stores : CreateMenuRead(r, s)
        \/ \E m \in Menus : RemoveMenuDetach(r, m)
  <2>2. ~Else
    BY DEF Go, TypeOK, UpdateCategoryRead, RemoveCategoryRead, OpenRead, MoveRead,
      UpdateAdminStore, CreateMenuRead, RemoveMenuDetach, Building
  <2>3. CASE t = r
    <3>1. \/ \E s \in Stores, kind \in Kind, m \in Menus \cup {Nothing}, b \in BOOLEAN :
               CreateRead(r, s, kind, m, b)
          \/ \E p \in Products, kind \in Kind, m \in Menus \cup {Nothing},
                b \in BOOLEAN, sets \in BOOLEAN : UpdateRead(r, p, kind, m, b, sets)
      BY <1>3, <2>2, <2>3 DEF Begin
    <3> HIDE DEF Checked
    <3> QED
      BY <1>1, <1>2, <3>1
  <2> QED
    BY <2>1, <2>3
<1>4. ASSUME NEW t \in Requests, Step(t) \/ Fail(t)
      PROVE  req'[r] = req[r]
  <2>1. Go(t, Idle)
    BY <1>4 DEF Step, Fail, UpdateCategoryCommit, RemoveCategoryDelete, OpenCommit,
      MoveCommit, CreateInsert, UpdateWrite, CreateMenuInsert, RemoveMenuDelete
  <2> QED
    BY <2>1 DEF Go, Idle, TypeOK, Building
<1>5. AtOnce => req' = req
  BY DEF AtOnce, CreateCategory, SetAdminManaged, SetActive
<1> QED
  BY <1>3, <1>4, <1>5 DEF Next, vars

LEMMA RowMenusStay ==
  ASSUME SInv, [Next]_vars, Fresh', TypeOK'
  PROVE  RowMenus'
<1> SUFFICES ASSUME NEW r \in Requests, req'[r].at \in Building,
                    req'[r].row.menu # Nothing
             PROVE  /\ req'[r].row.kind = "food"
                    /\ menu'[req'[r].row.menu] = req'[r].row.store
  BY DEF RowMenus
<1> USE DEF SInv, Typed
<1> DEFINE row == req'[r].row
<1>1. row \in Product /\ row.menu \in Menus
  <2>1. row \in Product
    BY DEF TypeOK, Request, Idle, Building
  <2> QED
    BY <2>1 DEF Product
<1>2. menu'[row.menu] # Nothing
  BY DEF Fresh, RowFresh, Building
<1>3. CASE req'[r] = req[r]
  <2>1. row.kind = "food" /\ menu[row.menu] = row.store
    BY <1>3 DEF RowMenus
  <2>2. row.store # Nothing
    BY <1>1, CatalogueAssumption DEF Product
  <2> QED
    BY <1>1, <1>2, <2>1, <2>2, MenuSteps DEF TypeOK
<1>4. CASE req'[r] # req[r]
  BY <1>4, RowsChecked
<1> QED
  BY <1>3, <1>4

LEMMA SerialInit == Init => SInv
  BY TypedInit
     DEF Init, SInv, Fresh, RowMenus, StoreFollowsCategory, ProductFollowsStore,
         MenusResolve, Idle, Building

LEMMA SerialNext ==
  ASSUME SInv, [Next /\ Fresh']_vars
  PROVE  SInv'
<1>1. [Next]_vars
  OBVIOUS
<1>2. Fresh'
  BY DEF vars, SInv, Fresh, RowFresh, StoresIn
<1>3. Typed'
  BY <1>1, TypedNext DEF SInv
<1> QED
  BY <1>1, <1>2, <1>3, StoresFollow, ProductsFollow, MenusStay, RowMenusStay
  DEF SInv, Typed

LEMMA SerialInvariant == SerialSpec => []SInv
  BY SerialInit, SerialNext, PTL DEF SerialSpec

\* When what a request has read stays true, the category of every store exists
\* and has the store's mode, whatever categories are added, changed and removed.
THEOREM StoresMatchCategories == SerialSpec => []StoreFollowsCategory
<1>1. SInv => StoreFollowsCategory
  BY DEF SInv
<1> QED
  BY SerialInvariant, <1>1, PTL

\* The category and the flag of a product are those of its store, whatever moves
\* and updates there are.
THEOREM ProductsMatchStores == SerialSpec => []ProductFollowsStore
<1>1. SInv => ProductFollowsStore
  BY DEF SInv
<1> QED
  BY SerialInvariant, <1>1, PTL

\* No product refers to a menu that is gone or is not its store's.
THEOREM MenusMatchStores == SerialSpec => []MenusResolve
<1>1. SInv => MenusResolve
  BY DEF SInv
<1> QED
  BY SerialInvariant, <1>1, PTL
-----------------------------------------------------------------------------
(* What comes on sale.                                                     *)

\* A product that is what it was, in a store of the mode it had.
LEMMA SameFit ==
  ASSUME NEW p \in Products, Misfit(p)', product[p] # Nothing,
         product'[p].isActive => product[p].isActive,
         product'[p].kind = product[p].kind, product'[p].store = product[p].store,
         store'[product[p].store].mode = store[product[p].store].mode
  PROVE  Misfit(p)
  BY DEF Misfit

LEMMA HiddenFits ==
  ASSUME TypeOK, NEW S \in SUBSET Products, NEW mode, NEW p \in Products,
         product[p] # Nothing
  PROVE  /\ p \notin S => Hidden(S, mode)[p] = product[p]
         /\ p \in S => /\ Hidden(S, mode)[p] \in Product
                       /\ Hidden(S, mode)[p].kind = product[p].kind
                       /\ Hidden(S, mode)[p].store = product[p].store
                       /\ Hidden(S, mode)[p].isActive => Fits(product[p].kind, mode)
  BY RowFields DEF Hidden, Product

\* The products of the stores that follow a category follow it too.
LEMMA NoMisfitByCategory ==
  ASSUME SInv, NEW r \in Requests, UpdateCategoryCommit(r),
         NEW p \in Products, Misfit(p)'
  PROVE  Misfit(p)
<1> USE DEF SInv, Typed
<1>1. PICK c \in Categories, mode \in Mode :
        c = req[r].category /\ mode = req[r].mode
  BY StageType DEF UpdateCategoryCommit
<1>2. /\ category[c] = req[r].was
      /\ store' = Remode(c, category[c], mode)
      /\ product' = Hidden(ProductsIn(c), mode)
  BY <1>1 DEF UpdateCategoryCommit, Fresh
<1>3. /\ product[p] # Nothing /\ product[p] \in Product
      /\ product[p].store \in Stores /\ store[product[p].store] # Nothing
      /\ store[product[p].store] \in Store
      /\ product[p].category = store[product[p].store].category
      /\ category[product[p].category] = store[product[p].store].mode
  <2>1. product[p] # Nothing
    BY <1>2 DEF Misfit, Hidden, ProductsIn
  <2>2. product[p] \in Product /\ product[p].store \in Stores
    BY <2>1, RowFields DEF Product
  <2> QED
    BY <2>1, <2>2, RowFields
       DEF RowsExist, ProductFollowsStore, StoreFollowsCategory
<1>4. CASE p \in ProductsIn(c)
  <2>1. product[p].category = c
    BY <1>4 DEF ProductsIn
  <2>2. store'[product[p].store].mode = mode
    BY <1>2, <1>3, <2>1 DEF Remode, StoresIn, Store
  <2>3. /\ product'[p].kind = product[p].kind /\ product'[p].store = product[p].store
        /\ product'[p].isActive => Fits(product[p].kind, mode)
    BY <1>2, <1>3, <1>4, HiddenFits DEF ProductsIn
  <2> QED
    BY <2>2, <2>3 DEF Misfit
<1>5. CASE p \notin ProductsIn(c)
  <2>1. product[p].store \notin StoresIn(c)
    BY <1>3, <1>5 DEF ProductsIn, StoresIn
  <2>2. store'[product[p].store] = store[product[p].store]
    BY <1>2, <1>3, <2>1 DEF Remode
  <2>3. product'[p] = product[p]
    BY <1>2, <1>3, <1>5, HiddenFits DEF ProductsIn
  <2> QED
    BY <1>3, <2>2, <2>3, SameFit
<1> QED
  BY <1>4, <1>5

LEMMA NoMisfitByMove ==
  ASSUME SInv, NEW r \in Requests, MoveCommit(r), NEW p \in Products, Misfit(p)'
  PROVE  Misfit(p)
<1> USE DEF SInv, Typed
<1>1. PICK s \in Stores, c \in Categories, mode \in Mode :
        s = req[r].store /\ c = req[r].category /\ mode = req[r].mode
  BY StageType DEF MoveCommit
<1> DEFINE h == Hidden(ProductsOf(s), mode)
<1>2. /\ store' = [store EXCEPT ![s].category = c, ![s].mode = mode]
      /\ product' = Recategorised(h, s, c)
      /\ store[s] \in Store
  BY <1>1, RowFields DEF MoveCommit, RowsExist, Sound
<1>3. ProductsOf(s) \in SUBSET Products /\ \A q \in ProductsOf(s) : product[q] # Nothing
  BY DEF ProductsOf
<1>4. h[p] = Nothing <=> product[p] = Nothing
  BY <1>3, HiddenType
<1> HIDE DEF h
<1>5. product'[p] = IF p \in ProductsOf(s) THEN [h[p] EXCEPT !.category = c] ELSE h[p]
  BY <1>2 DEF Recategorised
<1>6. product[p] # Nothing
  BY <1>4, <1>5 DEF Misfit, ProductsOf
<1>7. CASE p \in ProductsOf(s)
  <2>1. /\ h[p] \in Product /\ h[p].kind = product[p].kind
        /\ h[p].store = product[p].store
        /\ h[p].isActive => Fits(product[p].kind, mode)
    BY <1>3, <1>6, <1>7, HiddenFits DEF h
  <2>2. /\ product'[p].kind = product[p].kind /\ product'[p].store = s
        /\ product'[p].isActive = h[p].isActive
    BY <1>5, <1>7, <2>1 DEF Product, ProductsOf
  <2>3. store'[s].mode = mode
    BY <1>2 DEF TypeOK, Store
  <2> QED
    BY <2>1, <2>2, <2>3 DEF Misfit
<1>8. CASE p \notin ProductsOf(s)
  <2>1. product'[p] = product[p]
    BY <1>3, <1>5, <1>6, <1>8, HiddenFits DEF h
  <2>2. product[p].store # s
    BY <1>6, <1>8 DEF ProductsOf
  <2>3. store'[product[p].store] = store[product[p].store]
    BY <1>2, <2>2, <1>6, RowFields DEF TypeOK, Product
  <2> QED
    BY <1>6, <2>1, <2>3, SameFit
<1> QED
  BY <1>7, <1>8

\* A row that is written is of a kind that its store allows.
LEMMA NoMisfitByRow ==
  ASSUME SInv, NEW r \in Requests,
         UpdateWrite(r) \/ \E q \in Products : CreateInsert(r, q),
         NEW p \in Products, Misfit(p)'
  PROVE  Misfit(p)
<1> USE DEF SInv, Typed
<1>1. store' = store
  BY DEF UpdateWrite, CreateInsert
<1>2. PICK q \in Products :
        /\ \A t \in Products \ {q} : product'[t] = product[t]
        /\ product'[q].kind = req[r].row.kind
        /\ product'[q].store = req[r].row.store
        /\ req[r].at \in Building
  <2>1. CASE UpdateWrite(r)
    <3>1. PICK q \in Products, row \in Product :
            q = req[r].product /\ row = req[r].row
      BY <2>1, StageType DEF UpdateWrite
    <3>2. PICK b, d :
            product' = [product EXCEPT ![q] = [row EXCEPT !.isActive = b, !.isPreOrder = d]]
      BY <2>1, <3>1, Zenon DEF UpdateWrite
    <3> QED
      BY <2>1, <3>1, <3>2 DEF UpdateWrite, TypeOK, Product, Building
  <2>2. ASSUME NEW q \in Products, CreateInsert(r, q)
        PROVE  /\ \A t \in Products \ {q} : product'[t] = product[t]
               /\ product'[q] = req[r].row
               /\ req[r].at \in Building
    BY <2>2 DEF CreateInsert, TypeOK, Building
  <2> QED
    BY <2>1, <2>2
<1>3. CASE p = q
  <2>1. Fits(req[r].row.kind, store[req[r].row.store].mode)
    BY <1>2 DEF Fresh, RowFresh, Building
  <2> QED
    BY <1>1, <1>2, <1>3, <2>1 DEF Misfit
<1>4. CASE p # q
  BY <1>1, <1>2, <1>4 DEF Misfit
<1> QED
  BY <1>3, <1>4

\* The rest: other columns, other rows, and an admin's switch.
LEMMA NoMisfitByOthers ==
  ASSUME SInv, NEW p \in Products, Misfit(p)',
         \/ Quiet
         \/ \E c \in Categories, mode \in Mode : CreateCategory(c, mode)
         \/ \E r \in Requests : \/ RemoveCategoryDelete(r) \/ RemoveMenuDelete(r)
                                \/ \E m \in Menus : \/ CreateMenuInsert(r, m)
                                                    \/ RemoveMenuDetach(r, m)
                                \/ \E s \in Stores : OpenCommit(r, s)
         \/ \E s \in Stores, b \in BOOLEAN : SetAdminManaged(s, b)
  PROVE  Misfit(p)
<1> USE DEF SInv, Typed
<1>1. ASSUME UNCHANGED <<store, product>>  PROVE Misfit(p)
  BY <1>1 DEF Misfit
<1>2. ASSUME NEW r \in Requests, NEW s \in Stores, OpenCommit(r, s)
      PROVE  Misfit(p)
  <2>1. product' = product /\ product[p] # Nothing
    BY <1>2 DEF OpenCommit, Misfit
  <2>2. product[p].store # s /\ store[product[p].store] # Nothing
    BY <1>2, <2>1 DEF OpenCommit, RowsExist
  <2>3. store'[product[p].store] = store[product[p].store]
    BY <1>2, <2>1, <2>2, RowFields DEF OpenCommit, TypeOK, Product
  <2> QED
    BY <2>1, <2>3, SameFit
<1>3. ASSUME NEW r \in Requests, NEW m \in Menus, RemoveMenuDetach(r, m)
      PROVE  Misfit(p)
  <2>1. /\ store' = store
        /\ \/ product'[p] = product[p]
           \/ /\ product[p] # Nothing
              /\ product'[p] = [product[p] EXCEPT !.menu = Nothing]
    BY <1>3 DEF RemoveMenuDetach
  <2>2. product[p] # Nothing
    BY <2>1 DEF Misfit
  <2> QED
    BY <2>1, <2>2, RowFields, SameFit DEF Product
<1>4. ASSUME NEW s \in Stores, NEW b \in BOOLEAN, SetAdminManaged(s, b)
      PROVE  Misfit(p)
  <2>1. /\ store[s] \in Store /\ store' = [store EXCEPT ![s].managed = b]
        /\ \/ product'[p] = product[p]
           \/ /\ product[p] # Nothing
              /\ product'[p] = [product[p] EXCEPT !.managed = b]
    BY <1>4, RowFields DEF SetAdminManaged, ProductsOf
  <2>2. product[p] # Nothing /\ product[p] \in Product
    BY <2>1, RowFields DEF Misfit
  <2>3. store'[product[p].store].mode = store[product[p].store].mode
    BY <2>1, <2>2 DEF TypeOK, Product, Store
  <2> QED
    BY <2>1, <2>2, <2>3, SameFit DEF Product
<1> QED
  BY <1>1, <1>2, <1>3, <1>4
     DEF Quiet, CreateCategory, RemoveCategoryDelete, RemoveMenuDelete, CreateMenuInsert

LEMMA NoNewMisfit ==
  ASSUME SInv, [Next]_vars, NEW p \in Products, Misfit(p)', ~Misfit(p)
  PROVE  SetActive(p, TRUE)
<1>1. CASE \E q \in Products, b \in BOOLEAN : SetActive(q, b)
  <2>1. PICK q \in Products, b \in BOOLEAN : SetActive(q, b)
    BY <1>1
  <2>2. product[q] \in Product /\ store' = store
    BY <2>1, RowFields DEF SetActive, SInv, Typed
  <2>3. CASE p # q
    BY <2>1, <2>2, <2>3 DEF SetActive, Misfit, SInv, Typed, TypeOK
  <2>4. CASE p = q /\ ~b
    BY <2>1, <2>2, <2>4 DEF SetActive, Misfit, SInv, Typed, TypeOK, Product
  <2> QED
    BY <2>1, <2>3, <2>4
<1>2. CASE ~\E q \in Products, b \in BOOLEAN : SetActive(q, b)
  BY <1>2, QuietOrWrites, NoMisfitByCategory, NoMisfitByMove, NoMisfitByRow,
     NoMisfitByOthers DEF Writes, AtOnce, Step
<1> QED
  BY <1>1, <1>2

\* When what a request has read stays true, no change of a category, a store or a
\* product brings a product on sale that its store's mode does not allow.
THEOREM MisfitsStayHidden == SerialSpec => MisfitsHidden
<1>1. SInv /\ [Next /\ Fresh']_vars =>
        [\A p \in Products : Misfit(p)' /\ ~Misfit(p) =>
           \E q \in Products : p = q /\ SetActive(q, TRUE)]_vars
  BY NoNewMisfit
<1> QED
  BY <1>1, SerialInvariant, PTL DEF SerialSpec, MisfitsHidden
=============================================================================
